---------------------------- MODULE ConsoleAccess ----------------------------
(***************************************************************************)
(* Who may use the console: the users of the node (users.py), the cookies  *)
(* of the browsers (web/session.py, shared_cookie.py), the login           *)
(* (api/auth.py), the check of every API request (api/deps.py), the        *)
(* answers of Nexus SSO and their cache (sso.py, sso_user.py), and the     *)
(* directory of organizations copied from billing (organization_sync.py).  *)
(*                                                                         *)
(* A node either asks Nexus SSO or keeps users of its own.  A request goes *)
(* through its checks one at a time, as each of them is a transaction, a   *)
(* look at the cache or a call of SSO, and other requests come in between. *)
(* SSO and billing are not in this repository: they answer as they please. *)
(***************************************************************************)
EXTENDS Integers, FiniteSets

CONSTANTS
  Clients,      (* browsers, numbered; each has one request under way      *)
  Tokens,       (* sessions of SSO, numbered                               *)
  Orgs,         (* organizations of billing                                *)
  OrgOf,        (* the organization of the account of a token, as a set    *)
  TTL,          (* _CACHE_TTL, in ticks                                    *)
  CacheMax,     (* entries of sso._cache above which it is cleared         *)
  ConsoleCalls  (* BOUND: requests, and what happens outside of the API;   *)
                (* a behaviour has one of these budgets                    *)

ASSUME ConsoleAssumption ==
  /\ Clients \subseteq Nat \ {0} /\ Tokens \subseteq Nat \ {0}
  /\ TTL \in Nat \ {0} /\ CacheMax \in Nat \ {0}
  /\ OrgOf \in [Tokens -> {{}} \cup {{o} : o \in Orgs}]
  /\ ConsoleCalls \subseteq [{"request", "outside"} -> Nat]

Watch   == 0                   (* the thread _billing_watch of the API     *)
Callers == Clients \cup {Watch}

VARIABLES
  sso,       (* NEXUS_SSO_URL is set                                       *)
  users,     (* the users table: [id, email, pass]                         *)
  serial,    (* the last id or password hash given out                     *)
  removals,  (* history: users removed so far                              *)
  emptied,   (* history: how the last user went                            *)
  jar,       (* the cookies of each client: [ui, shared]                   *)
  call,      (* the request of each client, and the sync of the thread     *)
  session,   (* what SSO knows of a token: [state, age since it ended]     *)
  cached,    (* sso._cache: ticks until an entry expires, 0 when there is none *)
  raced,     (* history: the token ended while an answer was on its way    *)
  billing,   (* what billing would answer: [edition, listed, open]         *)
  active,    (* organizations whose row is active                          *)
  heard,     (* history: the newest answer that was applied, and whether   *)
             (* the one applied last came from overlapping syncs           *)
  quota      (* what is left of ConsoleCalls                               *)

local       == <<users, serial, removals, emptied>>
remote      == <<session, raced, billing>>
directory   == <<active, heard>>
consoleVars == <<sso, users, serial, removals, emptied, jar, call, session,
                 cached, raced, billing, active, heard, quota>>

-----------------------------------------------------------------------------
Emails == {1, 2}
Kinds  == {"none", "local", "sso", "otp"}
Cookie(kind, id, pass) == [kind |-> kind, id |-> id, pass |-> pass]
NoCookie == Cookie("none", 0, 0)
NoJar    == [ui |-> NoCookie, shared |-> 0]

UserOps == {"add", "change", "remove"}
ConsoleOps     == UserOps \cup {"page", "cameras", "sync", "login", "otp", "callback", "none"}
ConsolePcs     == {"idle", "cache", "asking", "answered", "open", "row", "hook", "first", "act",
            "delete", "apply", "users", "create", "verify", "sso", "member"}

Rest == [pc |-> "idle", op |-> "none", token |-> 0, cookie |-> NoCookie, user |-> 0, by |-> "none",
         late |-> FALSE, looked |-> 0, edition |-> 0, listed |-> {}, open |-> {}, alone |-> TRUE]

Become(c, r)  == call' = [call EXCEPT ![c] = r]
Step(c, pc)   == Become(c, [call[c] EXCEPT !.pc = pc])
Finish(c)     == Become(c, Rest)
On(c, pc)     == call[c].pc = pc
Admit(c, by)  == Become(c, [call[c] EXCEPT !.pc = "act", !.by = by])
Pay(kind)     == quota[kind] > 0 /\ quota' = [quota EXCEPT ![kind] = @ - 1]
Give(c, ui)   == jar' = [jar EXCEPT ![c].ui = ui]
(* set_sso_cookie.                                                         *)
GiveToken(c, t) == jar' = [jar EXCEPT ![c] = [ui |-> Cookie("sso", t, 0), shared |-> t]]

Emptied(how) == emptied' = IF users' = {} THEN how ELSE emptied

(* Either nobody has ever come in, or the clients whose numbers are those  *)
(* of users, or of tokens of SSO, are logged in with them.                 *)
ConsoleInit ==
  /\ sso \in BOOLEAN
  /\ \E here \in BOOLEAN :
       LET known(c) == here /\ c \in (IF sso THEN Tokens ELSE Emails)
       IN  /\ users = IF here /\ ~sso THEN {[id |-> n, email |-> n, pass |-> n] : n \in Emails} ELSE {}
           /\ serial = Cardinality(users)
           /\ emptied = IF users = {} THEN "fresh" ELSE "never"
           /\ jar = [c \in Clients |->
                      IF ~known(c) THEN NoJar
                      ELSE IF sso THEN [ui |-> Cookie("sso", c, 0), shared |-> c]
                      ELSE [ui |-> Cookie("local", c, c), shared |-> 0]]
           /\ session = [t \in Tokens |->
                          [state |-> IF sso /\ t \in Clients /\ known(t) THEN "live" ELSE "new", age |-> 0]]
           /\ active = IF here /\ sso THEN Orgs ELSE {}
           /\ heard = [edition |-> IF here THEN 1 ELSE 0, open |-> active, tangled |-> FALSE]
  /\ removals = 0
  /\ call = [c \in Callers |-> Rest]
  /\ cached = [t \in Tokens |-> 0] /\ raced = [t \in Tokens |-> FALSE]
  /\ billing = [edition |-> 1, listed |-> Orgs, open |-> Orgs]
  /\ quota \in ConsoleCalls

-----------------------------------------------------------------------------
(* require_api_token() and require_camera_auth().                          *)

(* Nobody was found in the cookies; a camera request may bring the login   *)
(* of a webhook.                                                           *)
NoSession(c, r) ==
  IF r.op = "cameras" THEN {[r EXCEPT !.pc = "hook"], [r EXCEPT !.pc = "first"]}
                      ELSE {[r EXCEPT !.pc = "first"]}

(* get_session_user(): the cookie of a login that still needs its code     *)
(* counts for nothing, and a token of its own goes before the shared one.  *)
Cookies(c, r) ==
  LET ui     == jar[c].ui
      token  == IF ui.kind = "sso" THEN ui.id ELSE jar[c].shared
      needed == [r EXCEPT !.cookie = ui, !.token = token]
  IN  IF ui.kind = "otp" THEN NoSession(c, r)
      ELSE IF token # 0 THEN {[needed EXCEPT !.pc = "cache"]}
      ELSE IF sso \/ ui.kind # "local" THEN NoSession(c, r)
      ELSE {[needed EXCEPT !.pc = "row"]}

(* BOUND: only a node without SSO manages users, only one with SSO syncs.  *)
ConsoleRequest(c) ==
  /\ c \in Clients /\ On(c, "idle") /\ Pay("request")
  /\ \E op \in {"page", "cameras"} \cup (IF sso THEN {"sync"} ELSE UserOps) :
       \E r \in Cookies(c, [Rest EXCEPT !.op = op]) : Become(c, r)
  /\ UNCHANGED <<sso, local, jar, remote, cached, directory>>

(* introspect(): the cache, the call of SSO, its answer.                   *)
Hit(t) == cached[t] > 0

LookUp(c) ==
  /\ On(c, "cache")
  /\ LET t == call[c].token
     IN  Become(c, [call[c] EXCEPT !.pc = IF Hit(t) THEN "open" ELSE "asking",
                                   !.late = session[t].state = "ended" /\ session[t].age >= TTL])
  /\ UNCHANGED <<sso, local, jar, remote, cached, directory, quota>>

(* SSO does not know the token, does not open this module to the account,  *)
(* or does not answer (503).                                               *)
Answer(c) ==
  /\ On(c, "asking")
  /\ \/ session[call[c].token].state = "live" /\ Step(c, "answered")
     \/ \E r \in NoSession(c, call[c]) : Become(c, r)
  /\ UNCHANGED <<sso, local, jar, remote, cached, directory, quota>>

Receive(c) ==
  /\ On(c, "answered")
  /\ LET t     == call[c].token
         added == [cached EXCEPT ![t] = TTL]
     IN  cached' = IF Cardinality({u \in Tokens : added[u] > 0}) > CacheMax
                   THEN [u \in Tokens |-> IF u = t THEN TTL ELSE 0] ELSE added
  /\ Step(c, "open")
  /\ UNCHANGED <<sso, local, jar, remote, directory, quota>>

(* organization_open(): an account without an organization is let in.      *)
Opened(t) == OrgOf[t] \subseteq active

CheckOrganization(c) ==
  /\ On(c, "open")
  /\ IF Opened(call[c].token) THEN Admit(c, "token")
     ELSE \E r \in NoSession(c, call[c]) : Become(c, r)
  /\ UNCHANGED <<sso, local, jar, remote, cached, directory, quota>>

(* The cookie of a local login is a digest of the id and the password hash.*)
Matches(u, cookie) == u.id = cookie.id /\ u.pass = cookie.pass

ReadUser(c) ==
  /\ On(c, "row")
  /\ LET cookie == call[c].cookie
     IN  IF \E u \in users : Matches(u, cookie)
         THEN Become(c, [call[c] EXCEPT !.pc = "act", !.by = "cookie", !.user = cookie.id])
         ELSE \E r \in NoSession(c, call[c]) : Become(c, r)
  /\ UNCHANGED <<sso, local, jar, remote, cached, directory, quota>>

CheckWebhook(c) ==
  /\ On(c, "hook")
  /\ (Admit(c, "hook") \/ Finish(c))
  /\ UNCHANGED <<sso, local, jar, remote, cached, directory, quota>>

(* Before the first user there is nobody to log in: the API is open.       *)
CheckFirstBoot(c) ==
  /\ On(c, "first")
  /\ IF ~sso /\ users = {} THEN Admit(c, "nobody") ELSE Finish(c)
  /\ UNCHANGED <<sso, local, jar, remote, cached, directory, quota>>

-----------------------------------------------------------------------------
(* What an admitted request does.                                          *)

Show(c) ==
  /\ On(c, "act") /\ call[c].op \in {"page", "cameras"}
  /\ Finish(c)
  /\ UNCHANGED <<sso, local, jar, remote, cached, directory, quota>>

(* create_user(): the email is unique.                                     *)
CreatedTwice(email) ==  (* mutant *)
  /\ users' = users \cup {[id |-> serial + 1, email |-> email, pass |-> serial + 1]}
  /\ serial' = serial + 1
Created(email) ==
  /\ \A u \in users : u.email # email
  /\ users' = users \cup {[id |-> serial + 1, email |-> email, pass |-> serial + 1]}
  /\ serial' = serial + 1

PostUser(c) ==
  /\ On(c, "act") /\ call[c].op = "add"
  /\ \E email \in Emails : Created(email) \/ UNCHANGED <<users, serial>>
  /\ Finish(c)
  /\ UNCHANGED <<sso, removals, emptied, jar, remote, cached, directory, quota>>

(* update_user(): a password, if one is given, has a new hash.             *)
PutUser(c) ==
  /\ On(c, "act") /\ call[c].op = "change"
  /\ \/ \E u \in users, email \in Emails, pass \in {serial, serial + 1} :
          /\ \A v \in users \ {u} : v.email # email
          /\ users' = (users \ {u}) \cup {[u EXCEPT !.email = email,
                                                   !.pass = IF pass = serial THEN @ ELSE pass]}
          /\ serial' = pass
     \/ UNCHANGED <<users, serial>>
  /\ Finish(c)
  /\ UNCHANGED <<sso, removals, emptied, jar, remote, cached, directory, quota>>

(* remove_user(): the current user stays, and so does the last one, by a   *)
(* count in a transaction of its own.                                      *)
CountIfAny(n) == n >= 1  (* mutant *)
Enough(n) == n > 1

CountUsers(c) ==
  /\ On(c, "act") /\ call[c].op = "remove"
  /\ IF Enough(Cardinality(users))
     THEN Become(c, [call[c] EXCEPT !.pc = "delete", !.looked = removals])
     ELSE Finish(c)
  /\ UNCHANGED <<sso, local, jar, remote, cached, directory, quota>>

DeleteUser(c) ==
  /\ On(c, "delete")
  /\ \/ \E u \in users :
          /\ u.id # call[c].user
          /\ users' = users \ {u} /\ removals' = removals + 1
          /\ Emptied(IF call[c].looked = removals THEN "alone" ELSE "together")
     \/ UNCHANGED <<users, removals, emptied>>
  /\ Finish(c)
  /\ UNCHANGED <<sso, serial, jar, remote, cached, directory, quota>>

(* `users delete` of the CLI takes the last user too.                      *)
CliDelete ==
  /\ Pay("outside")
  /\ \E u \in users : users' = users \ {u}
  /\ removals' = removals + 1 /\ Emptied("cli")
  /\ UNCHANGED <<sso, serial, jar, call, remote, cached, directory>>

CliAdd ==
  /\ ~sso /\ Pay("outside")
  /\ \E email \in Emails : Created(email)
  /\ UNCHANGED <<sso, removals, emptied, jar, call, remote, cached, directory>>

-----------------------------------------------------------------------------
(* Login and logout.                                                       *)

BeginLogin(c) ==
  /\ c \in Clients /\ On(c, "idle") /\ Pay("request")
  /\ \E op \in IF sso THEN {"login", "callback"} ELSE {"login"} :
       Become(c, [Rest EXCEPT !.op = op, !.pc = IF sso THEN "sso" ELSE "users"])
  /\ UNCHANGED <<sso, local, jar, remote, cached, directory>>

BeginCode(c) ==
  /\ c \in Clients /\ On(c, "idle") /\ jar[c].ui.kind = "otp" /\ Pay("request")
  /\ Become(c, [Rest EXCEPT !.op = "otp", !.pc = "sso", !.token = jar[c].ui.id])
  /\ UNCHANGED <<sso, local, jar, remote, cached, directory>>

(* auth_logout() takes the cookies; the session of SSO goes on.            *)
Logout(c) ==
  /\ c \in Clients /\ On(c, "idle") /\ jar[c] # NoJar /\ Pay("request")
  /\ jar' = [jar EXCEPT ![c] = NoJar]
  /\ UNCHANGED <<sso, local, call, remote, cached, directory>>

HasUsers(c) ==
  /\ On(c, "users")
  /\ Step(c, IF users = {} THEN "create" ELSE "verify")
  /\ UNCHANGED <<sso, local, jar, remote, cached, directory, quota>>

CreateFirst(c) ==
  /\ On(c, "create")
  /\ \E email \in Emails :
       \/ Created(email) /\ Give(c, Cookie("local", serial + 1, serial + 1))
       \/ UNCHANGED <<users, serial, jar>>
  /\ Finish(c)
  /\ UNCHANGED <<sso, removals, emptied, remote, cached, directory, quota>>

Verify(c) ==
  /\ On(c, "verify")
  /\ \/ \E u \in users : Give(c, Cookie("local", u.id, u.pass))
     \/ UNCHANGED jar
  /\ Finish(c)
  /\ UNCHANGED <<sso, local, remote, cached, directory, quota>>

(* SSO refuses, opens a session, hands over one that is open, or asks for  *)
(* a code first.                                                           *)
SsoReplies(c) ==
  /\ On(c, "sso")
  /\ \/ Finish(c) /\ UNCHANGED session
     \/ \E t \in Tokens :
          /\ session[t].state = IF call[c].op = "otp" \/ call[c].op = "login" THEN "new" ELSE "live"
          /\ call[c].op = "otp" => t = call[c].token
          /\ \/ /\ session' = [session EXCEPT ![t].state = "live"]
                /\ Become(c, [call[c] EXCEPT !.pc = "member", !.token = t])
             \/ /\ call[c].op = "login"
                /\ Become(c, [call[c] EXCEPT !.pc = "member", !.token = t, !.by = "code"])
                /\ UNCHANGED session
  /\ UNCHANGED <<sso, local, jar, cached, raced, billing, directory, quota>>

CheckMember(c) ==
  /\ On(c, "member")
  /\ LET t == call[c].token
     IN  IF ~Opened(t) THEN UNCHANGED jar
         ELSE IF call[c].by = "code" THEN Give(c, Cookie("otp", t, 0)) ELSE GiveToken(c, t)
  /\ Finish(c)
  /\ UNCHANGED <<sso, local, remote, cached, directory, quota>>

(* Outside: another site of Nexus logs the browser in; a session ends or   *)
(* loses the module; billing changes its list.                             *)
LoginElsewhere(c, t) ==
  /\ sso /\ c \in Clients /\ session[t].state = "new" /\ Pay("outside")
  /\ session' = [session EXCEPT ![t].state = "live"]
  /\ jar' = [jar EXCEPT ![c].shared = t]
  /\ UNCHANGED <<sso, local, call, cached, raced, billing, directory>>

EndSession(t) ==
  /\ session[t].state = "live" /\ Pay("outside")
  /\ session' = [session EXCEPT ![t].state = "ended"]
  /\ raced' = [raced EXCEPT ![t] = \E c \in Clients : On(c, "answered") /\ call[c].token = t]
  /\ UNCHANGED <<sso, local, jar, call, cached, billing, directory>>

BillingChanges ==
  /\ sso /\ Pay("outside")
  /\ \E listed \in SUBSET Orgs : \E open \in SUBSET listed :
       billing' = [edition |-> billing.edition + 1, listed |-> listed, open |-> open]
  /\ UNCHANGED <<sso, local, jar, call, session, raced, cached, directory>>

Tick ==
  /\ \E t \in Tokens : cached[t] > 0 \/ (session[t].state = "ended" /\ session[t].age < TTL)
  /\ cached' = [t \in Tokens |-> IF cached[t] > 0 THEN cached[t] - 1 ELSE 0]
  /\ session' = [t \in Tokens |-> IF session[t].state = "ended" /\ session[t].age < TTL
                                  THEN [session[t] EXCEPT !.age = @ + 1] ELSE session[t]]
  /\ UNCHANGED <<sso, local, jar, call, raced, billing, directory, quota>>

-----------------------------------------------------------------------------
(* sync_organizations().                                                   *)

WatchWakes ==
  /\ sso /\ On(Watch, "idle") /\ Pay("outside")
  /\ Become(Watch, [Rest EXCEPT !.pc = "act", !.op = "sync"])
  /\ UNCHANGED <<sso, local, jar, remote, cached, directory>>

(* Billing lists the organizations, refuses the key (401, 403), which      *)
(* closes all of them, or does not answer.                                 *)
AskBilling(c) ==
  /\ On(c, "act") /\ call[c].op = "sync"
  /\ \/ Finish(c)
     \/ \E refused \in BOOLEAN :
          LET r == [call[c] EXCEPT !.pc = "apply", !.edition = billing.edition,
                                   !.listed = IF refused THEN {} ELSE billing.listed,
                                   !.open = IF refused THEN {} ELSE billing.open]
              others == {d \in Callers \ {c} : On(d, "apply")}
          IN  call' = [d \in Callers |-> IF d = c THEN [r EXCEPT !.alone = others = {}]
                                         ELSE IF d \in others THEN [call[d] EXCEPT !.alone = FALSE]
                                         ELSE call[d]]
  /\ UNCHANGED <<sso, local, jar, remote, cached, directory, quota>>

(* An organization that billing does not list is closed.                   *)
KeepsUnlisted(r) == (active \ r.listed) \cup r.open  (* mutant *)
Directory(r) == {o \in r.listed : o \in r.open}

Apply(c) ==
  /\ On(c, "apply")
  /\ active' = Directory(call[c])
  /\ heard' = IF call[c].edition >= heard.edition
              THEN [edition |-> call[c].edition, open |-> call[c].open, tangled |-> FALSE]
              ELSE [heard EXCEPT !.tangled = ~call[c].alone]
  /\ Finish(c)
  /\ UNCHANGED <<sso, local, jar, remote, cached, quota>>

ConsoleNext ==
  \/ \E c \in Callers :
       \/ ConsoleRequest(c) \/ LookUp(c) \/ Answer(c) \/ Receive(c) \/ CheckOrganization(c)
       \/ ReadUser(c) \/ CheckWebhook(c) \/ CheckFirstBoot(c)
       \/ Show(c) \/ PostUser(c) \/ PutUser(c) \/ CountUsers(c) \/ DeleteUser(c)
       \/ BeginLogin(c) \/ BeginCode(c) \/ Logout(c) \/ HasUsers(c) \/ CreateFirst(c)
       \/ Verify(c) \/ SsoReplies(c) \/ CheckMember(c)
       \/ AskBilling(c) \/ Apply(c)
       \/ \E t \in Tokens : LoginElsewhere(c, t)
  \/ \E t \in Tokens : EndSession(t)
  \/ CliAdd \/ CliDelete \/ BillingChanges \/ Tick \/ WatchWakes

ConsoleSpec == ConsoleInit /\ [][ConsoleNext]_consoleVars

-----------------------------------------------------------------------------
AnyCookie == [kind: Kinds, id: Nat, pass: Nat]

(* Types.                                                                  *)
ConsoleTypeOK ==
  /\ sso \in BOOLEAN
  /\ \A u \in users : u \in [id: Nat, email: Emails, pass: Nat]
  /\ \A u, v \in users : (u.email = v.email \/ u.id = v.id) => u = v
  /\ serial \in Nat /\ removals \in Nat
  /\ emptied \in {"never", "fresh", "alone", "together", "cli"}
  /\ jar \in [Clients -> [ui: AnyCookie, shared: Tokens \cup {0}]]
  /\ call \in [Callers -> [pc: ConsolePcs, op: ConsoleOps, token: Tokens \cup {0}, cookie: AnyCookie, user: Nat,
                           by: {"none", "token", "cookie", "hook", "nobody", "code"},
                           late: BOOLEAN, looked: Nat, edition: Nat, listed: SUBSET Orgs,
                           open: SUBSET Orgs, alone: BOOLEAN]]
  /\ session \in [Tokens -> [state: {"new", "live", "ended"}, age: 0..TTL]]
  /\ cached \in [Tokens -> 0..TTL] /\ raced \in [Tokens -> BOOLEAN]
  /\ billing \in [edition: Nat, listed: SUBSET Orgs, open: SUBSET Orgs]
  /\ active \subseteq Orgs
  /\ heard \in [edition: Nat, open: SUBSET Orgs, tangled: BOOLEAN]
  /\ quota \in [{"request", "outside"} -> Nat]

(* A request is admitted in the name of somebody who may still come in.    *)
(* A session that ended at SSO is refused when the time of the cache       *)
(* (_CACHE_TTL) has passed, unless an answer about it was on its way when  *)
(* it ended: the entry lives from the arrival of the answer.  An           *)
(* organization that is closed in the newest answer applied from billing   *)
(* is shut out at once, unless overlapping syncs applied an older one      *)
(* last.  A changed password or a removed user ends every cookie of them.  *)
AdmittedMayEnter ==
  [][ \A c \in Clients :
        ~On(c, "act") /\ call'[c].pc = "act" =>
          LET r == call'[c]
          IN  /\ r.by = "token" => /\ r.late => raced[r.token]
                                   /\ OrgOf[r.token] \subseteq heard.open \/ heard.tangled
              /\ r.by = "cookie" => \E u \in users : u.id = r.cookie.id /\ u.pass = r.cookie.pass
    ]_consoleVars

(* Once the node has had a user nobody is admitted without a session,      *)
(* unless two users were removed at the same time, or the CLI took the     *)
(* last one: remove_user() counts the users in a transaction of its own.   *)
OpenOnlyAtFirstBoot ==
  \A c \in Clients :
    On(c, "act") /\ call[c].by = "nobody" /\ emptied # "fresh" => emptied \in {"together", "cli"}
=============================================================================
