------------------------------- MODULE SignIn -------------------------------
(***************************************************************************)
(* The browser login of oidcutils.contrib.fastapi: create_auth_router's    *)
(* /login and /callback, session_principal, and the provider behind them   *)
(* (create_dev_router with dev.issue_code and dev.redeem_code, or that of  *)
(* examples/combined.py), in an application of one or more workers behind  *)
(* a balancer.  A browser may send its callback again at any time; workers *)
(* restart; codes expire.  A state, a code and a session id are random, so *)
(* each is known by its login.                                             *)
(***************************************************************************)
EXTENDS Integers

CONSTANTS Login,          \* the logins browsers go through, each with its own cookie jar
          Request,        \* the callback requests that may be under way together
          Worker,         \* the processes of the application
          Outside,        \* where what the workers share is kept
          Deployment,     \* how the application may be deployed
          CodeLifetime,   \* dev.CODE_LIFETIME
          TokenLifetime,  \* dev.DEFAULT_LIFETIME
          Margin,         \* TokenManager's refresh_margin_seconds
          MaxTime,        \* bound on the clock
          None

(* The provider: the dev router mounted in each worker, one elsewhere, be  *)
(* it a dev router or a real one, or the example's, a host of every worker *)
(* reached through the balancer.  The TokenStore: one per worker in        *)
(* memory, or a shared one.                                                *)
Deployments == [provider : {"mounted", "elsewhere", "combined"}, shared : BOOLEAN]

ASSUME SignInAssumption ==
    /\ Outside \notin Worker /\ None \notin Worker \cup Login
    /\ Deployment \subseteq Deployments
    /\ CodeLifetime \in Nat /\ TokenLifetime \in Nat /\ Margin \in Nat /\ MaxTime \in Nat
    /\ None \notin Int

Place == Worker \cup {Outside}

VARIABLES deployment,
          pending,   \* pending[w]: the keys of w's _pending_states
          codes,     \* codes[p][l]: until when the code of login l is good, or None
          sessions,  \* sessions[p][l]: when the session's access token expires, or None
          browser,   \* browser[l]: how far the browser is
          began,     \* began[l]: the worker that served /login, or None
          cookie,    \* cookie[l]: the worker that handed out the session cookie, or None
          pc, login, worker,   \* the callback requests
          now,       \* the clock
          refused,   \* history: the workers that answered l's callback 400
          visited,   \* history: what a protected route last answered l's browser
          presented, \* history: how often a code was sent to the token endpoint
          spent,     \* history: logins whose state a callback has popped
          late,      \* history: logins whose code expired with its provider
          restarted  \* history: workers that lost their memory

client == <<deployment, browser, began>>
handling == <<pc, login, worker>>
vars == <<deployment, pending, codes, sessions, browser, began, cookie, pc, login, worker,
          now, refused, visited, presented, spent, late, restarted>>

Nothing == [l \in Login |-> None]
Expiry == [Login -> Nat \cup {None}]

Init ==
    /\ deployment \in Deployment
    /\ pending = [w \in Worker |-> {}]
    /\ codes = [p \in Place |-> Nothing] /\ sessions = [p \in Place |-> Nothing]
    /\ browser = [l \in Login |-> "away"] /\ began = Nothing /\ cookie = Nothing
    /\ pc = [r \in Request |-> "idle"]
    /\ login = [r \in Request |-> None] /\ worker = [r \in Request |-> None]
    /\ now = 0
    /\ refused = [l \in Login |-> {}] /\ visited = Nothing
    /\ presented = [l \in Login |-> 0] /\ spent = {} /\ late = {} /\ restarted = {}

StoreHome(w) == IF deployment.shared THEN Outside ELSE w

(* Where the provider that worker w, or a browser that w would serve,      *)
(* reaches may keep its codes.                                             *)
CodeHome(w) == CASE deployment.provider = "mounted"   -> {w}
                 [] deployment.provider = "elsewhere" -> {Outside}
                 [] deployment.provider = "combined"  -> Worker

(* What the handlers of some callbacks knew goes with them.                *)
Over(gone) ==
    /\ pc' = [r \in Request |-> IF r \in gone THEN "idle" ELSE pc[r]]
    /\ login' = [r \in Request |-> IF r \in gone THEN None ELSE login[r]]
    /\ worker' = [r \in Request |-> IF r \in gone THEN None ELSE worker[r]]

-----------------------------------------------------------------------------
(* Bug: one slot for the state instead of one per login.                   *)
LoginStartsOneSlot(l, w) ==
    /\ browser[l] = "away"
    /\ pending' = [pending EXCEPT ![w] = {l}]
    /\ browser' = [browser EXCEPT ![l] = "authorize"]
    /\ began' = [began EXCEPT ![l] = w]
    /\ UNCHANGED <<deployment, codes, sessions, cookie, handling, now, refused, visited,
                   presented, spent, late, restarted>>

(* GET /login                                                              *)
LoginStarts(l, w) ==
    /\ browser[l] = "away"
    /\ pending' = [pending EXCEPT ![w] = @ \cup {l}]
    /\ browser' = [browser EXCEPT ![l] = "authorize"]
    /\ began' = [began EXCEPT ![l] = w]
    /\ UNCHANGED <<deployment, codes, sessions, cookie, handling, now, refused, visited,
                   presented, spent, late, restarted>>

(* issue_code, and the example's codes, which never expire.                *)
IssuedCode == now + CodeLifetime
ExampleCode == MaxTime

(* GET /dev/authorize with the persona somebody picked, or the example's   *)
(* /authorize, which asks nothing.                                         *)
Authorize(l, w) ==
    /\ browser[l] = "authorize"
    /\ \E p \in CodeHome(w) :
         codes' = [codes EXCEPT ![p][l] =
                     IF deployment.provider = "combined" THEN ExampleCode ELSE IssuedCode]
    /\ browser' = [browser EXCEPT ![l] = "returning"]
    /\ UNCHANGED <<deployment, pending, sessions, cookie, began, handling, now, refused,
                   visited, presented, spent, late, restarted>>

(* Bug: the state is checked here and popped once the code was exchanged.  *)
CallbackPopsLate(r, l, w) ==
    /\ pc[r] = "idle" /\ browser[l] = "returning" /\ l \in pending[w]
    /\ pc' = [pc EXCEPT ![r] = "exchanging"]
    /\ login' = [login EXCEPT ![r] = l]
    /\ worker' = [worker EXCEPT ![r] = w]
    /\ spent' = spent \cup {l}
    /\ UNCHANGED <<client, pending, codes, sessions, cookie, now, refused, visited,
                   presented, late, restarted>>

(* GET /callback: a state this worker does not have is refused ...         *)
CallbackRefused(l, w) ==
    /\ browser[l] = "returning" /\ l \notin pending[w]
    /\ refused' = [refused EXCEPT ![l] = @ \cup {w}]
    /\ UNCHANGED <<client, pending, codes, sessions, cookie, handling, now, visited,
                   presented, spent, late, restarted>>

(* ... and one it has is popped, without an await in between.              *)
Callback(r, l, w) ==
    /\ pc[r] = "idle" /\ browser[l] = "returning" /\ l \in pending[w]
    /\ pending' = [pending EXCEPT ![w] = @ \ {l}]
    /\ spent' = spent \cup {l}
    /\ pc' = [pc EXCEPT ![r] = "exchanging"]
    /\ login' = [login EXCEPT ![r] = l]
    /\ worker' = [worker EXCEPT ![r] = w]
    /\ UNCHANGED <<client, codes, sessions, cookie, now, refused, visited, presented,
                   late, restarted>>

(* Bug: no one looks at the clock.                                         *)
RedeemableForever(code) == code # None

(* redeem_code, or the example's look into _pending_codes.                 *)
Redeemable(code) == code # None /\ now <= code

(* POST /dev/token, or the example's /token: whatever is said of the code, *)
(* it is gone.  A refusal raises GrantError in exchange_code: a 500.       *)
Redeem(r) ==
    /\ pc[r] = "exchanging"
    /\ \E p \in CodeHome(worker[r]) :
         /\ codes' = [codes EXCEPT ![p][login[r]] = None]
         /\ IF Redeemable(codes[p][login[r]])
            THEN pc' = [pc EXCEPT ![r] = "granted"] /\ UNCHANGED <<login, worker>>
            ELSE Over({r})
    /\ presented' = [presented EXCEPT ![login[r]] = @ + 1]
    /\ UNCHANGED <<client, pending, sessions, cookie, now, refused, visited, spent, late,
                   restarted>>

(* Before the provider's step or after it: an httpx error.  Before the     *)
(* store's or after it: an error of store.set, whose answer may be lost.   *)
(* After that: the response is, and the session stays where it is.         *)
CallbackFails(r) ==
    /\ pc[r] # "idle"
    /\ Over({r})
    /\ UNCHANGED <<client, pending, codes, sessions, cookie, now, refused, visited, presented,
                   spent, late, restarted>>

(* store_token under a new id: the store has the session from here on.     *)
SessionStored(r) ==
    /\ pc[r] = "granted"
    /\ sessions' = [sessions EXCEPT ![StoreHome(worker[r])][login[r]] = now + TokenLifetime]
    /\ pc' = [pc EXCEPT ![r] = "stored"]
    /\ UNCHANGED <<client, pending, codes, cookie, login, worker, now, refused, visited,
                   presented, spent, late, restarted>>

(* Bug: store_token is called and not awaited.                             *)
CookieSetUnawaited(r) ==
    /\ pc[r] \in {"granted", "stored"}
    /\ cookie' = [cookie EXCEPT ![login[r]] = worker[r]]
    /\ Over({r})
    /\ UNCHANGED <<client, pending, codes, sessions, now, refused, visited, presented, spent,
                   late, restarted>>

(* The redirect arrives at the browser, and the session's cookie with it.  *)
CookieSet(r) ==
    /\ pc[r] = "stored"
    /\ cookie' = [cookie EXCEPT ![login[r]] = worker[r]]
    /\ Over({r})
    /\ UNCHANGED <<client, pending, codes, sessions, now, refused, visited, presented, spent,
                   late, restarted>>

(* TokenManager._needs_refresh: every provider here hands out a refresh    *)
(* token and a lifetime.                                                   *)
NearExpiry(expiresAt) == now >= expiresAt - Margin

Answered(l, status) ==
    /\ visited' = [visited EXCEPT ![l] = status]
    /\ UNCHANGED <<client, pending, codes, cookie, handling, now, refused, presented, spent,
                   late, restarted>>

(* A protected route with the session's cookie: session_principal.  The    *)
(* example never binds it, and answers whoever sends no bearer token 401.  *)
Visit(l, w) ==
    LET expiresAt == sessions[StoreHome(w)][l] IN
    /\ cookie[l] # None
    /\ deployment.provider # "combined" /\ expiresAt # None => ~NearExpiry(expiresAt)
    /\ Answered(l, IF deployment.provider = "combined" \/ expiresAt = None THEN 401 ELSE 200)
    /\ UNCHANGED sessions

Refreshing(l, p) == cookie[l] # None /\ sessions[p][l] # None /\ NearExpiry(sessions[p][l])

(* The same with a refresh that the provider grants.                       *)
VisitRefreshed(l, w) ==
    LET p == StoreHome(w) IN
    /\ Refreshing(l, p)
    /\ deployment.provider = "elsewhere"
    /\ sessions' = [sessions EXCEPT ![p][l] = now + TokenLifetime]
    /\ Answered(l, 200)

(* The dev router hands out a refresh token (dev.py:149) and refuses every *)
(* refresh (fastapi.py:453-456), which raises GrantError.                  *)
VisitRefused(l, w) ==
    /\ Refreshing(l, StoreHome(w))
    /\ deployment.provider # "combined"
    /\ Answered(l, 500)
    /\ UNCHANGED sessions

-----------------------------------------------------------------------------
(* A worker restarts: what it kept in memory is gone, and so are the       *)
(* callbacks it was serving.                                               *)
Restart(w) ==
    /\ restarted' = restarted \cup {w}
    /\ pending' = [pending EXCEPT ![w] = {}]
    /\ codes' = [codes EXCEPT ![w] = Nothing]
    /\ sessions' = [sessions EXCEPT ![w] = Nothing]
    /\ Over({r \in Request : worker[r] = w})
    /\ UNCHANGED <<client, cookie, now, refused, visited, presented, spent, late>>

Tick ==
    /\ now < MaxTime
    /\ now' = now + 1
    /\ late' = late \cup {l \in Login : \E p \in Place : codes[p][l] = now}
    /\ UNCHANGED <<client, pending, codes, sessions, cookie, handling, refused, visited,
                   presented, spent, restarted>>

Progress(r) == Redeem(r) \/ SessionStored(r) \/ CookieSet(r) \/ CallbackFails(r)

Next ==
    \/ \E l \in Login, w \in Worker :
         \/ LoginStarts(l, w) \/ Authorize(l, w) \/ CallbackRefused(l, w)
         \/ Visit(l, w) \/ VisitRefreshed(l, w) \/ VisitRefused(l, w)
         \/ \E r \in Request : Callback(r, l, w)
    \/ \E r \in Request : Progress(r)
    \/ \E w \in Worker : Restart(w)
    \/ Tick

Spec == Init /\ [][Next]_vars
-----------------------------------------------------------------------------
(* Every variable has its type, and a login waits for at most one callback:*)
(* it is pending in the worker that served it alone, and never while a     *)
(* callback of its own is under way.                                       *)
TypeOK ==
    /\ deployment \in Deployment
    /\ pending \in [Worker -> SUBSET Login]
    /\ codes \in [Place -> Expiry] /\ sessions \in [Place -> Expiry]
    /\ browser \in [Login -> {"away", "authorize", "returning"}]
    /\ began \in [Login -> Worker \cup {None}] /\ cookie \in [Login -> Worker \cup {None}]
    /\ pc \in [Request -> {"idle", "exchanging", "granted", "stored"}]
    /\ login \in [Request -> Login \cup {None}] /\ worker \in [Request -> Worker \cup {None}]
    /\ \A r \in Request : pc[r] # "idle" => login[r] \in Login /\ worker[r] \in Worker
    /\ now \in 0..MaxTime
    /\ refused \in [Login -> SUBSET Worker]
    /\ visited \in [Login -> {200, 401, 500, None}]
    /\ presented \in [Login -> Nat]
    /\ spent \in SUBSET Login /\ late \in SUBSET Login /\ restarted \in SUBSET Worker
    /\ \A w \in Worker : \A l \in pending[w] : w = began[l] /\ l \notin spent

(* However often a browser sends its callback, and whichever requests      *)
(* overlap, its code reaches the token endpoint once: "a real provider     *)
(* treats a second presentation as theft" (dev.py:217).                    *)
CodePresentedOnce == \A l \in Login : presented[l] <= 1

(* A session cookie names a session that every worker can find that shares *)
(* its store with the worker that handed the cookie out, until that store  *)
(* is lost: README.md:259-261's "pass a TokenManager backed by your own    *)
(* store for anything beyond a single process".                            *)
CookieHasSession ==
    \A l \in Login, w \in Worker :
        /\ cookie[l] # None
        /\ StoreHome(w) = StoreHome(cookie[l]) /\ StoreHome(w) \notin restarted
        => sessions[StoreHome(w)][l] # None

(* A callback is answered "Invalid or expired state" only if the state was *)
(* used before, or by a worker that did not issue it, or after the worker  *)
(* that did restarted.  The second of these is what a shared store does    *)
(* not mend, whatever README.md:259-261 says of it.                        *)
StateRefusedOnlyIfSpent ==
    \A l \in Login : \A w \in refused[l] :
        l \in spent \/ w # began[l] \/ w \in restarted

(* Each login goes through its steps in order and once, as in module       *)
(* BrowserLogin, however its callbacks repeat and overlap.                 *)
Serving(l, at) == \E r \in Request : pc[r] = at /\ login[r] = l

Stage(l) == IF l \notin spent            THEN browser[l]
            ELSE IF cookie[l] # None     THEN "signedIn"
            ELSE IF Serving(l, "exchanging") THEN "exchanging"
            ELSE IF Serving(l, "granted")    THEN "granted"
            ELSE IF Serving(l, "stored")     THEN "stored" ELSE "ended"

Held == {l \in Login : \E p \in Place : sessions[p][l] # None}

(* A code is good once, and not for long: a login that the provider granted *)
(* had a code that was still good, and left none anywhere (redeem_code's   *)
(* "single use", dev.py:217).                                              *)
Granted == Held \cup {l \in Login : \/ Serving(l, "granted") \/ Serving(l, "stored")
                                    \/ cookie[l] # None}

CodeUsedUp == \A l \in Granted : l \notin late /\ \A p \in Place : codes[p][l] = None

Once == INSTANCE BrowserLogin WITH stage <- [l \in Login |-> Stage(l)], held <- Held
ImplementsBrowserLogin == Once!Spec

(* fastapi.py:345-348: a session that cannot be continued means "sign in   *)
(* again" to its browser, a 401 and not a server fault.                    *)
StaleSessionAsks401 == \A l \in Login : visited[l] # 500
=============================================================================
