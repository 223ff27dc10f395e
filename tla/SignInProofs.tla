---------------------------- MODULE SignInProofs ----------------------------
(***************************************************************************)
(* Why the browser login of SignIn is right for any number of logins,      *)
(* workers and overlapping requests, any deployment and any lifetimes.     *)
(***************************************************************************)
EXTENDS SignIn, TLAPS

USE SignInAssumption

LEMMA HomeIsPlace ==
    ASSUME NEW w \in Worker, deployment \in Deployment
    PROVE  StoreHome(w) \in Place /\ CodeHome(w) \subseteq Place
BY DEF StoreHome, CodeHome, Place, Deployments

(* A login that no browser has begun has left no trace, which is why it    *)
(* becomes pending at one worker only, and never after its state was spent.*)
TypeInv ==
    /\ TypeOK
    /\ \A l \in Login : browser[l] = "away" => began[l] = None /\ l \notin spent

LEMMA TypeInit == Init => TypeInv
BY DEF Init, TypeInv, TypeOK, Nothing, Expiry, Place

LEMMA TypeStep == TypeInv /\ [Next]_vars => TypeInv'
<1> SUFFICES ASSUME TypeInv, [Next]_vars PROVE TypeInv'
  OBVIOUS
<1> USE DEF TypeInv, TypeOK, Expiry, client, handling
<1>1. ASSUME NEW l \in Login, NEW w \in Worker, LoginStarts(l, w)
      PROVE  TypeInv'
  BY <1>1 DEF LoginStarts
<1>2. ASSUME NEW l \in Login, NEW w \in Worker, Authorize(l, w)
      PROVE  TypeInv'
  BY <1>2, HomeIsPlace DEF Authorize, IssuedCode, ExampleCode
<1>3. ASSUME NEW l \in Login, NEW w \in Worker, CallbackRefused(l, w)
      PROVE  TypeInv'
  BY <1>3 DEF CallbackRefused
<1>4. ASSUME NEW l \in Login, NEW w \in Worker, NEW r \in Request, Callback(r, l, w)
      PROVE  TypeInv'
  BY <1>4 DEF Callback
<1>5. ASSUME NEW l \in Login, NEW w \in Worker, Visit(l, w)
      PROVE  TypeInv'
  BY <1>5 DEF Visit, Answered
<1>6. ASSUME NEW l \in Login, NEW w \in Worker, VisitRefreshed(l, w)
      PROVE  TypeInv'
  BY <1>6, HomeIsPlace DEF VisitRefreshed, Answered
<1>7. ASSUME NEW l \in Login, NEW w \in Worker, VisitRefused(l, w)
      PROVE  TypeInv'
  BY <1>7 DEF VisitRefused, Answered
<1>8. ASSUME NEW r \in Request, Redeem(r)
      PROVE  TypeInv'
  <2>1. /\ login[r] \in Login /\ worker[r] \in Worker /\ CodeHome(worker[r]) \subseteq Place
        /\ UNCHANGED <<client, pending, sessions, cookie, now, refused, visited, spent, late,
                       restarted>>
        /\ presented' = [presented EXCEPT ![login[r]] = @ + 1]
    BY <1>8, HomeIsPlace DEF Redeem
  <2>2. PICK p \in CodeHome(worker[r]) :
          /\ codes' = [codes EXCEPT ![p][login[r]] = None]
          /\ \/ pc' = [pc EXCEPT ![r] = "granted"] /\ UNCHANGED <<login, worker>>
             \/ Over({r})
    BY <1>8 DEF Redeem
  <2>3. codes' \in [Place -> Expiry]
    BY <2>1, <2>2
  <2>4. /\ pc' \in [Request -> {"idle", "exchanging", "granted", "stored"}]
        /\ login' \in [Request -> Login \cup {None}]
        /\ worker' \in [Request -> Worker \cup {None}]
        /\ \A q \in Request : pc'[q] # "idle" => login'[q] \in Login /\ worker'[q] \in Worker
    BY <2>1, <2>2 DEF Over
  <2>5. presented' \in [Login -> Nat]
    BY <2>1
  <2> QED
    BY <2>1, <2>3, <2>4, <2>5
<1>9. ASSUME NEW r \in Request, CallbackFails(r) \/ CookieSet(r)
      PROVE  TypeInv'
  BY <1>9 DEF CallbackFails, CookieSet, Over
<1>10. ASSUME NEW r \in Request, SessionStored(r)
       PROVE  TypeInv'
  BY <1>10, HomeIsPlace DEF SessionStored
<1>11. ASSUME NEW w \in Worker, Restart(w)
       PROVE  TypeInv'
  BY <1>11 DEF Restart, Over, Nothing, Place
<1>12. CASE Tick
  BY <1>12 DEF Tick
<1>13. CASE UNCHANGED vars
  BY <1>13 DEF vars
<1> QED
  BY <1>1, <1>2, <1>3, <1>4, <1>5, <1>6, <1>7, <1>8, <1>9, <1>10, <1>11, <1>12, <1>13
     DEF Next, Progress

LEMMA TypeHolds == Spec => []TypeInv
BY TypeInit, TypeStep, PTL DEF Spec

(* Type correctness, and one pending state per login, whatever the number  *)
(* of workers, logins and overlapping callbacks.                           *)
THEOREM Typing == Spec => []TypeOK
<1>1. TypeInv => TypeOK
  BY DEF TypeInv
<1> QED
  BY TypeHolds, <1>1, PTL

-----------------------------------------------------------------------------
(* A code is exchanged by the one callback that popped its login's state:  *)
(* requests that exchange have different logins, all spent, whose codes    *)
(* were not presented before.                                              *)
OnceInv ==
    /\ \A l \in Login : presented[l] \in {0, 1} /\ (l \notin spent => presented[l] = 0)
    /\ \A r \in Request : pc[r] = "exchanging" => login[r] \in spent /\ presented[login[r]] = 0
    /\ \A r, q \in Request :
         r # q /\ pc[r] = "exchanging" /\ pc[q] = "exchanging" => login[r] # login[q]

LEMMA OnceInit == Init => OnceInv
BY DEF Init, OnceInv

LEMMA OnceStep == TypeInv /\ OnceInv /\ [Next]_vars => OnceInv'
<1> SUFFICES ASSUME TypeInv, OnceInv, [Next]_vars PROVE OnceInv'
  OBVIOUS
<1> USE DEF TypeInv, TypeOK, OnceInv, client, handling
<1>1. ASSUME NEW l \in Login, NEW w \in Worker, NEW r \in Request, Callback(r, l, w)
      PROVE  OnceInv'
  <2>1. l \notin spent /\ presented[l] = 0
    BY <1>1 DEF Callback
  <2>2. \A q \in Request : pc[q] = "exchanging" => login[q] # l
    BY <2>1
  <2> QED
    BY <1>1, <2>1, <2>2 DEF Callback
<1>2. ASSUME NEW r \in Request, Redeem(r)
      PROVE  OnceInv'
  <2>1. /\ pc[r] = "exchanging" /\ login[r] \in Login /\ login[r] \in spent
        /\ presented[login[r]] = 0
        /\ presented' = [presented EXCEPT ![login[r]] = @ + 1]
        /\ UNCHANGED spent
    BY <1>2 DEF Redeem
  <2>2. \A q \in Request :
          pc'[q] = "exchanging" => q # r /\ pc[q] = "exchanging" /\ login'[q] = login[q]
    BY <1>2 DEF Redeem, Over
  <2>3. presented'[login[r]] = 1
    BY <2>1
  <2>4. \A l \in Login : l # login[r] => presented'[l] = presented[l]
    BY <2>1
  <2> QED
    BY <2>1, <2>2, <2>3, <2>4
<1>3. ASSUME NEW r \in Request, CallbackFails(r) \/ SessionStored(r) \/ CookieSet(r)
      PROVE  OnceInv'
  BY <1>3 DEF CallbackFails, SessionStored, CookieSet, Over
<1>4. ASSUME NEW w \in Worker, Restart(w)
      PROVE  OnceInv'
  BY <1>4 DEF Restart, Over
<1>5. ASSUME NEW l \in Login, NEW w \in Worker,
             \/ LoginStarts(l, w) \/ Authorize(l, w) \/ CallbackRefused(l, w)
             \/ Visit(l, w) \/ VisitRefreshed(l, w) \/ VisitRefused(l, w)
      PROVE  OnceInv'
  BY <1>5 DEF LoginStarts, Authorize, CallbackRefused, Visit, VisitRefreshed, VisitRefused,
              Answered
<1>6. CASE Tick \/ UNCHANGED vars
  BY <1>6 DEF Tick, vars
<1> QED
  BY <1>1, <1>2, <1>3, <1>4, <1>5, <1>6 DEF Next, Progress

(* Whichever callbacks repeat and overlap, no code reaches the provider's  *)
(* token endpoint twice.                                                   *)
THEOREM PresentedOnce == Spec => []CodePresentedOnce
<1>1. OnceInv => CodePresentedOnce
  <2> SUFFICES ASSUME OnceInv, NEW l \in Login PROVE presented[l] <= 1
    BY DEF CodePresentedOnce
  <2>1. presented[l] = 0 \/ presented[l] = 1
    BY DEF OnceInv
  <2> QED
    BY <2>1
<1> QED
  BY TypeHolds, OnceInit, OnceStep, <1>1, PTL DEF Spec

-----------------------------------------------------------------------------
(* A refusal is final: a browser that returns finds its state at the       *)
(* worker that began its login, unless it was spent or lost.               *)
RefusedInv ==
    /\ \A l \in Login :
         /\ browser[l] = "away" => refused[l] = {}
         /\ browser[l] # "away" =>
              began[l] \in Worker
              /\ (l \in pending[began[l]] \/ l \in spent \/ began[l] \in restarted)
    /\ StateRefusedOnlyIfSpent

LEMMA RefusedInit == Init => RefusedInv
BY DEF Init, RefusedInv, StateRefusedOnlyIfSpent

LEMMA RefusedStep == TypeInv /\ RefusedInv /\ [Next]_vars => RefusedInv'
<1> SUFFICES ASSUME TypeInv, RefusedInv, [Next]_vars PROVE RefusedInv'
  OBVIOUS
<1> USE DEF TypeInv, TypeOK, RefusedInv, StateRefusedOnlyIfSpent, client, handling
<1>1. ASSUME NEW l \in Login, NEW w \in Worker, LoginStarts(l, w)
      PROVE  RefusedInv'
  BY <1>1 DEF LoginStarts
<1>2. ASSUME NEW l \in Login, NEW w \in Worker, Authorize(l, w)
      PROVE  RefusedInv'
  BY <1>2 DEF Authorize
<1>3. ASSUME NEW l \in Login, NEW w \in Worker, CallbackRefused(l, w)
      PROVE  RefusedInv'
  BY <1>3 DEF CallbackRefused
<1>4. ASSUME NEW l \in Login, NEW w \in Worker, NEW r \in Request, Callback(r, l, w)
      PROVE  RefusedInv'
  BY <1>4 DEF Callback
<1>5. ASSUME NEW l \in Login, NEW w \in Worker,
             Visit(l, w) \/ VisitRefreshed(l, w) \/ VisitRefused(l, w)
      PROVE  RefusedInv'
  BY <1>5 DEF Visit, VisitRefreshed, VisitRefused, Answered
<1>6. ASSUME NEW r \in Request, Progress(r)
      PROVE  RefusedInv'
  BY <1>6 DEF Progress, Redeem, CallbackFails, SessionStored, CookieSet
<1>7. ASSUME NEW w \in Worker, Restart(w)
      PROVE  RefusedInv'
  BY <1>7 DEF Restart
<1>8. CASE Tick \/ UNCHANGED vars
  BY <1>8 DEF Tick, vars
<1> QED
  BY <1>1, <1>2, <1>3, <1>4, <1>5, <1>6, <1>7, <1>8 DEF Next

(* The worker that began a login answers its callback 400 only once its    *)
(* state was used or the worker restarted.                                 *)
THEOREM RefusedRightly == Spec => []StateRefusedOnlyIfSpent
<1>1. RefusedInv => StateRefusedOnlyIfSpent
  BY DEF RefusedInv
<1> QED
  BY TypeHolds, RefusedInit, RefusedStep, <1>1, PTL DEF Spec

-----------------------------------------------------------------------------
(* A session is in its store before its cookie is handed out, and only a   *)
(* restart takes it away.                                                  *)
Stored(r) ==
    pc[r] = "stored" =>
      \/ StoreHome(worker[r]) \in restarted
      \/ sessions[StoreHome(worker[r])][login[r]] # None

SessionInv == CookieHasSession /\ \A r \in Request : Stored(r)

LEMMA SessionInit == Init => SessionInv
BY DEF Init, SessionInv, CookieHasSession, Stored, Nothing

SessionsKept ==
    /\ UNCHANGED deployment /\ restarted \subseteq restarted'
    /\ \A p \in Place, l \in Login :
         p \notin restarted' /\ sessions[p][l] # None => sessions'[p][l] # None

LEMMA HomeKept ==
    ASSUME TypeInv, UNCHANGED deployment, NEW w \in Worker
    PROVE  StoreHome(w) \in Place /\ StoreHome(w)' = StoreHome(w)
BY HomeIsPlace DEF StoreHome, TypeInv, TypeOK

LEMMA CookieKept ==
    ASSUME TypeInv, CookieHasSession, SessionsKept, UNCHANGED cookie
    PROVE  CookieHasSession'
BY HomeKept DEF SessionsKept, CookieHasSession, StoreHome, TypeInv, TypeOK

LEMMA StoredKept ==
    ASSUME TypeInv, SessionsKept, NEW r \in Request, Stored(r),
           pc'[r] = "stored" => pc[r] = "stored" /\ login'[r] = login[r] /\ worker'[r] = worker[r]
    PROVE  Stored(r)'
<1> SUFFICES ASSUME pc'[r] = "stored"
             PROVE  Stored(r)'
  BY DEF Stored
<1>1. /\ worker'[r] = worker[r] /\ login'[r] = login[r] /\ pc[r] = "stored"
      /\ worker[r] \in Worker /\ login[r] \in Login
  BY DEF TypeInv, TypeOK
<1>2. StoreHome(worker[r])' = StoreHome(worker[r]) /\ StoreHome(worker[r]) \in Place
  BY <1>1, HomeKept DEF SessionsKept, StoreHome
<1> HIDE DEF StoreHome
<1> QED
  BY <1>1, <1>2 DEF Stored, SessionsKept

LEMMA SessionStep == TypeInv /\ SessionInv /\ [Next]_vars => SessionInv'
<1> SUFFICES ASSUME TypeInv, SessionInv, [Next]_vars PROVE SessionInv'
  OBVIOUS
<1>1. ASSUME SessionsKept, UNCHANGED cookie,
             \A r \in Request :
               pc'[r] = "stored" =>
                 pc[r] = "stored" /\ login'[r] = login[r] /\ worker'[r] = worker[r]
      PROVE  SessionInv'
  BY <1>1, CookieKept, StoredKept DEF SessionInv
<1>2. ASSUME NEW r \in Request, SessionStored(r)
      PROVE  SessionInv'
  <2>1. /\ login[r] \in Login /\ worker[r] \in Worker
        /\ sessions' = [sessions EXCEPT ![StoreHome(worker[r])][login[r]] = now + TokenLifetime]
        /\ pc' = [pc EXCEPT ![r] = "stored"]
        /\ UNCHANGED <<deployment, cookie, login, worker, restarted>>
    BY <1>2 DEF SessionStored, client, TypeInv, TypeOK
  <2>2. /\ StoreHome(worker[r]) \in Place /\ StoreHome(worker[r])' = StoreHome(worker[r])
        /\ now + TokenLifetime # None
    BY <2>1, HomeKept DEF TypeInv, TypeOK
  <2>3. SessionsKept
    BY <2>1, <2>2 DEF SessionsKept, TypeInv, TypeOK, Expiry
  <2>4. Stored(r)'
    <3>1. sessions'[StoreHome(worker[r])][login[r]] # None
      BY <2>1, <2>2 DEF TypeInv, TypeOK, Expiry
    <3> QED
      BY <2>1, <2>2, <3>1 DEF Stored, StoreHome
  <2>5. \A q \in Request : q # r => Stored(q)'
    BY <2>1, <2>3, StoredKept DEF SessionInv, TypeInv, TypeOK
  <2> QED
    BY <2>1, <2>3, <2>4, <2>5, CookieKept DEF SessionInv
<1>3. ASSUME NEW r \in Request, CookieSet(r)
      PROVE  SessionInv'
  <2>1. /\ login[r] \in Login /\ worker[r] \in Worker /\ pc[r] = "stored"
        /\ cookie' = [cookie EXCEPT ![login[r]] = worker[r]]
        /\ UNCHANGED <<deployment, sessions, restarted>>
    BY <1>3 DEF CookieSet, client, TypeInv, TypeOK
  <2>2. SessionsKept
    BY <2>1 DEF SessionsKept
  <2>3. ASSUME NEW l \in Login, NEW w \in Worker, cookie'[l] # None,
               StoreHome(w) = StoreHome(cookie'[l]), StoreHome(w) \notin restarted
        PROVE  sessions[StoreHome(w)][l] # None
    <3>1. CASE l = login[r]
      <4>1. StoreHome(w) = StoreHome(worker[r])
        BY <2>1, <2>3, <3>1 DEF TypeInv, TypeOK
      <4>2. Stored(r)
        BY DEF SessionInv
      <4> QED
        BY <2>1, <2>3, <3>1, <4>1, <4>2 DEF Stored
    <3>2. CASE l # login[r]
      <4>1. cookie'[l] = cookie[l]
        BY <2>1, <3>2 DEF TypeInv, TypeOK
      <4> QED
        BY <2>3, <4>1 DEF SessionInv, CookieHasSession
    <3> QED
      BY <3>1, <3>2
  <2>4. CookieHasSession'
    BY <2>1, <2>3 DEF CookieHasSession, StoreHome
  <2>5. \A q \in Request : Stored(q)'
    BY <1>3, <2>2, StoredKept DEF SessionInv, CookieSet, Over
  <2> QED
    BY <2>4, <2>5 DEF SessionInv
<1>4. ASSUME NEW l \in Login, NEW w \in Worker, VisitRefreshed(l, w)
      PROVE  SessionInv'
  <2>1. now + TokenLifetime # None /\ StoreHome(w) \in Place
    BY HomeIsPlace DEF TypeInv, TypeOK
  <2>2. SessionsKept
    BY <1>4, <2>1 DEF SessionsKept, VisitRefreshed, Answered, client, TypeInv, TypeOK, Expiry
  <2> QED
    BY <1>1, <1>4, <2>2 DEF VisitRefreshed, Answered, handling
<1>5. ASSUME NEW w \in Worker, Restart(w)
      PROVE  SessionInv'
  <2>1. SessionsKept
    BY <1>5 DEF SessionsKept, Restart, client, TypeInv, TypeOK
  <2> QED
    BY <1>1, <1>5, <2>1 DEF Restart, Over
<1>6. ASSUME UNCHANGED <<deployment, cookie, sessions, restarted>>,
             \A r \in Request :
               pc'[r] = "stored" =>
                 pc[r] = "stored" /\ login'[r] = login[r] /\ worker'[r] = worker[r]
      PROVE  SessionInv'
  BY <1>1, <1>6 DEF SessionsKept
<1>7. ASSUME NEW l \in Login, NEW w \in Worker,
             \/ LoginStarts(l, w) \/ Authorize(l, w) \/ CallbackRefused(l, w)
             \/ Visit(l, w) \/ VisitRefused(l, w)
      PROVE  SessionInv'
  BY <1>6, <1>7 DEF LoginStarts, Authorize, CallbackRefused, Visit, VisitRefused, Answered,
                    client, handling
<1>8. ASSUME NEW l \in Login, NEW w \in Worker, NEW r \in Request, Callback(r, l, w)
      PROVE  SessionInv'
  BY <1>6, <1>8 DEF Callback, client, TypeInv, TypeOK
<1>9. ASSUME NEW r \in Request, Redeem(r) \/ CallbackFails(r)
      PROVE  SessionInv'
  BY <1>6, <1>9 DEF Redeem, CallbackFails, Over, client, TypeInv, TypeOK
<1>10. CASE Tick \/ UNCHANGED vars
  BY <1>6, <1>10 DEF Tick, vars, client, handling
<1> QED
  BY <1>2, <1>3, <1>4, <1>5, <1>7, <1>8, <1>9, <1>10 DEF Next, Progress

(* A cookie names a session that every worker with the same store finds.   *)
THEOREM CookieGood == Spec => []CookieHasSession
<1>1. SessionInv => CookieHasSession
  BY DEF SessionInv
<1> QED
  BY TypeHolds, SessionInit, SessionStep, <1>1, PTL DEF Spec

-----------------------------------------------------------------------------
(* Why a login goes through its steps once: the requests that serve        *)
(* callbacks are on different logins, whose state is spent and which have  *)
(* no cookie yet, and there is no session before the state is spent.       *)
FlightInv ==
    /\ \A r \in Request : pc[r] # "idle" => login[r] \in spent /\ cookie[login[r]] = None
    /\ \A r, q \in Request : r # q /\ pc[r] # "idle" /\ pc[q] # "idle" => login[r] # login[q]
    /\ \A l \in Login : l \in spent => browser[l] = "returning"
    /\ \A l \in Login : cookie[l] # None => l \in spent
    /\ \A p \in Place, l \in Login : sessions[p][l] # None => l \in spent

LEMMA FlightInit == Init => FlightInv
BY DEF Init, FlightInv, Nothing

LEMMA FlightStep == TypeInv /\ FlightInv /\ [Next]_vars => FlightInv'
<1> SUFFICES ASSUME TypeInv, FlightInv, [Next]_vars PROVE FlightInv'
  OBVIOUS
<1> USE DEF TypeInv, TypeOK, FlightInv, client, handling
<1>1. ASSUME NEW l \in Login, NEW w \in Worker, NEW r \in Request, Callback(r, l, w)
      PROVE  FlightInv'
  <2>1. l \notin spent /\ cookie[l] = None /\ browser[l] = "returning"
    BY <1>1 DEF Callback
  <2>2. \A q \in Request : pc[q] # "idle" => login[q] # l
    BY <2>1
  <2> QED
    BY <1>1, <2>1, <2>2 DEF Callback
<1>2. ASSUME NEW r \in Request, Redeem(r) \/ CallbackFails(r)
      PROVE  FlightInv'
  <2>1. /\ UNCHANGED <<client, sessions, cookie, spent>>
        /\ \A q \in Request : pc'[q] # "idle" => pc[q] # "idle" /\ login'[q] = login[q]
    BY <1>2 DEF Redeem, CallbackFails, Over
  <2> QED
    BY <2>1
<1>3. ASSUME NEW r \in Request, SessionStored(r)
      PROVE  FlightInv'
  <2>1. /\ login[r] \in spent /\ login[r] \in Login /\ worker[r] \in Worker
        /\ UNCHANGED <<deployment, browser, began, cookie, login, spent>>
        /\ \A q \in Request : pc'[q] # "idle" => pc[q] # "idle"
    BY <1>3 DEF SessionStored
  <2>2. \A p \in Place, l \in Login : sessions'[p][l] # None => l = login[r] \/ sessions[p][l] # None
    <3>1. StoreHome(worker[r]) \in Place
      BY <2>1, HomeIsPlace
    <3>2. sessions' = [sessions EXCEPT ![StoreHome(worker[r])][login[r]] = now + TokenLifetime]
      BY <1>3 DEF SessionStored
    <3> QED
      BY <2>1, <3>1, <3>2 DEF Expiry
  <2> QED
    BY <2>1, <2>2
<1>4. ASSUME NEW r \in Request, CookieSet(r)
      PROVE  FlightInv'
  <2>1. /\ login[r] \in Login /\ login[r] \in spent
        /\ cookie' = [cookie EXCEPT ![login[r]] = worker[r]]
        /\ UNCHANGED <<deployment, browser, began, sessions, spent>>
        /\ \A q \in Request :
             pc'[q] # "idle" => q # r /\ pc[q] # "idle" /\ login'[q] = login[q]
    BY <1>4 DEF CookieSet, Over
  <2>2. \A q \in Request : pc'[q] # "idle" => login[q] # login[r]
    BY <1>4, <2>1 DEF CookieSet
  <2> QED
    BY <2>1, <2>2
<1>8. ASSUME NEW w \in Worker, Restart(w)
      PROVE  FlightInv'
  <2>1. /\ UNCHANGED <<client, cookie, spent>>
        /\ \A q \in Request : pc'[q] # "idle" => pc[q] # "idle" /\ login'[q] = login[q]
        /\ sessions' = [sessions EXCEPT ![w] = Nothing]
    BY <1>8 DEF Restart, Over
  <2> QED
    BY <2>1 DEF Nothing
<1>5. ASSUME NEW l \in Login, NEW w \in Worker, VisitRefreshed(l, w)
      PROVE  FlightInv'
  <2>1. /\ l \in spent /\ UNCHANGED <<client, cookie, handling, spent>>
        /\ \A p \in Place, k \in Login : sessions'[p][k] # None => k = l \/ sessions[p][k] # None
    BY <1>5, HomeIsPlace DEF VisitRefreshed, Refreshing, Answered, Expiry
  <2> QED
    BY <2>1
<1>6. ASSUME NEW l \in Login, NEW w \in Worker,
             \/ LoginStarts(l, w) \/ Authorize(l, w) \/ CallbackRefused(l, w)
             \/ Visit(l, w) \/ VisitRefused(l, w)
      PROVE  FlightInv'
  BY <1>6 DEF LoginStarts, Authorize, CallbackRefused, Visit, VisitRefused, Answered
<1>7. CASE Tick \/ UNCHANGED vars
  BY <1>7 DEF Tick, vars
<1> QED
  BY <1>1, <1>2, <1>3, <1>4, <1>5, <1>6, <1>7, <1>8 DEF Next, Progress

(* What the map shows of a login.                                          *)
StageRight ==
    /\ \A l \in Login : l \notin spent => Stage(l) = browser[l]
    /\ \A l \in Login : cookie[l] # None => Stage(l) = "signedIn"
    /\ \A r \in Request : pc[r] # "idle" => Stage(login[r]) = pc[r]
    /\ \A l \in Login :
         /\ l \in spent /\ cookie[l] = None
         /\ \A r \in Request : pc[r] # "idle" => login[r] # l
         => Stage(l) = "ended"

LEMMA StageIs == TypeInv /\ FlightInv => StageRight
<1> SUFFICES ASSUME TypeInv, FlightInv PROVE StageRight
  OBVIOUS
<1>1. ASSUME NEW r \in Request, pc[r] # "idle"
      PROVE  Stage(login[r]) = pc[r]
  <2>1. /\ login[r] \in spent /\ cookie[login[r]] = None
        /\ pc[r] \in {"exchanging", "granted", "stored"} /\ Serving(login[r], pc[r])
    BY <1>1 DEF FlightInv, TypeInv, TypeOK, Serving
  <2>2. /\ pc[r] # "exchanging" => ~Serving(login[r], "exchanging")
        /\ pc[r] # "granted" => ~Serving(login[r], "granted")
    BY <1>1 DEF FlightInv, Serving
  <2> QED
    BY <2>1, <2>2 DEF Stage
<1>2. ASSUME NEW l \in Login, l \in spent, cookie[l] = None,
             \A r \in Request : pc[r] # "idle" => login[r] # l
      PROVE  Stage(l) = "ended"
  BY <1>2 DEF Stage, Serving
<1>3. \A l \in Login : l \notin spent => Stage(l) = browser[l]
  BY DEF Stage
<1>4. \A l \in Login : cookie[l] # None => Stage(l) = "signedIn"
  BY DEF Stage, FlightInv
<1> QED
  BY <1>1, <1>2, <1>3, <1>4 DEF StageRight

(* Logins that no part of a step is about stay where they are.             *)
LEMMA StageKept ==
    ASSUME NEW l \in Login, l \in spent' <=> l \in spent,
           browser'[l] = browser[l], cookie'[l] = cookie[l],
           \A r \in Request : pc[r] # "idle" /\ login[r] = l => pc'[r] = pc[r] /\ login'[r] = l,
           \A r \in Request : pc'[r] # "idle" /\ login'[r] = l => pc'[r] = pc[r] /\ login[r] = l
    PROVE  Stage(l)' = Stage(l)
<1>1. /\ Serving(l, "exchanging")' <=> Serving(l, "exchanging")
      /\ Serving(l, "granted")' <=> Serving(l, "granted")
      /\ Serving(l, "stored")' <=> Serving(l, "stored")
  BY DEF Serving
<1> QED
  BY <1>1 DEF Stage

LEMMA StageForward ==
    ASSUME NEW l \in Login, NEW from, NEW to, Stage(l) = from, Stage(l)' = to,
           \A k \in Login : k # l => Stage(k)' = Stage(k)
    PROVE  Once!Forward(l, from, to)
<1> DEFINE stage == [k \in Login |-> Stage(k)]
<1>1. stage[l] = from
  OBVIOUS
<1>2. stage' = [stage EXCEPT ![l] = to]
  <2>1. \A k \in Login : Stage(k)' = IF k = l THEN to ELSE Stage(k)
    OBVIOUS
  <2> HIDE DEF Stage
  <2> QED
    BY <2>1
<1> QED
  BY <1>1, <1>2 DEF Once!Forward

(* The sessions as a whole, where no step touches them.                    *)
StageOf == [l \in Login |-> Stage(l)]

LEMMA HeldKept ==
    ASSUME \A p \in Place, l \in Login : sessions'[p][l] # None <=> sessions[p][l] # None
    PROVE  Held' = Held
BY DEF Held

LEMMA LoginInit == Init => Once!Init
<1> SUFFICES ASSUME Init PROVE Once!Init
  OBVIOUS
<1>1. Held = {} /\ \A l \in Login : Stage(l) = "away"
  BY DEF Init, Stage, Held, Nothing
<1>2. [l \in Login |-> Stage(l)] = [l \in Login |-> "away"]
  BY <1>1
<1> QED
  BY <1>1, <1>2 DEF Init, Once!Init

(* Requests that fail and workers that restart end logins they were        *)
(* serving, and drop sessions.                                             *)
LEMMA LoginsLost ==
    ASSUME TypeInv, FlightInv, FlightInv', TypeInv',
           UNCHANGED <<browser, cookie, spent, presented>>,
           \A r \in Request : (pc'[r] = pc[r] /\ login'[r] = login[r]) \/ pc'[r] = "idle",
           \A p \in Place, l \in Login : sessions'[p][l] # None => sessions[p][l] # None
    PROVE  Once!Lose
<1> DEFINE ended == {l \in Login : \E r \in Request :
                        pc[r] # "idle" /\ pc'[r] = "idle" /\ login[r] = l}
<1>1. StageRight /\ StageRight'
  BY StageIs, PTL
<1>2. ASSUME NEW l \in ended
      PROVE  Stage(l)' = "ended" /\ Stage(l) \in {"exchanging", "granted", "stored"}
  <2>1. PICK r \in Request : pc[r] # "idle" /\ pc'[r] = "idle" /\ login[r] = l
    BY <1>2
  <2>2. Stage(l) = pc[r] /\ pc[r] \in {"exchanging", "granted", "stored"} /\ l \in Login
    BY <1>1, <2>1 DEF StageRight, TypeInv, TypeOK
  <2>3. l \in spent /\ cookie[l] = None
    BY <2>1 DEF FlightInv
  <2>4. \A q \in Request : pc'[q] # "idle" => login'[q] # l
    BY <2>1 DEF FlightInv
  <2>5. Stage(l)' = "ended"
    BY <1>1, <2>2, <2>3, <2>4 DEF StageRight
  <2> QED
    BY <2>2, <2>5
<1>3. ASSUME NEW l \in Login, l \notin ended
      PROVE  Stage(l)' = Stage(l)
  BY <1>3, StageKept
<1>4. Held' \in SUBSET Held
  BY DEF Held
<1>5. ended \in SUBSET {l \in Login : StageOf[l] \in {"exchanging", "granted", "stored"}}
  <2>1. \A l \in ended : l \in Login /\ StageOf[l] \in {"exchanging", "granted", "stored"}
    BY <1>2 DEF StageOf
  <2> HIDE DEF ended
  <2> QED
    BY <2>1
<1> HIDE DEF ended
<1>6. StageOf' = [l \in Login |-> IF l \in ended THEN "ended" ELSE StageOf[l]]
  <2>1. \A l \in Login : Stage(l)' = IF l \in ended THEN "ended" ELSE Stage(l)
    BY <1>2, <1>3
  <2> QED
    BY <2>1 DEF StageOf
<1> QED
  BY <1>4, <1>5, <1>6 DEF Once!Lose, StageOf

LEMMA LoginStep ==
    TypeInv /\ TypeInv' /\ FlightInv /\ FlightInv' /\ [Next]_vars => [Once!Next]_(Once!vars)
<1> SUFFICES ASSUME TypeInv, TypeInv', FlightInv, FlightInv', [Next]_vars
             PROVE  [Once!Next]_(Once!vars)
  OBVIOUS
<1>1. StageRight /\ StageRight'
  BY StageIs, PTL
<1>2. ASSUME UNCHANGED <<sessions>> PROVE Held' = Held
  BY <1>2, HeldKept
<1>3. ASSUME NEW l \in Login, NEW w \in Worker, LoginStarts(l, w)
      PROVE  Once!Begin(l)
  <2>1. /\ browser[l] = "away" /\ browser' = [browser EXCEPT ![l] = "authorize"]
        /\ UNCHANGED <<sessions, cookie, pc, login, spent, presented>>
    BY <1>3 DEF LoginStarts, handling
  <2>2. l \notin spent /\ browser'[l] = "authorize"
    BY <2>1 DEF TypeInv, TypeOK
  <2>3. Stage(l) = "away" /\ Stage(l)' = "authorize"
    BY <1>1, <2>1, <2>2 DEF StageRight
  <2>4. \A k \in Login : k # l => browser'[k] = browser[k]
    BY <2>1 DEF TypeInv, TypeOK
  <2>5. \A k \in Login : k # l => Stage(k)' = Stage(k)
    BY <2>1, <2>4, StageKept
  <2>6. Once!Forward(l, "away", "authorize")
    BY <2>3, <2>5, StageForward
  <2> QED
    BY <1>2, <2>1, <2>6 DEF Once!Begin
<1>4. ASSUME NEW l \in Login, NEW w \in Worker, Authorize(l, w)
      PROVE  Once!Return(l)
  <2>1. /\ browser[l] = "authorize" /\ browser' = [browser EXCEPT ![l] = "returning"]
        /\ UNCHANGED <<sessions, cookie, pc, login, spent, presented>>
    BY <1>4 DEF Authorize, handling
  <2>2. l \notin spent /\ browser'[l] = "returning"
    BY <2>1 DEF TypeInv, TypeOK, FlightInv
  <2>3. Stage(l) = "authorize" /\ Stage(l)' = "returning"
    BY <1>1, <2>1, <2>2 DEF StageRight
  <2>4. \A k \in Login : k # l => browser'[k] = browser[k]
    BY <2>1 DEF TypeInv, TypeOK
  <2>5. \A k \in Login : k # l => Stage(k)' = Stage(k)
    BY <2>1, <2>4, StageKept
  <2>6. Once!Forward(l, "authorize", "returning")
    BY <2>3, <2>5, StageForward
  <2> QED
    BY <1>2, <2>1, <2>6 DEF Once!Return
<1>5. ASSUME NEW l \in Login, NEW w \in Worker, NEW r \in Request, Callback(r, l, w)
      PROVE  Once!Claim(l)
  <2>1. /\ pc[r] = "idle" /\ browser[l] = "returning" /\ l \notin spent
        /\ spent' = spent \cup {l}
        /\ pc' = [pc EXCEPT ![r] = "exchanging"] /\ login' = [login EXCEPT ![r] = l]
        /\ UNCHANGED <<browser, sessions, cookie, presented>>
    BY <1>5 DEF Callback, client, TypeInv, TypeOK
  <2>2. pc'[r] = "exchanging" /\ login'[r] = l
    BY <2>1 DEF TypeInv, TypeOK
  <2>3. Stage(l) = "returning" /\ Stage(l)' = "exchanging"
    BY <1>1, <2>1, <2>2 DEF StageRight
  <2>4. \A q \in Request : q # r => pc'[q] = pc[q] /\ login'[q] = login[q]
    BY <2>1 DEF TypeInv, TypeOK
  <2>5. \A k \in Login : k # l => Stage(k)' = Stage(k)
    BY <2>1, <2>2, <2>4, StageKept
  <2>6. Once!Forward(l, "returning", "exchanging")
    BY <2>3, <2>5, StageForward
  <2> QED
    BY <1>2, <2>1, <2>6 DEF Once!Claim
<1>6. ASSUME NEW r \in Request, NEW l \in Login, l = login[r], Redeem(r)
      PROVE  Once!Exchange(l)
  <2>1. /\ pc[r] = "exchanging" /\ login[r] = l
        /\ presented' = [presented EXCEPT ![l] = @ + 1]
        /\ UNCHANGED <<browser, sessions, cookie, spent>>
    BY <1>6 DEF Redeem, client, TypeInv, TypeOK
  <2>2. /\ pc'[r] = "idle" \/ (pc'[r] = "granted" /\ login'[r] = l)
        /\ \A q \in Request : q # r => pc'[q] = pc[q] /\ login'[q] = login[q]
    BY <1>6 DEF Redeem, Over, TypeInv, TypeOK
  <2>3. /\ l \in spent /\ cookie[l] = None
        /\ \A q \in Request : q # r /\ pc[q] # "idle" => login[q] # l
    BY <2>1 DEF FlightInv
  <2>4. Stage(l) = "exchanging"
    BY <1>1, <2>1 DEF StageRight
  <2>5. Stage(l)' = "granted" \/ Stage(l)' = "ended"
    <3>1. CASE pc'[r] = "granted"
      BY <1>1, <2>2, <3>1 DEF StageRight
    <3>2. CASE pc'[r] = "idle"
      <4>1. \A q \in Request : pc'[q] # "idle" => login'[q] # l
        BY <2>1, <2>2, <2>3, <3>2
      <4> QED
        BY <1>1, <2>1, <2>3, <4>1 DEF StageRight
    <3> QED
      BY <2>2, <3>1, <3>2
  <2>6. \A k \in Login : k # l => Stage(k)' = Stage(k)
    BY <2>1, <2>2, StageKept
  <2>7. Once!Forward(l, "exchanging", "granted") \/ Once!Forward(l, "exchanging", "ended")
    BY <2>1, <2>4, <2>5, <2>6, StageForward
  <2> QED
    BY <1>2, <2>1, <2>7 DEF Once!Exchange
<1>7. ASSUME NEW r \in Request, NEW l \in Login, l = login[r], SessionStored(r)
      PROVE  Once!Store(l)
  <2>1. /\ pc[r] = "granted" /\ login[r] = l /\ worker[r] \in Worker
        /\ pc' = [pc EXCEPT ![r] = "stored"]
        /\ sessions' = [sessions EXCEPT ![StoreHome(worker[r])][l] = now + TokenLifetime]
        /\ UNCHANGED <<browser, cookie, login, spent, presented>>
    BY <1>7 DEF SessionStored, client, TypeInv, TypeOK
  <2>2. StoreHome(worker[r]) \in Place /\ now + TokenLifetime # None
    BY <2>1, HomeIsPlace DEF TypeInv, TypeOK
  <2>3. pc'[r] = "stored" /\ \A q \in Request : q # r => pc'[q] = pc[q]
    BY <2>1 DEF TypeInv, TypeOK
  <2>4. Stage(l) = "granted" /\ Stage(l)' = "stored"
    BY <1>1, <2>1, <2>3 DEF StageRight
  <2>5. \A k \in Login : k # l => Stage(k)' = Stage(k)
    BY <2>1, <2>3, StageKept
  <2>6. /\ sessions'[StoreHome(worker[r])][l] # None
        /\ \A k \in Login : k # l => \A p \in Place : sessions'[p][k] = sessions[p][k]
    BY <2>1, <2>2 DEF TypeInv, TypeOK, Expiry
  <2>7. \A k \in Login : k # l => (k \in Held' <=> k \in Held)
    BY <2>6 DEF Held
  <2>8. Held' = Held \cup {l}
    <3>1. l \in Held'
      BY <2>1, <2>2, <2>6 DEF Held
    <3> QED
      BY <2>7, <3>1 DEF Held
  <2>9. Once!Forward(l, "granted", "stored")
    BY <2>1, <2>4, <2>5, StageForward
  <2> QED
    BY <2>1, <2>8, <2>9 DEF Once!Store
<1>8. ASSUME NEW r \in Request, NEW l \in Login, l = login[r], CookieSet(r)
      PROVE  Once!SignIn(l)
  <2>1. /\ pc[r] = "stored" /\ login[r] = l /\ worker[r] # None
        /\ cookie' = [cookie EXCEPT ![l] = worker[r]]
        /\ UNCHANGED <<browser, sessions, spent, presented>>
    BY <1>8 DEF CookieSet, client, TypeInv, TypeOK
  <2>2. /\ cookie'[l] # None /\ \A k \in Login : k # l => cookie'[k] = cookie[k]
        /\ \A q \in Request : q # r => pc'[q] = pc[q] /\ login'[q] = login[q]
        /\ pc'[r] = "idle"
    BY <1>8, <2>1 DEF CookieSet, Over, TypeInv, TypeOK
  <2>3. Stage(l) = "stored" /\ Stage(l)' = "signedIn"
    BY <1>1, <2>1, <2>2 DEF StageRight
  <2>4. \A k \in Login : k # l => Stage(k)' = Stage(k)
    BY <2>1, <2>2, StageKept
  <2>5. Once!Forward(l, "stored", "signedIn")
    BY <2>3, <2>4, StageForward
  <2> QED
    BY <1>2, <2>1, <2>5 DEF Once!SignIn
<1>16. ASSUME NEW r \in Request, CallbackFails(r)
       PROVE  Once!Lose
  <2>1. /\ UNCHANGED <<browser, cookie, spent, presented, sessions>>
        /\ \A q \in Request : (pc'[q] = pc[q] /\ login'[q] = login[q]) \/ pc'[q] = "idle"
    BY <1>16 DEF CallbackFails, Over, client, TypeInv, TypeOK
  <2> QED
    BY <2>1, LoginsLost
<1>9. ASSUME NEW w \in Worker, Restart(w)
      PROVE  Once!Lose
  <2>1. /\ UNCHANGED <<browser, cookie, spent, presented>>
        /\ \A q \in Request : (pc'[q] = pc[q] /\ login'[q] = login[q]) \/ pc'[q] = "idle"
        /\ sessions' = [sessions EXCEPT ![w] = Nothing]
    BY <1>9 DEF Restart, Over, client
  <2>2. \A p \in Place, l \in Login : sessions'[p][l] # None => sessions[p][l] # None
    BY <2>1 DEF TypeInv, TypeOK, Nothing
  <2> QED
    BY <2>1, <2>2, LoginsLost
<1>10. ASSUME UNCHANGED <<browser, cookie, pc, login, spent, presented>>,
              \A p \in Place, l \in Login : sessions'[p][l] # None <=> sessions[p][l] # None
       PROVE  UNCHANGED Once!vars
  <2>1. \A l \in Login : Stage(l)' = Stage(l)
    BY <1>10, StageKept
  <2>2. StageOf' = StageOf
    BY <2>1 DEF StageOf
  <2> QED
    BY <1>10, <2>2, HeldKept DEF Once!vars, StageOf, Held
<1>11. ASSUME NEW l \in Login, NEW w \in Worker, VisitRefreshed(l, w)
       PROVE  UNCHANGED Once!vars
  <2>1. /\ UNCHANGED <<browser, cookie, pc, login, spent, presented>>
        /\ sessions[StoreHome(w)][l] # None
        /\ sessions' = [sessions EXCEPT ![StoreHome(w)][l] = now + TokenLifetime]
    BY <1>11 DEF VisitRefreshed, Refreshing, Answered, client, handling
  <2>2. StoreHome(w) \in Place /\ now + TokenLifetime # None
    BY HomeIsPlace DEF TypeInv, TypeOK
  <2>3. \A p \in Place, k \in Login : sessions'[p][k] # None <=> sessions[p][k] # None
    BY <2>1, <2>2 DEF TypeInv, TypeOK, Expiry
  <2> QED
    BY <1>10, <2>1, <2>3
<1>12. ASSUME NEW l \in Login, NEW w \in Worker,
              CallbackRefused(l, w) \/ Visit(l, w) \/ VisitRefused(l, w)
       PROVE  UNCHANGED Once!vars
  BY <1>10, <1>12 DEF CallbackRefused, Visit, VisitRefused, Answered, client, handling
<1>13. Tick \/ UNCHANGED vars => UNCHANGED Once!vars
  BY <1>10 DEF Tick, vars, client, handling
<1>14. \A r \in Request : pc[r] # "idle" => login[r] \in Login
  BY DEF TypeInv, TypeOK
<1>15. ASSUME NEW r \in Request, Progress(r)
       PROVE  Once!Next
  <2>1. login[r] \in Login
    BY <1>14, <1>15 DEF Progress, Redeem, CallbackFails, SessionStored, CookieSet
  <2> QED
    BY <1>6, <1>7, <1>8, <1>15, <1>16, <2>1 DEF Progress, Once!Next
<1> QED
  BY <1>3, <1>4, <1>5, <1>9, <1>11, <1>12, <1>13, <1>15 DEF Next, Once!Next

(* However its callbacks repeat and overlap, and whoever restarts, a login *)
(* goes through its steps in order and once each, and a lost session never *)
(* comes back.                                                             *)
THEOREM ImplementsOnce == Spec => ImplementsBrowserLogin
BY TypeHolds, FlightInit, FlightStep, LoginInit, LoginStep, PTL
   DEF Spec, ImplementsBrowserLogin, Once!Spec

-----------------------------------------------------------------------------
(* Why a granted code was good and is gone: a login has one code at most,  *)
(* in one place, none before the browser returns from the provider, and a  *)
(* late one is out of date wherever it is.                                 *)
CodeInv ==
    /\ \A l \in Login :
         browser[l] # "returning" => l \notin late /\ \A p \in Place : codes[p][l] = None
    /\ \A l \in Login : \A p, q \in Place :
         codes[p][l] # None /\ codes[q][l] # None => p = q
    /\ \A l \in late : \A p \in Place : codes[p][l] # None => codes[p][l] < now
    /\ CodeUsedUp

LEMMA CodeInit == Init => CodeInv
BY DEF Init, CodeInv, CodeUsedUp, Granted, Serving, Held, Nothing

LEMMA GrantedLogins == Granted \subseteq Login
BY DEF Granted, Held

(* Nothing is granted, and codes are at most taken away.                   *)
LEMMA CodeKept ==
    ASSUME TypeInv, CodeInv, UNCHANGED <<late, now>>,
           Granted' \subseteq Granted,
           \A l \in Login : browser[l] = "returning" => browser'[l] = "returning",
           \A p \in Place, l \in Login : codes'[p][l] \in {codes[p][l], None}
    PROVE  CodeInv'
<1>1. \A p \in Place, l \in Login :
        codes'[p][l] # None => codes[p][l] # None /\ codes'[p][l] = codes[p][l]
  OBVIOUS
<1>2. late \subseteq Login
  BY DEF TypeInv, TypeOK
<1> HIDE DEF Granted
<1>3. \A l \in Login :
        browser'[l] # "returning" => l \notin late /\ \A p \in Place : codes'[p][l] = None
  BY <1>1 DEF CodeInv
<1>4. \A l \in Login : \A p, q \in Place :
        codes'[p][l] # None /\ codes'[q][l] # None => p = q
  BY <1>1 DEF CodeInv
<1>5. \A l \in late : \A p \in Place : codes'[p][l] # None => codes'[p][l] < now
  BY <1>1, <1>2 DEF CodeInv
<1>6. CodeUsedUp'
  BY <1>1, GrantedLogins DEF CodeInv, CodeUsedUp
<1> QED
  BY <1>3, <1>4, <1>5, <1>6 DEF CodeInv

LEMMA CodeStep == TypeInv /\ FlightInv /\ CodeInv /\ [Next]_vars => CodeInv'
<1> SUFFICES ASSUME TypeInv, FlightInv, CodeInv, [Next]_vars PROVE CodeInv'
  OBVIOUS
<1>1. ASSUME NEW l \in Login, NEW w \in Worker, Authorize(l, w)
      PROVE  CodeInv'
  <2>1. PICK p \in Place, until \in Nat : codes' = [codes EXCEPT ![p][l] = until]
    <3>1. CodeHome(w) \subseteq Place /\ IssuedCode \in Nat /\ ExampleCode \in Nat
      BY HomeIsPlace DEF IssuedCode, ExampleCode, TypeInv, TypeOK
    <3>2. PICK p \in CodeHome(w), until \in {IssuedCode, ExampleCode} :
            codes' = [codes EXCEPT ![p][l] = until]
      BY <1>1 DEF Authorize
    <3> QED
      BY <3>1, <3>2
  <2>2. /\ browser[l] = "authorize" /\ browser' = [browser EXCEPT ![l] = "returning"]
        /\ UNCHANGED <<sessions, cookie, handling, late, now>>
    BY <1>1 DEF Authorize
  <2>3. l \notin late /\ \A q \in Place : codes[q][l] = None
    BY <2>2 DEF CodeInv
  <2>4. Granted' = Granted
    BY <2>2 DEF Granted, Serving, Held, handling
  <2>5. l \notin Granted
    <3>1. l \notin spent
      BY <2>2 DEF FlightInv
    <3>2. cookie[l] = None /\ l \notin Held
      BY <3>1 DEF FlightInv, Held
    <3> QED
      BY <3>1, <3>2 DEF FlightInv, Granted, Serving
  <2>6. /\ \A q \in Place : codes'[q][l] # None => q = p
        /\ \A q \in Place, k \in Login : k # l => codes'[q][k] = codes[q][k]
        /\ \A k \in Login : k # l => browser'[k] = browser[k]
        /\ browser'[l] = "returning"
    BY <2>1, <2>2, <2>3 DEF TypeInv, TypeOK, Expiry
  <2> HIDE DEF Granted
  <2>7. CodeUsedUp'
    BY <2>2, <2>4, <2>5, <2>6, GrantedLogins DEF CodeInv, CodeUsedUp
  <2>8. late \subseteq Login
    BY DEF TypeInv, TypeOK
  <2>9. \A k \in Login :
          browser'[k] # "returning" => k \notin late /\ \A q \in Place : codes'[q][k] = None
    BY <2>6 DEF CodeInv
  <2>10. \A k \in Login : \A q, o \in Place :
           codes'[q][k] # None /\ codes'[o][k] # None => q = o
    BY <2>6 DEF CodeInv
  <2>11. \A k \in late : \A q \in Place : codes'[q][k] # None => codes'[q][k] < now
    BY <2>3, <2>6, <2>8 DEF CodeInv
  <2> QED
    BY <2>2, <2>7, <2>9, <2>10, <2>11 DEF CodeInv
<1>2. ASSUME NEW r \in Request, Redeem(r)
      PROVE  CodeInv'
  <2>1. /\ login[r] \in Login /\ worker[r] \in Worker /\ CodeHome(worker[r]) \subseteq Place
        /\ UNCHANGED <<browser, sessions, cookie, late, now>>
    BY <1>2, HomeIsPlace DEF Redeem, client, TypeInv, TypeOK
  <2>2. PICK p \in CodeHome(worker[r]) :
          /\ codes' = [codes EXCEPT ![p][login[r]] = None]
          /\ \/ /\ Redeemable(codes[p][login[r]])
                /\ pc' = [pc EXCEPT ![r] = "granted"] /\ UNCHANGED login
             \/ Over({r})
    BY <1>2 DEF Redeem
  <2>3. p \in Place /\ \A q \in Place, l \in Login : codes'[q][l] \in {codes[q][l], None}
    BY <2>1, <2>2 DEF TypeInv, TypeOK
  <2>4. CASE Over({r})
    <3>1. Granted' \subseteq Granted
      BY <2>1, <2>4 DEF Over, Granted, Serving, Held
    <3> QED
      BY <2>1, <2>3, <3>1, CodeKept
  <2>5. CASE /\ Redeemable(codes[p][login[r]])
             /\ pc' = [pc EXCEPT ![r] = "granted"] /\ UNCHANGED login
    <3>1. Granted' \subseteq Granted \cup {login[r]}
      BY <2>1, <2>5 DEF Granted, Serving, Held, TypeInv, TypeOK
    <3>2. codes[p][login[r]] # None /\ now <= codes[p][login[r]]
      BY <2>5 DEF Redeemable
    <3>3. codes[p][login[r]] \in Nat /\ now \in Nat
      BY <2>1, <2>3, <3>2 DEF TypeInv, TypeOK, Expiry
    <3>4. login[r] \notin late
      BY <2>1, <2>3, <3>2, <3>3 DEF CodeInv
    <3>5. \A q \in Place : codes'[q][login[r]] = None
      <4>1. codes'[p][login[r]] = None
        BY <2>1, <2>2, <2>3 DEF TypeInv, TypeOK, Expiry
      <4>2. \A q \in Place : q # p => codes[q][login[r]] = None
        BY <2>1, <2>3, <3>2 DEF CodeInv
      <4> QED
        BY <2>1, <2>3, <4>1, <4>2
    <3> HIDE DEF Granted
    <3>6. CodeUsedUp'
      BY <2>1, <2>3, <3>1, <3>4, <3>5, GrantedLogins DEF CodeInv, CodeUsedUp
    <3>7. \A q \in Place, l \in Login :
            codes'[q][l] # None => codes[q][l] # None /\ codes'[q][l] = codes[q][l]
      BY <2>3
    <3>8. late \subseteq Login
      BY DEF TypeInv, TypeOK
    <3> QED
      BY <2>1, <3>6, <3>7, <3>8 DEF CodeInv
  <2> QED
    BY <2>2, <2>4, <2>5
<1>3. CASE Tick
  <2>1. /\ now' = now + 1 /\ now \in Nat
        /\ late' = late \cup {l \in Login : \E p \in Place : codes[p][l] = now}
        /\ UNCHANGED <<codes, browser>>
    BY <1>3 DEF Tick, client, TypeInv, TypeOK
  <2>2. Granted' = Granted
    BY <1>3 DEF Tick, Granted, Serving, Held, handling
  <2>3. now # None /\ \A p \in Place, l \in Login : codes[p][l] \in Nat \cup {None}
    BY <2>1 DEF TypeInv, TypeOK, Expiry
  <2>4. ASSUME NEW l \in Login, l \in late', l \notin late
        PROVE  /\ browser[l] = "returning" /\ l \notin Granted
               /\ \A p \in Place : codes[p][l] # None => codes[p][l] = now
    <3>1. PICK p \in Place : codes[p][l] = now
      BY <2>1, <2>4
    <3> HIDE DEF Granted
    <3> QED
      BY <2>3, <3>1 DEF CodeInv, CodeUsedUp
  <2> HIDE DEF Granted
  <2>5. CodeUsedUp'
    BY <2>1, <2>2, <2>4 DEF CodeInv, CodeUsedUp
  <2>6. \A l \in late' : \A p \in Place : codes[p][l] # None => codes[p][l] < now + 1
    <3> SUFFICES ASSUME NEW l \in late', NEW p \in Place, codes[p][l] # None
                 PROVE  codes[p][l] < now + 1
      OBVIOUS
    <3>1. l \in Login
      BY <2>1 DEF TypeInv, TypeOK
    <3>2. CASE l \in late
      BY <2>1, <2>3, <3>1, <3>2 DEF CodeInv
    <3>3. CASE l \notin late
      BY <2>1, <2>4, <3>1, <3>3
    <3> QED
      BY <3>2, <3>3
  <2> QED
    BY <2>1, <2>4, <2>5, <2>6 DEF CodeInv
<1>4. ASSUME NEW l \in Login, NEW w \in Worker, NEW r \in Request, Callback(r, l, w)
      PROVE  CodeInv'
  <2>1. Granted' \subseteq Granted
    BY <1>4 DEF Callback, Granted, Serving, Held, client, TypeInv, TypeOK
  <2> QED
    BY <1>4, <2>1, CodeKept DEF Callback, client
<1>5. ASSUME NEW l \in Login, NEW w \in Worker, VisitRefreshed(l, w)
      PROVE  CodeInv'
  <2>1. Held' = Held
    BY <1>5, HomeIsPlace
       DEF VisitRefreshed, Refreshing, Answered, client, Held, TypeInv, TypeOK, Expiry
  <2>2. Granted' \subseteq Granted
    BY <1>5, <2>1 DEF VisitRefreshed, Answered, Granted, Serving, handling
  <2> QED
    BY <1>5, <2>2, CodeKept DEF VisitRefreshed, Answered, client
<1>6. ASSUME NEW l \in Login, NEW w \in Worker,
             \/ LoginStarts(l, w) \/ CallbackRefused(l, w) \/ Visit(l, w) \/ VisitRefused(l, w)
      PROVE  CodeInv'
  <2>1. /\ UNCHANGED <<sessions, cookie, handling, codes, late, now>>
        /\ \A k \in Login : browser[k] = "returning" => browser'[k] = "returning"
    BY <1>6 DEF LoginStarts, CallbackRefused, Visit, VisitRefused, Answered, client,
                TypeInv, TypeOK
  <2>2. Granted' \subseteq Granted
    BY <2>1 DEF Granted, Serving, Held, handling
  <2> QED
    BY <2>1, <2>2, CodeKept
<1>7. ASSUME NEW r \in Request, SessionStored(r)
      PROVE  CodeInv'
  <2>1. /\ login[r] \in Login /\ worker[r] \in Worker /\ StoreHome(worker[r]) \in Place
        /\ pc[r] = "granted" /\ pc' = [pc EXCEPT ![r] = "stored"]
        /\ sessions' = [sessions EXCEPT ![StoreHome(worker[r])][login[r]] = now + TokenLifetime]
        /\ UNCHANGED <<browser, codes, cookie, login, late, now>>
    BY <1>7, HomeIsPlace DEF SessionStored, client, TypeInv, TypeOK
  <2>2. \A k \in Login : k \in Held' => k \in Held \/ k = login[r]
    BY <2>1 DEF Held, TypeInv, TypeOK
  <2>3. Granted' \subseteq Granted
    <3> HIDE DEF Held
    <3>1. login[r] \in Granted
      BY <2>1 DEF Granted, Serving
    <3>2. \A k \in Login : Serving(k, "granted")' \/ Serving(k, "stored")' =>
            Serving(k, "granted") \/ Serving(k, "stored")
      BY <2>1 DEF Serving, TypeInv, TypeOK
    <3>3. Held' \subseteq Held \cup {login[r]}
      BY <2>2 DEF Held
    <3> HIDE DEF Serving
    <3> QED
      BY <2>1, <3>1, <3>2, <3>3 DEF Granted
  <2> QED
    BY <2>1, <2>3, CodeKept
<1>8. ASSUME NEW r \in Request, CookieSet(r)
      PROVE  CodeInv'
  <2>1. /\ login[r] \in Login /\ pc[r] = "stored"
        /\ cookie' = [cookie EXCEPT ![login[r]] = worker[r]]
        /\ UNCHANGED <<browser, codes, sessions, late, now>>
    BY <1>8 DEF CookieSet, client, TypeInv, TypeOK
  <2>2. Granted' \subseteq Granted
    BY <1>8, <2>1 DEF CookieSet, Over, Granted, Serving, Held, TypeInv, TypeOK
  <2> QED
    BY <2>1, <2>2, CodeKept
<1>9. ASSUME NEW r \in Request, CallbackFails(r)
      PROVE  CodeInv'
  <2>1. Granted' \subseteq Granted
    BY <1>9 DEF CallbackFails, Over, Granted, Serving, Held
  <2> QED
    BY <1>9, <2>1, CodeKept DEF CallbackFails, client
<1>10. ASSUME NEW w \in Worker, Restart(w)
       PROVE  CodeInv'
  <2>1. Granted' \subseteq Granted
    BY <1>10 DEF Restart, Over, Granted, Serving, Held, Nothing, TypeInv, TypeOK
  <2>2. \A p \in Place, l \in Login : codes'[p][l] \in {codes[p][l], None}
    BY <1>10 DEF Restart, Nothing, TypeInv, TypeOK
  <2> QED
    BY <1>10, <2>1, <2>2, CodeKept DEF Restart, client
<1>11. CASE UNCHANGED vars
  <2>1. Granted' \subseteq Granted
    BY <1>11 DEF vars, Granted, Serving, Held
  <2> QED
    BY <1>11, <2>1, CodeKept DEF vars
<1> QED
  BY <1>1, <1>2, <1>3, <1>4, <1>5, <1>6, <1>7, <1>8, <1>9, <1>10, <1>11 DEF Next, Progress

(* For any lifetimes, workers and interleaving, a login that was granted   *)
(* had a code in date, and its code is nowhere to be redeemed again.       *)
THEOREM UsedUp == Spec => []CodeUsedUp
<1>1. CodeInv => CodeUsedUp
  BY DEF CodeInv
<1> QED
  BY TypeHolds, FlightInit, FlightStep, CodeInit, CodeStep, <1>1, PTL DEF Spec
=============================================================================
