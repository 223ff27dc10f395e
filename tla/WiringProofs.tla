---------------------------- MODULE WiringProofs ----------------------------
(***************************************************************************)
(* What protected routes answer, for every sequence of calls that wires an *)
(* application, every set of providers, names and tokens.                  *)
(***************************************************************************)
EXTENDS Wiring, TLAPS

USE WiringAssumption, NoneAssumption

(* TypeOK in two parts: the sets that values are from, and how the token   *)
(* managers of override, login and cookie hang together.                   *)
Ranges ==
    /\ devKey \in DevKeys
    /\ auth \in Auth \cup {None} /\ stub \in Auth \cup {None}
    /\ override \in [auth : Auth \cup {None}, manager : Nat]
    /\ devRouter \in DevRouter
    /\ devIdp \in Issuer \cup {None}
    /\ signIn \in [issuer : Address \cup {None}, inProcess : BOOLEAN, manager : {0, 1}]
    /\ managers \in Nat /\ calls \in 0..MaxCalls
    /\ phase \in {"building", "listening", "called"}
    /\ cookie \in [manager : {0, 1}, token : Presented \cup {Garbage}]

Linked ==
    /\ override.manager <= managers /\ cookie.manager <= managers
    /\ override.manager > 0 => override.auth # None
    /\ managers > 0 <=> signIn.manager = 1
    /\ managers > 0 <=> signIn.issuer # None
    /\ cookie.manager = 0 => cookie = NoCookie

LEMMA TypeParts == TypeOK <=> Ranges /\ Linked
BY DEF TypeOK, Ranges, Linked

LEMMA TypeInit == Init => TypeOK
<1> SUFFICES ASSUME Init PROVE Ranges /\ Linked
  BY TypeParts
<1>1. /\ override \in [auth : Auth \cup {None}, manager : Nat]
      /\ devRouter \in DevRouter
      /\ signIn \in [issuer : Address \cup {None}, inProcess : BOOLEAN, manager : {0, 1}]
      /\ cookie \in [manager : {0, 1}, token : Presented \cup {Garbage}]
  BY DEF Init, NoCookie, DevRouter
<1>2. Linked
  BY DEF Init, NoCookie, Linked
<1> QED
  BY <1>1, <1>2 DEF Init, Ranges

LEMMA AuthRouterType ==
    ASSUME Ranges, Linked, NEW address \in Address, NEW inProcess \in BOOLEAN,
           IncludeAuthRouter(address, inProcess)
    PROVE  /\ managers' = managers + 1 /\ managers' \in Nat
           /\ signIn' \in [issuer : Address \cup {None}, inProcess : BOOLEAN, manager : {0, 1}]
           /\ signIn'.manager = 1 /\ signIn'.issuer # None
<1>1. managers' = managers + 1 /\ managers' \in Nat
  BY DEF IncludeAuthRouter, Ranges
<1>2. CASE managers = 0
  BY <1>1, <1>2 DEF IncludeAuthRouter, Ranges
<1>3. CASE managers # 0
  BY <1>1, <1>3 DEF IncludeAuthRouter, Ranges, Linked
<1> QED
  BY <1>1, <1>2, <1>3

LEMMA DevRouterType ==
    ASSUME Ranges, NEW setting \in Settings, NEW personas \in BOOLEAN,
           IncludeDevRouter(setting, personas)
    PROVE  devRouter' \in DevRouter
<1>1. setting.issuer \in Issuer /\ setting.audience \in Audience
  BY WiringAssumption
<1> QED
  BY <1>1 DEF IncludeDevRouter, Ranges, DevRouter

LEMMA ValidatorType ==
    ASSUME NEW setting \in Settings, NEW inProcess \in BOOLEAN
    PROVE  /\ setting.issuer \in Issuer /\ setting.issuer.at \in Address
           /\ Validator(setting, inProcess) \in Auth
<1>1. setting.issuer \in Issuer /\ setting.audience \in Audience
  BY WiringAssumption
<1>2. setting.issuer.at \in Address
  BY <1>1 DEF Issuer
<1> QED
  BY <1>1, <1>2 DEF Validator, Auth

LEMMA NextRanges == Ranges /\ Linked /\ [Next]_vars => Ranges'
<1> SUFFICES ASSUME Ranges, Linked, [Next]_vars PROVE Ranges'
  OBVIOUS
<1>1. Calling => calls' \in 0..MaxCalls /\ UNCHANGED <<devKey, phase, cookie>>
  BY DEF Calling, Ranges
<1>3. Own \in Address /\ Mount \in Address
  BY DEF Address
<1>4. ASSUME NEW setting \in Settings, Configure(setting) \/ BindStub(setting)
      PROVE  Ranges'
  BY <1>1, <1>4, ValidatorType DEF Configure, BindStub, Ranges
<1>5. ASSUME NEW a \in Address, AddSignIn(a)
      PROVE  Ranges'
  BY <1>1, <1>5, AuthRouterType DEF AddSignIn, Ranges
<1>14. ASSUME NEW setting \in Settings, CombinedExample(setting)
       PROVE  Ranges'
  <2>1. /\ IncludeAuthRouter(setting.issuer.at, FALSE) /\ Calling
        /\ auth' = Validator(setting, FALSE) /\ UNCHANGED <<override, stub, devRouter, devIdp>>
    BY <1>14 DEF CombinedExample
  <2>2. setting.issuer.at \in Address /\ auth' \in Auth
    BY <2>1, ValidatorType
  <2> QED
    BY <1>1, <2>1, <2>2, AuthRouterType DEF Ranges
<1>6. ASSUME NEW setting \in Settings, ConfigureDev(setting)
      PROVE  Ranges'
  BY <1>1, <1>6, ValidatorType, DevRouterType DEF ConfigureDev, Ranges
<1>7. ASSUME NEW setting \in Settings, NEW personas \in BOOLEAN, MountDev(setting, personas)
      PROVE  Ranges'
  <2>2. /\ Calling /\ IncludeAuthRouter(Own, TRUE) /\ IncludeDevRouter(setting, personas)
        /\ UNCHANGED <<stub, devIdp>>
        /\ auth' = Validator(setting, TRUE)
        /\ override' = [auth |-> auth', manager |-> managers']
    BY <1>7 DEF MountDev
  <2>3. devRouter' \in DevRouter
    BY <2>2, DevRouterType
  <2>4. /\ managers' \in Nat
        /\ signIn' \in [issuer : Address \cup {None}, inProcess : BOOLEAN, manager : {0, 1}]
    BY <1>3, <2>2, AuthRouterType
  <2>5. auth' \in Auth
    BY <2>2, ValidatorType
  <2>6. override' \in [auth : Auth \cup {None}, manager : Nat]
    BY <2>2, <2>4, <2>5
  <2> QED
    BY <1>1, <2>2, <2>3, <2>4, <2>5, <2>6 DEF Ranges
<1>8. ASSUME NEW slash \in BOOLEAN, MountIdp(slash)
      PROVE  Ranges'
  BY <1>1, <1>3, <1>8 DEF MountIdp, Issuer, Ranges
<1>9. ASSUME NEW audience \in Audience, DevAuth(audience)
      PROVE  Ranges'
  BY <1>1, <1>3, <1>9 DEF DevAuth, Auth, Ranges
<1>10. CASE Join \/ OverrideBearer
  BY <1>1, <1>10 DEF Join, OverrideBearer, Ranges
<1>11. CASE Serve
  BY <1>11 DEF Serve, wiring, Ranges
<1>12. ASSUME NEW token \in Presented, BrowserSignsIn(token)
       PROVE  Ranges'
  <2>1. cookie' \in [manager : {0, 1}, token : Presented \cup {Garbage}]
    BY <1>12 DEF BrowserSignsIn, Ranges
  <2> QED
    BY <1>12, <2>1 DEF BrowserSignsIn, wiring, Ranges
<1>13. CASE UNCHANGED vars
  BY <1>13 DEF vars, wiring, Ranges
<1> QED
  BY <1>4, <1>5, <1>6, <1>7, <1>8, <1>9, <1>10, <1>11, <1>12, <1>13, <1>14 DEF Next

LEMMA NextLinked == Ranges /\ Ranges' /\ Linked /\ [Next]_vars => Linked'
<1> SUFFICES ASSUME Ranges, Ranges', Linked, [Next]_vars PROVE Linked'
  OBVIOUS
<1>1. managers \in Nat /\ override.manager \in Nat /\ cookie.manager \in Nat
  BY DEF Ranges
<1>2. ASSUME NEW a \in Address, NEW b \in BOOLEAN, IncludeAuthRouter(a, b), Calling,
             UNCHANGED override \/ (override'.auth # None /\ override'.manager = managers')
      PROVE  Linked'
  BY <1>1, <1>2, AuthRouterType DEF Calling, Linked
<1>3. ASSUME UNCHANGED <<managers, signIn, cookie>>,
             \/ UNCHANGED override
             \/ override'.auth # None /\ override'.manager \in {0, managers}
      PROVE  Linked'
  BY <1>1, <1>3 DEF Linked
<1>4. ASSUME NEW token \in Presented, BrowserSignsIn(token)
      PROVE  Linked'
  <2>1. signIn.manager = 1 \/ signIn.manager = 0
    BY DEF Ranges
  <2>2. signIn.issuer # None /\ cookie'.manager = signIn.manager
    BY <1>4 DEF BrowserSignsIn
  <2> QED
    BY <1>1, <1>4, <2>1, <2>2 DEF BrowserSignsIn, wiring, Linked
<1>5. ASSUME \/ \E s \in Settings : Configure(s) \/ BindStub(s) \/ ConfigureDev(s)
             \/ \E slash \in BOOLEAN : MountIdp(slash)
             \/ \E audience \in Audience : DevAuth(audience)
             \/ Join \/ OverrideBearer \/ Serve \/ UNCHANGED vars
      PROVE  Linked'
  <2>1. UNCHANGED <<managers, signIn, cookie>>
    BY <1>5 DEF Configure, BindStub, ConfigureDev, MountIdp, DevAuth, Join, OverrideBearer,
                Serve, Calling, wiring, vars
  <2>2. CASE Join \/ OverrideBearer
    <3>1. override'.auth = auth /\ auth # None /\ override'.manager \in {0, managers}
      BY <2>2 DEF Join, OverrideBearer
    <3> QED
      BY <1>3, <2>1, <3>1
  <2>3. ~(Join \/ OverrideBearer) => UNCHANGED override
    BY <1>5 DEF Configure, BindStub, ConfigureDev, MountIdp, DevAuth, Serve, wiring, vars
  <2> QED
    BY <1>3, <2>1, <2>2, <2>3
<1>6. ASSUME NEW a \in Address, AddSignIn(a)
      PROVE  Linked'
  BY <1>2, <1>6 DEF AddSignIn
<1>8. ASSUME NEW setting \in Settings, CombinedExample(setting)
      PROVE  Linked'
  BY <1>2, <1>8, ValidatorType DEF CombinedExample
<1>7. ASSUME NEW setting \in Settings, NEW personas \in BOOLEAN, MountDev(setting, personas)
      PROVE  Linked'
  <2>1. Own \in Address
    BY DEF Address
  <2>2. override'.auth \in Auth /\ override'.manager = managers'
    BY <1>7, ValidatorType DEF MountDev
  <2>3. override'.auth # None
    BY <2>2
  <2> QED
    BY <1>2, <1>7, <2>1, <2>2, <2>3 DEF MountDev
<1> QED
  BY <1>4, <1>5, <1>6, <1>7, <1>8 DEF Next

LEMMA TypeStep == TypeOK /\ [Next]_vars => TypeOK'
BY TypeParts, NextRanges, NextLinked DEF TypeOK, Ranges, Linked

(* Type correctness, whatever is called in whichever order.                *)
THEOREM Typing == Spec => []TypeOK
BY TypeInit, TypeStep, PTL DEF Spec

-----------------------------------------------------------------------------
(* What a validator lets through.                                          *)
LEMMA ServedIsVouched ==
    ASSUME NEW a, NEW token, Validate(a, token).status = 200
    PROVE  VouchedFor(a, token)
<1>1. /\ token # Garbage /\ token.key = KeyAt(a.issuer)
      /\ token.iss = Plain(a.issuer) /\ token.aud = a.audience
  BY DEF Validate, Answer
<1> QED
  BY <1>1 DEF VouchedFor, Plain

LEMMA CurrentUserVouched ==
    ASSUME TypeOK, NEW header \in Header, NEW jar \in Jar, CurrentUser(header, jar).status = 200
    PROVE  /\ Bound("current_user") # None
           /\ VouchedFor(Bound("current_user"), Shown(header, jar))
<1>1. CASE override.manager # 0
  <2>1. override.auth # None
    BY <1>1 DEF TypeOK
  <2>2. Validate(override.auth, Shown(header, jar)).status = 200
    BY <1>1 DEF CurrentUser, SessionPrincipal, Shown, Answer
  <2> QED
    BY <2>1, <2>2, ServedIsVouched DEF Bound
<1>2. CASE override.manager = 0
  <2>1. Bound("current_user") # None /\ GetPrincipal(Bound("current_user"), header).status = 200
    BY <1>2 DEF CurrentUser, Bound, Answer
  <2>2. header.scheme = "bearer" /\ Validate(Bound("current_user"), header.token).status = 200
    BY <2>1 DEF GetPrincipal, Answer
  <2> QED
    BY <2>1, <2>2, ServedIsVouched DEF Shown
<1> QED
  BY <1>1, <1>2

LEMMA UserVouched ==
    ASSUME TypeOK, NEW user \in Dependency, NEW header \in Header, NEW jar \in Jar,
           User(user, header, jar).status = 200
    PROVE  Bound(user) # None /\ VouchedFor(Bound(user), Shown(header, jar))
<1>1. CASE user = "current_user"
  BY <1>1, CurrentUserVouched DEF User
<1>2. CASE user = "stub"
  <2>1. Bound(user) = stub
    BY <1>2 DEF Bound
  <2>2. stub # None /\ header.scheme = "bearer" /\ Validate(stub, header.token).status = 200
    BY <1>2 DEF User, GetPrincipal, Answer
  <2> QED
    BY <2>1, <2>2, ServedIsVouched DEF Shown
<1> QED
  BY <1>1, <1>2 DEF Dependency

LEMMA UnboundFails ==
    ASSUME TypeOK, NEW user \in Dependency, NEW header \in Header, NEW jar \in Jar,
           Bound(user) = None
    PROVE  User(user, header, jar).status = 500
<1>1. CASE user = "current_user"
  BY <1>1 DEF Bound, User, CurrentUser, Answer, TypeOK
<1>2. CASE user = "stub"
  BY <1>2 DEF Bound, User, Answer
<1> QED
  BY <1>1, <1>2 DEF Dependency

(* A route that serves got a principal from every dependency it relies on. *)
LEMMA ServesEach ==
    ASSUME NEW route \in Route, NEW header, NEW jar, Respond(route, header, jar) = 200,
           NEW user \in Relied(route)
    PROVE  User(user, header, jar).status = 200
<1>1. Guarded(route, header, jar) = 200 /\ User(route.user, header, jar).status = 200
  BY DEF Respond
<1>2. route.guard # Open => User(route.guardUser, header, jar).status = 200
  BY <1>1 DEF Guarded
<1> QED
  BY <1>1, <1>2 DEF Relied

LEMMA ClosedAlways == TypeOK => FailsClosed
<1> SUFFICES ASSUME TypeOK, NEW route \in Route, NEW header \in Header, NEW jar \in Jar
             PROVE  /\ Respond(route, header, jar) = 200 =>
                         \A user \in Relied(route) :
                             Bound(user) # None /\ VouchedFor(Bound(user), Shown(header, jar))
                    /\ (\A user \in Relied(route) : Bound(user) = None) =>
                         Respond(route, header, jar) = 500
  BY DEF FailsClosed
<1>1. Relied(route) \subseteq Dependency /\ route.user \in Relied(route)
      /\ (route.guard # Open => route.guardUser \in Relied(route))
  BY DEF Relied, Route
<1>2. Respond(route, header, jar) = 200 =>
        \A user \in Relied(route) :
            Bound(user) # None /\ VouchedFor(Bound(user), Shown(header, jar))
  BY <1>1, ServesEach, UserVouched
<1>3. ASSUME \A user \in Relied(route) : Bound(user) = None
      PROVE  Respond(route, header, jar) = 500
  <2>1. \A user \in Relied(route) : User(user, header, jar).status = 500
    BY <1>1, <1>3, UnboundFails
  <2> QED
    BY <1>1, <2>1 DEF Respond, Guarded
<1> QED
  BY <1>2, <1>3

(* No order of calls leaves a protected route open: nobody is served       *)
(* without a token of the issuer that the route, and its guard, is bound   *)
(* to.                                                                     *)
THEOREM Closed == Spec => []FailsClosed
BY Typing, ClosedAlways, PTL

LEMMA UserMapped ==
    ASSUME TypeOK, NEW user \in Dependency, NEW header \in Header, NEW jar \in Jar,
           User(user, header, jar).status = 200
    PROVE  /\ Shown(header, jar) \in Presented
           /\ User(user, header, jar) = Map(Shown(header, jar))
<1>1. Shown(header, jar) \in Presented \cup {Garbage}
  <2>1. header.token \in Presented \cup {Garbage}
    BY DEF Header
  <2>2. jar.token \in Presented \cup {Garbage}
    BY DEF Jar, NoCookie, TypeOK
  <2> QED
    BY <2>1, <2>2 DEF Shown
<1>2. ASSUME NEW a, NEW token, Validate(a, token).status = 200
      PROVE  token # Garbage /\ Validate(a, token) = Map(token)
  BY <1>2 DEF Validate, Answer
<1>3. \E a : /\ User(user, header, jar) = Validate(a, Shown(header, jar))
             /\ Validate(a, Shown(header, jar)).status = 200
  <2>1. CASE user = "current_user" /\ override.manager # 0
    BY <2>1 DEF User, CurrentUser, SessionPrincipal, Shown, Answer
  <2>2. CASE user = "current_user" /\ override.manager = 0
    BY <2>2 DEF User, CurrentUser, GetPrincipal, Shown, Answer
  <2>3. CASE user # "current_user"
    BY <2>3 DEF User, GetPrincipal, Shown, Answer
  <2> QED
    BY <2>1, <2>2, <2>3
<1> QED
  BY <1>1, <1>2, <1>3

LEMMA GrantedAlways == TypeOK => GrantedOnlyIfListed
<1> SUFFICES ASSUME TypeOK, NEW route \in Route, NEW header \in Header, NEW jar \in Jar,
                    Respond(route, header, jar) = 200
             PROVE  LET claim == Shown(header, jar).roles
                        name == route.guard.name
                    IN  /\ claim.form # "null" /\ Shown(header, jar).permissions.form # "null"
                        /\ route.guard.by = "role" =>
                             \/ claim.form \in {"list", "object"} /\ name \in claim.of
                             \/ claim.form = "text" /\ \E w \in claim.of : name \in Letters[w]
  BY DEF GrantedOnlyIfListed
<1> DEFINE token == Shown(header, jar)
<1>1. /\ Relied(route) \subseteq Dependency /\ route.user \in Relied(route)
      /\ (route.guard # Open => route.guardUser \in Relied(route))
  BY DEF Relied, Route
<1>2. /\ token \in Presented
      /\ \A user \in Relied(route) : /\ User(user, header, jar) = Map(token)
                                     /\ Map(token).status = 200
  BY <1>1, ServesEach, UserMapped
<1> HIDE DEF token
<1>3. token.roles.form # "null" /\ token.permissions.form # "null"
  BY <1>1, <1>2 DEF Map, Answer
<1>4. ASSUME route.guard.by = "role"
      PROVE  \/ token.roles.form \in {"list", "object"} /\ route.guard.name \in token.roles.of
             \/ /\ token.roles.form = "text"
                /\ \E w \in token.roles.of : route.guard.name \in Letters[w]
  <2>1. route.guard # Open
    BY <1>4 DEF Open
  <2>2. Admits(route.guard, Map(token))
    BY <1>1, <1>2, <2>1 DEF Respond, Guarded
  <2>3. route.guard.name \in Elements(token.roles)
    BY <1>3, <1>4, <2>1, <2>2 DEF Admits, Map
  <2>4. token.roles.form \in {"list", "object", "text", "absent", "null"}
    BY <1>2, WiringAssumption DEF Token, Claim
  <2> QED
    BY <1>3, <2>3, <2>4 DEF Elements
<1> QED
  BY <1>3, <1>4 DEF token

(* A role is granted by a claim that lists it, and by nothing else.        *)
THEOREM Granted == Spec => []GrantedOnlyIfListed
BY Typing, GrantedAlways, PTL

LEMMA AlikeAlways == TypeOK => BearerServedAlike
<1> SUFFICES ASSUME TypeOK, NEW route \in Route, NEW header \in Header, header.scheme = "bearer"
             PROVE  /\ Respond(route, header, cookie) = Respond(route, header, NoCookie)
                    /\ Bound(route.user) # None /\ route.guard = Open =>
                         Respond(route, header, cookie)
                             = Validate(Bound(route.user), header.token).status
  BY DEF BearerServedAlike
<1>1. \A user : User(user, header, cookie) = User(user, header, NoCookie)
  BY DEF User, CurrentUser, SessionPrincipal
<1>2. ASSUME Bound(route.user) # None
      PROVE  User(route.user, header, cookie) = Validate(Bound(route.user), header.token)
  <2>1. override.manager # 0 => override.auth # None
    BY DEF TypeOK
  <2>2. CASE route.user = "current_user"
    BY <1>2, <2>1, <2>2 DEF User, CurrentUser, SessionPrincipal, GetPrincipal, Bound
  <2>3. CASE route.user = "stub"
    BY <1>2, <2>3 DEF User, GetPrincipal, Bound
  <2> QED
    BY <2>2, <2>3 DEF Route, Dependency
<1>3. Respond(route, header, cookie) = Respond(route, header, NoCookie)
  BY <1>1 DEF Respond, Guarded
<1>4. route.guard = Open => Respond(route, header, cookie) = User(route.user, header, cookie).status
  BY DEF Respond, Guarded
<1> QED
  BY <1>2, <1>3, <1>4

(* A script's token is answered alike with a cookie and without one, and   *)
(* whether or not browsers sign in at the application.                     *)
THEOREM BearerAlike == Spec => []BearerServedAlike
BY Typing, AlikeAlways, PTL

-----------------------------------------------------------------------------
(* A session's token comes from the provider that the sign-in discovers,   *)
(* and nothing is rewired once the application is in service.              *)
CookieInv ==
    cookie # NoCookie =>
        /\ InService /\ cookie.manager = 1 /\ signIn.issuer # None
        /\ cookie.token \in Presented
        /\ IssuedAt(signIn.issuer, cookie.token)

LEMMA CookieInit == Init => CookieInv
BY DEF Init, CookieInv

LEMMA CookieStep == TypeOK /\ TypeOK' /\ CookieInv /\ [Next]_vars => CookieInv'
<1> SUFFICES ASSUME TypeOK, TypeOK', CookieInv, [Next]_vars PROVE CookieInv'
  OBVIOUS
<1>1. ASSUME NEW token \in Presented, BrowserSignsIn(token)
      PROVE  CookieInv'
  <2>1. /\ phase # "building" /\ signIn.issuer # None /\ IssuedAt(signIn.issuer, token)
        /\ cookie' = [manager |-> signIn.manager, token |-> token]
        /\ UNCHANGED <<wiring, devKey, phase>>
    BY <1>1 DEF BrowserSignsIn
  <2>2. signIn.manager = 1
    BY <2>1 DEF TypeOK
  <2>3. IssuedAt(signIn.issuer, token)'
    BY <2>1 DEF IssuedAt, Document, Served, KeyAt, wiring
  <2> QED
    BY <2>1, <2>2, <2>3 DEF CookieInv, InService, wiring
<1>2. ASSUME UNCHANGED vars
      PROVE  CookieInv'
  BY <1>2 DEF vars, wiring, CookieInv, InService, IssuedAt, Document, Served, KeyAt
<1>3. ASSUME phase = "building", UNCHANGED cookie
      PROVE  CookieInv'
  BY <1>3 DEF CookieInv, InService
<1>4. ASSUME \/ \E setting \in Settings : \/ Configure(setting) \/ CombinedExample(setting)
                                            \/ BindStub(setting) \/ ConfigureDev(setting)
             \/ \E setting \in Settings, personas \in BOOLEAN : MountDev(setting, personas)
             \/ \E a \in Address : AddSignIn(a)
             \/ \E slash \in BOOLEAN : MountIdp(slash)
             \/ \E audience \in Audience : DevAuth(audience)
             \/ Join \/ OverrideBearer \/ Serve
      PROVE  phase = "building" /\ UNCHANGED cookie
  BY <1>4 DEF Configure, AddSignIn, BindStub, CombinedExample, ConfigureDev, MountDev, MountIdp,
              DevAuth, Join, OverrideBearer, Serve, Calling
<1> QED
  BY <1>1, <1>2, <1>3, <1>4 DEF Next

LEMMA ServedOnceSignedIn == TypeOK /\ CookieInv => SignedInServed
<1> SUFFICES ASSUME TypeOK, CookieInv, InService, cookie # NoCookie,
                    override.manager # 0, managers = 1,
                    override.auth.issuer = signIn.issuer,
                    signIn.inProcess => override.auth.inProcess,
                    ~cookie.token.iss.slash,
                    cookie.token.aud = override.auth.audience, cookie.token.key \in Accepted,
                    Map(cookie.token).status = 200,
                    NEW header \in Header, header.scheme # "bearer"
             PROVE  Respond(Ask(Open), header, cookie) = 200
  BY DEF SignedInServed
<1> DEFINE a == override.auth
           token == cookie.token
<1>1. a # None /\ override.manager = 1 /\ cookie.manager = 1 /\ token # Garbage
  <2>1. override.manager \in Nat /\ override.manager <= 1
    BY DEF TypeOK
  <2> QED
    BY <2>1 DEF TypeOK, CookieInv
<1>2. IssuedAt(a.issuer, token)
  BY DEF CookieInv
<1>3. Document(a.issuer, signIn.inProcess) = Document(a.issuer, a.inProcess)
  BY <1>2 DEF IssuedAt, Document
<1>4. /\ Document(a.issuer, a.inProcess) = token.iss /\ token.iss # None
      /\ Served(token.iss) /\ token.iss.at = a.issuer /\ token.key = KeyAt(a.issuer)
  BY <1>2, <1>3 DEF IssuedAt
<1>5. Fetched(a) = "keys"
  BY <1>4 DEF Fetched
<1>6. token \in Token /\ token.iss = Plain(a.issuer)
  <2>1. token \in Token
    BY DEF CookieInv
  <2>2. token.iss \in Issuer
    BY <2>1 DEF Token
  <2>3. token.iss = [at |-> token.iss.at, slash |-> FALSE]
    BY <2>2 DEF Issuer
  <2> QED
    BY <1>4, <2>1, <2>3 DEF Plain
<1>7. Validate(a, token).status = 200
  BY <1>1, <1>4, <1>5, <1>6 DEF Validate
<1>8. CurrentUser(header, cookie).status = 200
  BY <1>1, <1>7 DEF CurrentUser, SessionPrincipal
<1> QED
  BY <1>8 DEF Respond, Guarded, User, Ask

(* Where join and login concern one issuer and one auth router, a browser  *)
(* that signed in is served, however the application was wired.            *)
THEOREM BrowserServed == Spec => []SignedInServed
BY Typing, CookieInit, CookieStep, ServedOnceSignedIn, PTL DEF Spec

-----------------------------------------------------------------------------
(* A first call finds nothing wired, so an application with one call and a *)
(* session dependency was wired by mount_dev: its validator asks the dev   *)
(* router of the application itself.                                       *)
OwnAuth == [issuer |-> Own, audience |-> devRouter.audience, inProcess |-> TRUE]

MountedInv ==
    /\ calls = 0 => auth = None /\ override.manager = 0 /\ devRouter.issuer = None
    /\ MountedAlone => /\ override.auth = OwnAuth /\ devRouter.audience \in Audience
                       /\ devRouter.issuer \in Issuer /\ devRouter.issuer.at = Own

LEMMA MountedInit == Init => MountedInv
BY DEF Init, MountedInv, MountedAlone

LEMMA MountedStep == TypeOK /\ MountedInv /\ [Next]_vars => MountedInv'
<1> SUFFICES ASSUME TypeOK, MountedInv, [Next]_vars PROVE MountedInv'
  OBVIOUS
<1>1. calls \in Nat
  BY DEF TypeOK
<1>2. Calling => calls' = calls + 1 /\ calls' # 0 /\ (calls' = 1 => calls = 0)
  BY <1>1 DEF Calling
<1>3. ASSUME Calling, calls = 0 => override'.manager = 0
      PROVE  MountedInv'
  BY <1>2, <1>3 DEF MountedInv, MountedAlone
<1>4. ASSUME \/ \E setting \in Settings : \/ Configure(setting) \/ CombinedExample(setting)
                                            \/ BindStub(setting) \/ ConfigureDev(setting)
             \/ \E a \in Address : AddSignIn(a)
             \/ \E slash \in BOOLEAN : MountIdp(slash)
             \/ \E audience \in Audience : DevAuth(audience)
             \/ Join \/ OverrideBearer
      PROVE  MountedInv'
  <2>1. Calling
    BY <1>4 DEF Configure, AddSignIn, BindStub, CombinedExample, ConfigureDev, MountIdp, DevAuth,
                Join, OverrideBearer
  <2>2. UNCHANGED override \/ (auth # None)
    BY <1>4 DEF Configure, AddSignIn, BindStub, CombinedExample, ConfigureDev, MountIdp, DevAuth,
                Join, OverrideBearer
  <2> QED
    BY <1>3, <2>1, <2>2 DEF MountedInv
<1>5. ASSUME NEW setting \in Settings, NEW personas \in BOOLEAN, MountDev(setting, personas)
      PROVE  MountedInv'
  <2>1. /\ Calling /\ setting.issuer.at = Own /\ override'.auth = Validator(setting, TRUE)
        /\ IncludeDevRouter(setting, personas)
    BY <1>5 DEF MountDev
  <2>2. CASE calls = 0
    <3>1. devRouter'.issuer = setting.issuer /\ devRouter'.audience = setting.audience
      BY <2>1, <2>2 DEF IncludeDevRouter, MountedInv
    <3>2. setting.issuer \in Issuer /\ setting.audience \in Audience
      BY WiringAssumption
    <3>3. override'.auth = OwnAuth'
      BY <2>1, <3>1 DEF Validator, OwnAuth
    <3> QED
      BY <1>2, <2>1, <3>1, <3>2, <3>3 DEF MountedInv
  <2>3. CASE calls # 0
    BY <1>2, <2>1, <2>3 DEF MountedInv, MountedAlone
  <2> QED
    BY <2>2, <2>3
<1>6. CASE Serve \/ UNCHANGED vars
  BY <1>6 DEF Serve, vars, wiring, MountedInv, MountedAlone, OwnAuth
<1>7. ASSUME NEW token \in Presented, BrowserSignsIn(token)
      PROVE  MountedInv'
  BY <1>7 DEF BrowserSignsIn, wiring, MountedInv, MountedAlone, OwnAuth
<1> QED
  BY <1>4, <1>5, <1>6, <1>7 DEF Next

LEMMA MountedHolds == Spec => []MountedInv
BY Typing, MountedInit, MountedStep, PTL DEF Spec

(* What a route behind current_user makes of a credential then: 500 where  *)
(* the issuer ends with a slash, and elsewhere what its validator says.    *)
NoCredential == [scheme |-> "none", token |-> Garbage]
BearerOf(token) == [scheme |-> "bearer", token |-> token]

LEMMA MountedNamed ==
    ASSUME TypeOK, MountedInv, MountedAlone
    PROVE  /\ devRouter.issuer.slash \in BOOLEAN
           /\ devRouter.issuer = [at |-> Own, slash |-> devRouter.issuer.slash]
           /\ \A issuer : devRouter.issuer = Plain(issuer) <=>
                              issuer = Own /\ ~devRouter.issuer.slash
<1>1. devRouter.issuer \in Issuer /\ devRouter.issuer.at = Own
  BY DEF MountedInv
<1>2. /\ devRouter.issuer = [at |-> Own, slash |-> devRouter.issuer.slash]
      /\ devRouter.issuer.slash \in BOOLEAN
  BY <1>1 DEF Issuer
<1>3. ASSUME NEW issuer
      PROVE  devRouter.issuer = Plain(issuer) <=> issuer = Own /\ ~devRouter.issuer.slash
  <2>1. Plain(issuer).at = issuer /\ Plain(issuer).slash = FALSE
    BY DEF Plain
  <2>2. devRouter.issuer = Plain(issuer) => issuer = Own /\ ~devRouter.issuer.slash
    BY <1>1, <2>1
  <2>3. ~devRouter.issuer.slash => devRouter.issuer = Plain(Own)
    BY <1>2 DEF Plain
  <2> QED
    BY <2>2, <2>3
<1> QED
  BY <1>2, <1>3

LEMMA MountedFetches ==
    ASSUME TypeOK, MountedInv, MountedAlone
    PROVE  Fetched(OwnAuth) = IF devRouter.issuer.slash THEN "error" ELSE "keys"
<1>1. /\ devRouter.issuer = [at |-> Own, slash |-> devRouter.issuer.slash]
      /\ devRouter.issuer.slash \in BOOLEAN /\ devRouter.issuer \in Issuer
  BY MountedNamed DEF MountedInv
<1>2. OwnAuth.issuer = Own /\ OwnAuth.inProcess = TRUE
  BY DEF OwnAuth
<1>3. Document(Own, TRUE) = devRouter.issuer /\ devRouter.issuer # None
  BY <1>1, WiringAssumption DEF Document
<1>4. devRouter.issuer.at = Own /\ Own \notin Elsewhere
  BY <1>1, WiringAssumption
<1>5. Served(devRouter.issuer) <=> ~devRouter.issuer.slash
  BY <1>4 DEF Served
<1> QED
  BY <1>1, <1>2, <1>3, <1>4, <1>5 DEF Fetched

LEMMA MountedAsks ==
    ASSUME TypeOK, MountedInv, MountedAlone, NEW header
    PROVE  User("current_user", header, NoCookie) =
             IF header.scheme = "bearer" THEN Validate(OwnAuth, header.token) ELSE Answer(401)
BY DEF User, CurrentUser, SessionPrincipal, NoCookie, MountedInv, MountedAlone

LEMMA MountedTokens ==
    ASSUME TypeOK, MountedInv, MountedAlone, ~devRouter.issuer.slash,
           NEW issuer \in Address, NEW audience \in Audience,
           NEW roles \in SUBSET Word, NEW permissions \in SUBSET Word
    PROVE  Validate(OwnAuth, DevToken(issuer, audience, roles, permissions)) =
             IF issuer = Own /\ audience = devRouter.audience /\ devKey \in Accepted
             THEN [status |-> 200, roles |-> roles, permissions |-> permissions]
             ELSE Answer(401)
<1> DEFINE token == DevToken(issuer, audience, roles, permissions)
<1>1. /\ token.iss = Plain(issuer) /\ token.aud = audience /\ token.key = devKey
      /\ token.roles = List(roles) /\ token.permissions = List(permissions)
  BY DEF DevToken
<1>2. Map(token) = [status |-> 200, roles |-> roles, permissions |-> permissions]
  BY <1>1 DEF Map, List, Elements
<1>3. token \in Token
  <2>1. Plain(issuer) \in Issuer /\ devKey \in DevKeys
    BY DEF Plain, Issuer, TypeOK
  <2>2. List(roles) \in Claim /\ List(permissions) \in Claim
    BY DEF List, Claim
  <2> QED
    BY <2>1, <2>2 DEF DevToken, Token
<1>4. Plain(issuer) = Plain(Own) <=> issuer = Own
  BY DEF Plain
<1>5. KeyAt(Own) = devKey /\ token # Garbage
  BY <1>3, WiringAssumption DEF KeyAt
<1>6. Fetched(OwnAuth) = "keys"
  BY MountedFetches
<1>7. OwnAuth.issuer = Own /\ OwnAuth.audience = devRouter.audience
  BY DEF OwnAuth
<1> HIDE DEF token
<1>8. Validate(OwnAuth, token) =
        IF issuer = Own /\ audience = devRouter.audience /\ devKey \in Accepted
        THEN Map(token) ELSE Answer(401)
  BY <1>1, <1>4, <1>5, <1>6, <1>7 DEF Validate
<1> QED
  BY <1>2, <1>8 DEF token

LEMMA AskAnswers ==
    ASSUME NEW guard, NEW header
    PROVE  LET user == User("current_user", header, NoCookie) IN
           Respond(Ask(guard), header, NoCookie) =
             IF user.status # 200 THEN user.status
             ELSE IF Admits(guard, user) THEN 200 ELSE 403
BY DEF Respond, Guarded, Ask, Admits

LEMMA AssertedAlways == TypeOK /\ MountedInv => ProtectedAsAsserted
<1> SUFFICES ASSUME TypeOK, MountedInv, InService, MountedAlone,
                    NEW guard \in Guard, NEW issuer \in Address, NEW audience \in Audience
             PROVE  Protected(guard, issuer, audience)
                      <=> /\ devRouter.issuer = Plain(issuer) /\ devRouter.audience = audience
                          /\ devKey \in Accepted
  BY DEF ProtectedAsAsserted
<1> DEFINE Role == {w \in Word : guard = [by |-> "role", name |-> w]}
           Permission == {w \in Word : guard = [by |-> "permission", name |-> w]}
           Others == Word \ {guard.name}
           Status(header) == Respond(Ask(guard), header, NoCookie)
           Minted(roles, permissions) == BearerOf(DevToken(issuer, audience, roles, permissions))
           Fits == /\ issuer = Own /\ audience = devRouter.audience /\ devKey \in Accepted
                   /\ ~devRouter.issuer.slash
<1>1. Fits <=> /\ devRouter.issuer = Plain(issuer) /\ devRouter.audience = audience
               /\ devKey \in Accepted
  BY MountedNamed
<1>2. Protected(guard, issuer, audience) <=>
        /\ Status(NoCredential) = 401 /\ Status(BearerOf(Garbage)) = 401
        /\ Status(Minted(Role, Permission)) = 200
        /\ guard.by = "role" => Status(Minted(Others, Word)) = 403
        /\ guard.by = "permission" => Status(Minted(Word, Others)) = 403
  BY DEF Protected, NoCredential, BearerOf
<1>3. Status(NoCredential) = 401
  BY MountedAsks, AskAnswers DEF NoCredential, Answer
<1>4. devRouter.issuer.slash => Status(BearerOf(Garbage)) = 500
  <2>1. devRouter.issuer.slash => Validate(OwnAuth, Garbage) = Answer(500)
    BY MountedFetches DEF Validate
  <2> QED
    BY <2>1, MountedAsks, AskAnswers DEF BearerOf, Answer
<1>5. ~devRouter.issuer.slash => Status(BearerOf(Garbage)) = 401
  <2>1. ~devRouter.issuer.slash => Validate(OwnAuth, Garbage) = Answer(401)
    BY MountedFetches DEF Validate
  <2> QED
    BY <2>1, MountedAsks, AskAnswers DEF BearerOf, Answer
<1>6. ASSUME ~devRouter.issuer.slash, NEW roles \in SUBSET Word, NEW permissions \in SUBSET Word
      PROVE  Status(Minted(roles, permissions)) =
               IF ~Fits THEN 401
               ELSE IF Admits(guard, [status |-> 200, roles |-> roles,
                                      permissions |-> permissions]) THEN 200 ELSE 403
  <2> DEFINE token == DevToken(issuer, audience, roles, permissions)
             user == User("current_user", BearerOf(token), NoCookie)
  <2>1. user = Validate(OwnAuth, token)
    BY MountedAsks DEF BearerOf
  <2>2. user = IF Fits THEN [status |-> 200, roles |-> roles, permissions |-> permissions]
                       ELSE Answer(401)
    BY <1>6, <2>1, MountedTokens
  <2>3. Status(Minted(roles, permissions)) =
          IF user.status # 200 THEN user.status
          ELSE IF Admits(guard, user) THEN 200 ELSE 403
    BY AskAnswers
  <2> HIDE DEF user, Status, Minted, Fits
  <2> QED
    BY <2>2, <2>3 DEF Answer
<1> HIDE DEF Role, Permission, Others, Status, Minted, Fits
<1>7. /\ Role \in SUBSET Word /\ Permission \in SUBSET Word /\ Others \in SUBSET Word
      /\ Word \in SUBSET Word
  BY DEF Role, Permission, Others
<1>8. Protected(guard, issuer, audience) => Fits
  <2>2. CASE devRouter.issuer.slash
    <3>1. Status(BearerOf(Garbage)) # 401
      BY <1>4, <2>2
    <3> QED
      BY <1>2, <3>1
  <2>3. CASE ~devRouter.issuer.slash
    <3>1. ~Fits => Status(Minted(Role, Permission)) = 401
      BY <1>6, <1>7, <2>3
    <3> QED
      BY <1>2, <3>1
  <2> QED
    BY <2>2, <2>3
<1>9. ASSUME Fits
      PROVE  Protected(guard, issuer, audience)
  <2>1. ~devRouter.issuer.slash
    BY <1>9 DEF Fits
  <2>2. ASSUME NEW roles \in SUBSET Word, NEW permissions \in SUBSET Word
        PROVE  Status(Minted(roles, permissions)) =
                 IF Admits(guard, [status |-> 200, roles |-> roles, permissions |-> permissions])
                 THEN 200 ELSE 403
    BY <1>6, <1>9, <2>1
  <2>3. CASE guard = Open
    <3>1. Status(Minted(Role, Permission)) = 200
      BY <1>7, <2>2, <2>3 DEF Admits
    <3>2. guard.by # "role" /\ guard.by # "permission"
      BY <2>3 DEF Open
    <3> QED
      BY <1>2, <1>3, <1>5, <2>1, <3>1, <3>2
  <2>4. ASSUME NEW name \in Word, guard = [by |-> "role", name |-> name]
        PROVE  Protected(guard, issuer, audience)
    <3>1. guard # Open /\ guard.by = "role" /\ guard.name = name
      BY <2>4 DEF Open
    <3>2. name \in Role /\ name \notin Others
      BY <2>4, <3>1 DEF Role, Others
    <3>3. Status(Minted(Role, Permission)) = 200
      BY <1>7, <2>2, <3>1, <3>2 DEF Admits
    <3>4. Status(Minted(Others, Word)) = 403
      BY <1>7, <2>2, <3>1, <3>2 DEF Admits
    <3> QED
      BY <1>2, <1>3, <1>5, <2>1, <3>1, <3>3, <3>4
  <2>5. ASSUME NEW name \in Word, guard = [by |-> "permission", name |-> name]
        PROVE  Protected(guard, issuer, audience)
    <3>1. guard # Open /\ guard.by = "permission" /\ guard.name = name
      BY <2>5 DEF Open
    <3>2. name \in Permission /\ name \notin Others
      BY <2>5, <3>1 DEF Permission, Others
    <3>3. Status(Minted(Role, Permission)) = 200
      BY <1>7, <2>2, <3>1, <3>2 DEF Admits
    <3>4. Status(Minted(Word, Others)) = 403
      BY <1>7, <2>2, <3>1, <3>2 DEF Admits
    <3> QED
      BY <1>2, <1>3, <1>5, <2>1, <3>1, <3>3, <3>4
  <2> QED
    BY <2>3, <2>4, <2>5 DEF Guard
<1> QED
  BY <1>1, <1>8, <1>9

(* On a route of an application that mount_dev alone wired, whatever its   *)
(* guard, assert_protected passes if mount_dev was given the issuer and    *)
(* the audience of the helper's tokens and the key signs with an accepted  *)
(* algorithm, and fails if any of these is not so.                         *)
THEOREM Asserted == Spec => []ProtectedAsAsserted
BY Typing, MountedHolds, AssertedAlways, PTL

(* What mount_dev alone wired accepts what it issues, or does not.         *)
AcceptsExactly ==
    InService /\ MountedAlone =>
        (MountDevAcceptsItsOwn <=> ~devRouter.issuer.slash /\ devKey \in Accepted)

LEMMA AcceptsAlways == TypeOK /\ MountedInv => AcceptsExactly
<1> SUFFICES ASSUME TypeOK, MountedInv, InService, MountedAlone
             PROVE  MountDevAcceptsItsOwn <=> ~devRouter.issuer.slash /\ devKey \in Accepted
  BY DEF AcceptsExactly
<1> DEFINE nobody == {}
           token == [iss |-> devRouter.issuer, aud |-> devRouter.audience, key |-> devKey,
                     roles |-> List(nobody), permissions |-> List(nobody)]
           user == User("current_user", BearerOf(token), NoCookie)
<1>1. MountDevAcceptsItsOwn <=> Respond(Ask(Open), BearerOf(token), NoCookie) = 200
  BY DEF MountDevAcceptsItsOwn, BearerOf
<1>2. Respond(Ask(Open), BearerOf(token), NoCookie) = 200 <=> user.status = 200
  BY AskAnswers DEF Admits
<1>3. user = Validate(OwnAuth, token)
  BY MountedAsks DEF BearerOf
<1>4. CASE devRouter.issuer.slash
  <2>1. Validate(OwnAuth, token) = Answer(500)
    BY <1>4, MountedFetches DEF Validate
  <2> QED
    BY <1>1, <1>2, <1>3, <1>4, <2>1 DEF Answer
<1>5. CASE ~devRouter.issuer.slash
  <2>1. token = DevToken(Own, devRouter.audience, nobody, nobody)
    BY <1>5, MountedNamed DEF DevToken
  <2>2. nobody \in SUBSET Word /\ Own \in Address /\ devRouter.audience \in Audience
    BY DEF Address, MountedInv
  <2> HIDE DEF nobody, token
  <2>3. Validate(OwnAuth, token) =
          IF devKey \in Accepted THEN [status |-> 200, roles |-> nobody, permissions |-> nobody]
                                 ELSE Answer(401)
    BY <1>5, <2>1, <2>2, MountedTokens
  <2> QED
    BY <1>1, <1>2, <1>3, <1>5, <2>3 DEF Answer
<1> QED
  BY <1>4, <1>5, MountedNamed

(* What mount_dev wires accepts what it issues, whatever the application   *)
(* is called, with two exceptions and no third: an issuer that ends with a *)
(* slash, and a key whose algorithm its validator does not accept.         *)
THEOREM MountAccepts ==
    Spec => [](InService /\ MountedAlone =>
                 (MountDevAcceptsItsOwn <=> ~devRouter.issuer.slash /\ devKey \in Accepted))
<1>1. TypeOK /\ MountedInv =>
        (InService /\ MountedAlone =>
           (MountDevAcceptsItsOwn <=> ~devRouter.issuer.slash /\ devKey \in Accepted))
  BY AcceptsAlways DEF AcceptsExactly
<1> QED
  BY <1>1, Typing, MountedHolds, PTL
=============================================================================
