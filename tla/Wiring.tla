------------------------------- MODULE Wiring -------------------------------
(***************************************************************************)
(* An application that uses oidcutils.contrib.fastapi: the calls that wire *)
(* it before it is served, in whatever order its developer makes them, and *)
(* what its protected routes then answer to bearer tokens and to browsers  *)
(* that signed in.  Two routers at one path: the first included answers.   *)
(* Two overrides of one dependency: the last assigned is used.             *)
(*                                                                         *)
(* How a validator caches, retries and times out is module TokenValidator, *)
(* how sessions expire and restarts lose them is module SignIn.            *)
(***************************************************************************)
EXTENDS Naturals

CONSTANTS Own,         \* the address the application answers on
          Mount,       \* the address of an IdP mounted in it: Own, and a path
          Elsewhere,   \* the addresses of providers outside it
          SlashOf,     \* SlashOf[e]: e's name for itself ends with a slash
          Word,        \* names of roles and permissions
          Letters,     \* Letters[w]: the one-letter names in the spelling of w
          Audience,    \* what tokens are for, and validators are told to expect
          Settings,    \* the issuers, with an audience, that somebody wires
          Presented,   \* the tokens callers hold
          Garbage,     \* a bearer credential that is no token
          DevKeys,     \* what dev._signing_key may be in this process
          OtherKey,    \* dev._signing_key of another process, such as oidcutils.mint's
          Accepted,    \* the keys that sign with RS256 or ES256 (resource.py:37)
          MaxCalls,    \* bound on the calls that wire the application
          None

Address == {Own, Mount} \cup Elsewhere

(* An issuer as somebody writes it, with a slash at its end or without.    *)
Issuer == [at : Address, slash : BOOLEAN]
Plain(a) == [at |-> a, slash |-> FALSE]

(* A claim of roles or permissions: a list of names, an object with such   *)
(* keys, a text, not there at all, or something Python cannot iterate.     *)
Claim == [form : {"list", "object", "text", "absent", "null"}, of : SUBSET Word]
Token == [iss : Issuer, aud : Audience, key : Elsewhere \cup DevKeys \cup {OtherKey},
          roles : Claim, permissions : Claim]

ASSUME WiringAssumption ==
    /\ Own # Mount /\ {Own, Mount} \cap Elsewhere = {}
    /\ OtherKey \notin DevKeys /\ (DevKeys \cup {OtherKey}) \cap Elsewhere = {}
    /\ Settings \subseteq [issuer : Issuer, audience : Audience]
    /\ SlashOf \in [Elsewhere -> BOOLEAN] /\ Letters \in [Word -> SUBSET Word]
    /\ Presented \subseteq Token /\ Garbage \notin Token
    /\ MaxCalls \in Nat

(* FastAPIAuth: whose tokens its validator takes and for which audience,   *)
(* and whether its client hands requests to the application itself or      *)
(* sends them over a socket.  The issuer is kept without its slash         *)
(* (resource.py:35).                                                       *)
Auth == [issuer : Address, audience : Audience, inProcess : BOOLEAN]
Validator(setting, inProcess) ==
    [issuer |-> setting.issuer.at, audience |-> setting.audience, inProcess |-> inProcess]

ASSUME NoneAssumption ==
    /\ None \notin Auth /\ None \notin Issuer /\ None \notin Address /\ None \notin Nat

VARIABLES devKey,     \* dev._signing_key, settled before the calls (module DevSigner)
          auth,       \* app.state.auth, or None
          override,   \* dependency_overrides[current_user]: its auth, or None, and
                      \* the token manager of a session_principal, or 0
          stub,       \* the auth bound to a dependency of the application's own, or None
          devRouter,  \* the first create_dev_router: its issuer, or None, its
                      \* audience, and whether it offers personas
          devIdp,     \* the issuer of the mounted create_dev_idp, or None
          signIn,     \* the first create_auth_router: its client's issuer, or None, the
                      \* client's way to it, and the number of its token manager
          managers,   \* the token managers made so far, one per auth router
          calls,      \* the calls made so far
          phase,      \* "building", then "listening" on a port or "called" in process
          cookie      \* what the browser holds: a manager's session, and its token

wiring == <<auth, override, stub, devRouter, devIdp, signIn, managers>>
vars == <<wiring, devKey, calls, phase, cookie>>

NoCookie == [manager |-> 0, token |-> Garbage]

Init ==
    /\ devKey \in DevKeys
    /\ auth = None /\ override = [auth |-> None, manager |-> 0] /\ stub = None
    /\ devRouter = [issuer |-> None, audience |-> None, personas |-> FALSE] /\ devIdp = None
    /\ signIn = [issuer |-> None, inProcess |-> FALSE, manager |-> 0] /\ managers = 0
    /\ calls = 0 /\ phase = "building" /\ cookie = NoCookie
-----------------------------------------------------------------------------
(* The calls.                                                              *)
Calling == /\ phase = "building" /\ calls < MaxCalls
           /\ calls' = calls + 1
           /\ UNCHANGED <<devKey, phase, cookie>>

(* Routes are tried in the order of their inclusion.                       *)
IncludeDevRouter(setting, personas) ==
    devRouter' = IF devRouter.issuer # None THEN devRouter
                 ELSE [issuer |-> setting.issuer, audience |-> setting.audience,
                       personas |-> personas]

(* Bug: the router included last answers.                                  *)
IncludeLastAuthRouter(address, inProcess) ==
    /\ managers' = managers + 1
    /\ signIn' = [issuer |-> address, inProcess |-> inProcess, manager |-> managers + 1]

(* create_auth_router makes a token manager of its own.                    *)
IncludeAuthRouter(address, inProcess) ==
    /\ managers' = managers + 1
    /\ signIn' = IF managers = 0
                 THEN [issuer |-> address, inProcess |-> inProcess, manager |-> 1]
                 ELSE signIn

(* app.state.auth = FastAPIAuth(...), or from_settings, or configure.      *)
Configure(setting) ==
    /\ Calling
    /\ auth' = Validator(setting, FALSE)
    /\ UNCHANGED <<override, stub, devRouter, devIdp, signIn, managers>>

(* configure under OIDC_BYPASS, that is configure_dev.  OIDC_ISSUER, where *)
(* it is not empty, may well name somebody else.                           *)
ConfigureDev(setting) ==
    /\ Calling
    /\ IncludeDevRouter(setting, FALSE)
    /\ auth' = Validator(setting, FALSE)
    /\ UNCHANGED <<override, stub, devIdp, signIn, managers>>

(* Bugs: a token manager other than the router's; and a client that looks  *)
(* for the issuer on the network.                                          *)
MountDevOtherManager(setting, personas) ==
    /\ setting.issuer.at = Own /\ Calling
    /\ IncludeDevRouter(setting, personas)
    /\ IncludeAuthRouter(Own, TRUE)
    /\ auth' = Validator(setting, TRUE)
    /\ override' = [auth |-> auth', manager |-> managers + 2]
    /\ UNCHANGED <<stub, devIdp>>

MountDevOverNetwork(setting, personas) ==
    /\ setting.issuer.at = Own /\ Calling
    /\ IncludeDevRouter(setting, personas)
    /\ IncludeAuthRouter(Own, FALSE)
    /\ auth' = Validator(setting, FALSE)
    /\ override' = [auth |-> auth', manager |-> managers']
    /\ UNCHANGED <<stub, devIdp>>

(* FastAPIAuth.mount_dev, given the address the application answers on.    *)
MountDev(setting, personas) ==
    /\ setting.issuer.at = Own /\ Calling
    /\ IncludeDevRouter(setting, personas)
    /\ IncludeAuthRouter(Own, TRUE)
    /\ auth' = Validator(setting, TRUE)
    /\ override' = [auth |-> auth', manager |-> managers']
    /\ UNCHANGED <<stub, devIdp>>

(* app.mount("/idp", create_dev_idp(...)); it signs no browser in, so its  *)
(* audience is only that of tokens callers hold.                           *)
MountIdp(slash) ==
    /\ Calling
    /\ devIdp' = IF devIdp = None THEN [at |-> Mount, slash |-> slash] ELSE devIdp
    /\ UNCHANGED <<auth, override, stub, devRouter, signIn, managers>>

(* app.state.auth = dev_auth(app, ...)                                     *)
DevAuth(audience) ==
    /\ Calling
    /\ auth' = [issuer |-> Mount, audience |-> audience, inProcess |-> TRUE]
    /\ UNCHANGED <<override, stub, devRouter, devIdp, signIn, managers>>

(* app.include_router(create_auth_router(OIDCClient(...)))                 *)
AddSignIn(address) ==
    /\ Calling
    /\ IncludeAuthRouter(address, FALSE)
    /\ UNCHANGED <<auth, override, stub, devRouter, devIdp>>

(* examples/combined.py wires its resource server so.                      *)
CombinedExample(setting) ==
    /\ setting.issuer.at \in Elsewhere /\ Calling
    /\ auth' = Validator(setting, FALSE)
    /\ IncludeAuthRouter(setting.issuer.at, FALSE)
    /\ UNCHANGED <<override, stub, devRouter, devIdp>>

(* The join: session_principal with the token manager of the router that   *)
(* was made last.                                                          *)
Join ==
    /\ auth # None /\ managers > 0 /\ Calling
    /\ override' = [auth |-> auth, manager |-> managers]
    /\ UNCHANGED <<auth, stub, devRouter, devIdp, signIn, managers>>

(* app.dependency_overrides[current_user] = auth.get_principal             *)
OverrideBearer ==
    /\ auth # None /\ Calling
    /\ override' = [auth |-> auth, manager |-> 0]
    /\ UNCHANGED <<auth, stub, devRouter, devIdp, signIn, managers>>

(* The pattern of an application's own dependency, overridden.             *)
BindStub(setting) ==
    /\ Calling
    /\ stub' = Validator(setting, FALSE)
    /\ UNCHANGED <<auth, override, devRouter, devIdp, signIn, managers>>

Serve ==
    /\ phase = "building" /\ phase' \in {"listening", "called"}
    /\ UNCHANGED <<wiring, devKey, calls, cookie>>
-----------------------------------------------------------------------------
(* Requests.                                                               *)

(* What discovery answers at an address: the name its provider goes by.    *)
Document(address, inProcess) ==
    IF address \in Elsewhere
    THEN [at |-> address, slash |-> SlashOf[address]]
    ELSE IF ~inProcess /\ phase # "listening" THEN None
         ELSE IF address = Own THEN devRouter.issuer ELSE devIdp

(* A development provider appends its paths to its name, slash or not, and *)
(* serves no path with two.                                                *)
Served(document) == document.at \in Elsewhere \/ ~document.slash

(* TokenValidator on its first call: the keys, a TokenError for another    *)
(* issuer's document, or an error of httpx.                                *)
Fetched(a) ==
    LET document == Document(a.issuer, a.inProcess) IN
    IF document = None THEN "error"
    ELSE IF document.at # a.issuer THEN "mismatch"
    ELSE IF Served(document) THEN "keys" ELSE "error"

KeyAt(address) == IF address \in Elsewhere THEN address ELSE devKey

Answer(status) == [status |-> status, roles |-> {}, permissions |-> {}]

(* frozenset(claims.get(name, []))                                         *)
Elements(claim) ==
    IF claim.form = "absent" THEN {}
    ELSE IF claim.form = "text" THEN UNION {Letters[w] : w \in claim.of}
    ELSE claim.of

(* Bug: the two claims confused.                                           *)
MapSwapped(token) ==
    IF token.roles.form = "null" \/ token.permissions.form = "null" THEN Answer(500)
    ELSE [status |-> 200, roles |-> Elements(token.permissions),
          permissions |-> Elements(token.roles)]

(* DefaultClaimMapper.map, as far as the guards look at a Principal.       *)
Map(token) ==
    IF token.roles.form = "null" \/ token.permissions.form = "null" THEN Answer(500)
    ELSE [status |-> 200, roles |-> Elements(token.roles),
          permissions |-> Elements(token.permissions)]

(* get_principal once there is a credential: keys first, then the token's  *)
(* signature and algorithm, then its claims.                               *)
Validate(a, token) ==
    LET fetched == Fetched(a) IN
    IF fetched = "error" THEN Answer(500)
    ELSE IF \/ fetched = "mismatch" \/ token = Garbage
            \/ token.key # KeyAt(a.issuer) \/ token.key \notin Accepted
            \/ token.iss # Plain(a.issuer) \/ token.aud # a.audience
         THEN Answer(401)
         ELSE Map(token)

(* An Authorization header: absent, of another scheme, or a bearer's.      *)
Header == [scheme : {"none", "other"}, token : {Garbage}]
          \cup [scheme : {"bearer"}, token : Presented \cup {Garbage}]

(* FastAPIAuth.get_principal as a dependency, with HTTPBearer before it.   *)
GetPrincipal(a, header) ==
    IF header.scheme = "bearer" THEN Validate(a, header.token) ELSE Answer(401)

(* Bug: the cookie is looked at first.                                     *)
SessionPrincipalCookieFirst(header, jar) ==
    IF jar.manager # 0 /\ jar.manager = override.manager
    THEN Validate(override.auth, jar.token)
    ELSE IF header.scheme = "bearer" THEN Validate(override.auth, header.token)
    ELSE Answer(401)

(* session_principal's dependency.                                         *)
SessionPrincipal(header, jar) ==
    IF header.scheme = "bearer" THEN Validate(override.auth, header.token)
    ELSE IF jar.manager # 0 /\ jar.manager = override.manager
         THEN Validate(override.auth, jar.token)
         ELSE Answer(401)

(* Bug: an application without auth serves everybody.                      *)
CurrentUserAnonymous(header, jar) ==
    IF override.manager # 0 THEN SessionPrincipal(header, jar)
    ELSE IF override.auth # None THEN GetPrincipal(override.auth, header)
    ELSE IF auth = None THEN Answer(200) ELSE GetPrincipal(auth, header)

(* current_user, or what overrides it.                                     *)
CurrentUser(header, jar) ==
    IF override.manager # 0 THEN SessionPrincipal(header, jar)
    ELSE IF override.auth # None THEN GetPrincipal(override.auth, header)
    ELSE IF auth = None THEN Answer(500) ELSE GetPrincipal(auth, header)

(* A route asks for its caller through current_user or through the         *)
(* application's own dependency, and may have a guard.  A guard asks for   *)
(* the caller itself: through current_user, unless it is told otherwise    *)
(* (user_dependency), and whatever the route does.                         *)
Open == [by |-> "nobody", name |-> None]
Guard == {Open} \cup [by : {"role", "permission"}, name : Word]
Dependency == {"current_user", "stub"}
Route == [user : Dependency, guard : Guard, guardUser : Dependency]

User(dependency, header, jar) ==
    IF dependency = "current_user" THEN CurrentUser(header, jar)
    ELSE IF stub = None THEN Answer(500) ELSE GetPrincipal(stub, header)

Admits(guard, principal) ==
    \/ guard = Open
    \/ guard.by = "role" /\ guard.name \in principal.roles
    \/ guard.by = "permission" /\ guard.name \in principal.permissions

(* require_role and require_permission, after the dependency they build on.*)
Guarded(route, header, jar) ==
    LET user == User(route.guardUser, header, jar) IN
    IF route.guard = Open THEN 200
    ELSE IF user.status # 200 THEN user.status
    ELSE IF Admits(route.guard, user) THEN 200 ELSE 403

(* The guard first, as FastAPI resolves the "dependencies" of a decorator, *)
(* then the route's own caller.                                            *)
Respond(route, header, jar) ==
    LET guarded == Guarded(route, header, jar) IN
    IF guarded # 200 THEN guarded ELSE User(route.user, header, jar).status
-----------------------------------------------------------------------------
(* The login of a browser, as far as it gets: the pages of the provider    *)
(* that signIn's client discovers, and a token from it.                    *)
IssuedAt(address, token) ==
    LET document == Document(address, signIn.inProcess) IN
    /\ document # None /\ Served(document) /\ document.at = address
    /\ token.iss = document /\ token.key = KeyAt(address)
    /\ address \notin Elsewhere =>
         /\ address = Own /\ devRouter.personas /\ token.aud = devRouter.audience
         /\ token.roles.form = "list" /\ token.permissions.form = "list"

BrowserSignsIn(token) ==
    /\ phase # "building" /\ signIn.issuer # None
    /\ IssuedAt(signIn.issuer, token)
    /\ cookie' = [manager |-> signIn.manager, token |-> token]
    /\ UNCHANGED <<wiring, devKey, calls, phase>>

Next ==
    \/ \E s \in Settings : Configure(s) \/ CombinedExample(s) \/ BindStub(s)
    \/ \E s \in Settings : s.issuer.at # Mount /\ ConfigureDev(s)
    \/ \E s \in Settings, personas \in BOOLEAN : MountDev(s, personas)
    \/ \E a \in Address : AddSignIn(a)
    \/ \E slash \in BOOLEAN : MountIdp(slash)
    \/ \E audience \in Audience : DevAuth(audience)
    \/ Join \/ OverrideBearer \/ Serve
    \/ \E token \in Presented : BrowserSignsIn(token)

Spec == Init /\ [][Next]_vars
-----------------------------------------------------------------------------
DevRouter == [issuer : Issuer \cup {None}, audience : Audience \cup {None}, personas : BOOLEAN]

(* Every variable has its type; sign-ins are those of the first router, if *)
(* there is any, and sessions are kept by its token manager.               *)
TypeOK ==
    /\ devKey \in DevKeys
    /\ auth \in Auth \cup {None} /\ stub \in Auth \cup {None}
    /\ override \in [auth : Auth \cup {None}, manager : Nat]
    /\ devRouter \in DevRouter
    /\ devIdp \in Issuer \cup {None}
    /\ signIn \in [issuer : Address \cup {None}, inProcess : BOOLEAN, manager : {0, 1}]
    /\ managers \in Nat /\ calls \in 0..MaxCalls
    /\ phase \in {"building", "listening", "called"}
    /\ cookie \in [manager : {0, 1}, token : Presented \cup {Garbage}]
    /\ override.manager <= managers /\ cookie.manager <= managers
    /\ override.manager > 0 => override.auth # None
    /\ managers > 0 <=> signIn.manager = 1
    /\ managers > 0 <=> signIn.issuer # None
    /\ cookie.manager = 0 => cookie = NoCookie

InService == phase # "building"
Jar == {NoCookie, cookie}

(* The auth that a dependency was last bound to.                           *)
Bound(user) == IF user = "stub" THEN stub
               ELSE IF override.auth # None THEN override.auth ELSE auth

(* The credential a request rests on.                                      *)
Shown(header, jar) == IF header.scheme = "bearer" THEN header.token ELSE jar.token

VouchedFor(a, token) ==
    /\ token # Garbage /\ token.iss.at = a.issuer /\ token.aud = a.audience
    /\ token.key = KeyAt(a.issuer)

(* The dependencies a route relies on: its own, and its guard's.           *)
Relied(route) == {route.user} \cup (IF route.guard = Open THEN {} ELSE {route.guardUser})

(* Whatever was wired and in whichever order, nobody is served without a   *)
(* token of the issuer and for the audience that the route's dependency is *)
(* bound to, and of its guard's, where those differ (fastapi.py:197); a    *)
(* route that relies on a dependency bound to nothing serves nobody, and   *)
(* fails every request if it relies on no other: "Returning an anonymous   *)
(* principal instead would let an unwired app serve protected routes"      *)
(* (fastapi.py:182-183, docs/guide/fastapi-integration.md:109-113).        *)
FailsClosed ==
    InService =>
        \A route \in Route, header \in Header, jar \in Jar :
            LET status == Respond(route, header, jar) IN
            /\ status = 200 =>
                 \A user \in Relied(route) :
                     Bound(user) # None /\ VouchedFor(Bound(user), Shown(header, jar))
            /\ (\A user \in Relied(route) : Bound(user) = None) => status = 500

(* A role is only granted by a list, or an object, that holds it, or, as   *)
(* claims.py:31 iterates whatever the claim is, by a text if its name is   *)
(* one letter that occurs there: no other claim, no other role and no      *)
(* permission adds to it.  Who presents a claim that cannot be iterated is *)
(* not served at all.                                                      *)
GrantedOnlyIfListed ==
    InService =>
        \A route \in Route, header \in Header, jar \in Jar :
            Respond(route, header, jar) = 200 =>
                LET claim == Shown(header, jar).roles
                    name == route.guard.name
                IN  /\ claim.form # "null" /\ Shown(header, jar).permissions.form # "null"
                    /\ route.guard.by = "role" =>
                         \/ claim.form \in {"list", "object"} /\ name \in claim.of
                         \/ claim.form = "text" /\ \E w \in claim.of : name \in Letters[w]

(* "Both styles work at once" (docs/guide/connecting-an-idp.md:125-127): a *)
(* script's token gets one answer whether or not a cookie comes with it,   *)
(* and whether or not browsers sign in at this application at all.         *)
BearerServedAlike ==
    InService =>
        \A route \in Route, header \in Header :
            header.scheme = "bearer" =>
                /\ Respond(route, header, cookie) = Respond(route, header, NoCookie)
                /\ Bound(route.user) # None /\ route.guard = Open =>
                     Respond(route, header, cookie)
                         = Validate(Bound(route.user), header.token).status

(* A route behind current_user, as its guard is.                           *)
Ask(guard) == [user |-> "current_user", guard |-> guard, guardUser |-> "current_user"]

(* A browser that signed in is served by the routes behind current_user    *)
(* where the join is in place: README.md's "a browser holding the cookie   *)
(* and a script sending a bearer header both resolve to a Principal".      *)
(* Join and login must concern one issuer, one auth router and one way to  *)
(* reach the issuer, the issuer's name have no slash at its end, and its   *)
(* tokens the validator's audience and an algorithm it accepts; a later    *)
(* override of current_user (README.md:311) undoes the join.               *)
SignedInServed ==
    /\ InService /\ cookie # NoCookie
    /\ override.manager # 0 /\ managers = 1
    /\ override.auth.issuer = signIn.issuer
    /\ signIn.inProcess => override.auth.inProcess
    /\ ~cookie.token.iss.slash
    /\ cookie.token.aud = override.auth.audience /\ cookie.token.key \in Accepted
    /\ Map(cookie.token).status = 200
    => \A header \in Header :
           header.scheme # "bearer" => Respond(Ask(Open), header, cookie) = 200

(* The tokens of testing.dev_token and of oidcutils.mint, for an issuer    *)
(* without a slash and an audience.                                        *)
List(names) == [form |-> "list", of |-> names]
DevToken(issuer, audience, roles, permissions) ==
    [iss |-> Plain(issuer), aud |-> audience, key |-> devKey,
     roles |-> List(roles), permissions |-> List(permissions)]
CommandToken(issuer, audience, roles, permissions) ==
    [iss |-> Plain(issuer), aud |-> audience, key |-> OtherKey,
     roles |-> List(roles), permissions |-> List(permissions)]

(* testing.assert_protected, of a route with this guard.  Its tokens are   *)
(* of DEFAULT_ISSUER and for DEFAULT_AUDIENCE, which it gives no way to    *)
(* change (testing.py:30-31, 93).                                          *)
Protected(guard, issuer, audience) ==
    LET Status(header) == Respond(Ask(guard), header, NoCookie)
        Minted(roles, permissions) ==
            [scheme |-> "bearer", token |-> DevToken(issuer, audience, roles, permissions)]
        required(by) == {w \in Word : guard = [by |-> by, name |-> w]}
        Others == Word \ {guard.name}
    IN  /\ Status([scheme |-> "none", token |-> Garbage]) = 401
        /\ Status([scheme |-> "bearer", token |-> Garbage]) = 401
        /\ Status(Minted(required("role"), required("permission"))) = 200
        /\ guard.by = "role" => Status(Minted(Others, Word)) = 403
        /\ guard.by = "permission" => Status(Minted(Word, Others)) = 403

(* mount_dev and nothing else.                                             *)
MountedAlone == calls = 1 /\ override.manager # 0

(* Of an application that mount_dev alone has wired, behind a port or a    *)
(* test client, assert_protected (testing.py:65-109) passes on a route,    *)
(* whatever its guard, exactly if mount_dev was given the very issuer and  *)
(* audience that the helper's tokens are minted with, no slash, and the    *)
(* process signs with an algorithm that validators accept by default.      *)
(* Which address and audience the helper's are, "issuer" and "audience"    *)
(* here, is for no caller to say.                                          *)
ProtectedAsAsserted ==
    InService /\ MountedAlone =>
        \A guard \in Guard, issuer \in Address, audience \in Audience :
            Protected(guard, issuer, audience)
                <=> /\ devRouter.issuer = Plain(issuer) /\ devRouter.audience = audience
                    /\ devKey \in Accepted

(* mount_dev's docstring (fastapi.py:96-99): "the provider that issues     *)
(* tokens, ... and a validator that accepts what comes out of it".         *)
MountDevAcceptsItsOwn ==
    InService /\ MountedAlone =>
        LET token == [iss |-> devRouter.issuer, aud |-> devRouter.audience, key |-> devKey,
                      roles |-> List({}), permissions |-> List({})]
        IN  Respond(Ask(Open), [scheme |-> "bearer", token |-> token], NoCookie) = 200
=============================================================================
