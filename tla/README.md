# A TLA+ model of oidcutils

`oidcutils` gives a Python web application its OpenID Connect side: a resource
server that validates bearer tokens, a client that signs browsers in and keeps
their sessions, and a development provider that stands in for a real one. The
modules here model the parts that keep state across an `await`, a request or a
restart. Paths such as `resource.py` are below `src/oidcutils/`; `fastapi.py` is
`src/oidcutils/contrib/fastapi.py`.

## Inventory

| Component | State | Operations | Hard behaviour | What makes it correct |
| --- | --- | --- | --- | --- |
| `TokenValidator` (`resource.py`) | `_jwks`, `_jwks_uri`, shared by the coroutines of one loop | `validate_token`, `_get_keyset`, `_ensure_jwks_uri` | calls suspended over the same fetch, keys rotated meanwhile, answers out of order, a wrong issuer's discovery document, unusable bodies | accepts only what the issuer's keys vouch for; a rotation refuses nobody; one retry; ends |
| `TokenManager`, `TokenStore` (`tokens.py`) | the store, one token set per session key | `store_token`, `get_access_token`, `clear` | concurrent refreshes against a rotating provider, sign-out during a refresh, lost answers | sessions do not mix; refresh tokens are kept, and sent once |
| `OIDCClient` (`client.py`) | `_metadata` | `authorization_url`, `exchange_code`, `refresh` | an error that looks like a token | an error becomes `GrantError` |
| Browser sign-in (`fastapi.py`: `create_auth_router`, `session_principal`) | `_pending_states` per process, sessions in the store, a cookie per browser | `/login`, `/callback`, a protected route | callbacks repeated and overlapping, several workers, restarts, a store that fails before or after it has written | a code is exchanged once; a cookie names a session; a state is refused for a reason |
| Development provider in the application (`fastapi.py`: `create_dev_router`; `dev.py`) | `_codes` | authorize, token, `issue_code`, `redeem_code` | codes expire, are repeated | what is granted had a code in date, and the code is gone |
| Development signing key (`dev.py`) | `_signing_key`, `_alg` | `load_signing_key`, `use_signing_key`, `mint_token`, `public_jwks` | two globals, read by threads; restarts; keys that load and cannot sign | key and algorithm agree; published keys verify minted tokens |
| `idp.main`, `idp.serve` (`idp.py`) | a threading HTTP server | the command line, GET, POST | kept-alive connections, bodies whose length is wrong, clients that close, three ways to name a key | requests stay in step; the named key signs |
| `FastAPIAuth`, guards, `mount_dev` (`fastapi.py`) | `app.state.auth`, dependency overrides, routers in their order | `configure`, `mount_dev`, `create_dev_idp`, `dev_auth`, `session_principal`, `get_principal`, `current_user`, `require_*` | the order of the calls, two issuers, two routers, a provider inside the application, a guard bound to another caller than its route | nobody is served without a token of the bound issuer and for its audience; whoever signed in is served |
| Claims, principal (`claims.py`, `principal.py`) | none | `map`, `has_role`, `has_permission` | claims that are no lists | grants what the claim lists |
| `mint.py`, `testing.py` | none | the minting command, `dev_token`, `assert_protected` | whose key signs, for which issuer and audience | the assertions hold where `mount_dev` was given the helper's issuer and audience |
| `examples/combined.py` | `_pending_codes` | a provider, an API without the join | codes that never expire, sessions nobody reads | as browser sign-in |

They interact as follows. A protected route calls either `TokenValidator`
directly (bearer header) or `TokenManager.get_access_token` first (session
cookie). `TokenManager` calls `OIDCClient.refresh`; `/callback` calls
`OIDCClient.exchange_code` and `TokenManager.store_token`. Under `mount_dev` the
client and the validator reach the development provider inside the same process.
All of it runs on one event loop per worker process, except `idp.serve`, which
answers each connection on a thread.

## Modules

| Module | Models | Correspondence |
| --- | --- | --- |
| `Tokens` | the vocabulary of tokens, JWKS documents and joserfc's errors | a document is the set of keys it lists; `Errors(tok, doc, t)` is what the `try` block of `validate_token` may raise |
| `TokenCheck` | abstract specification of `validate_token` | no cache, no discovery, no retry |
| `TokenValidator` | `resource.py` | a step runs from one `await` to the next: `Begin` to the first fetch or the answer, `ResumeDiscovery`, `ResumeKeys`, `FetchFails`; `ServeDiscovery`, `ServeKeys`, `Publish` are the provider |
| `Sessions` | abstract specification of `TokenManager` under a lock | a store of sessions in which a refresh, or the loss of its answer, is one step |
| `TokenManager` | `tokens.py`, and `refresh` and `_to_token_set` of `client.py` | `Lookup`, `Settle`, `AskRefresh`, `StoreRefreshed`, `RefreshFails` and `Refuse` are the stretches of `get_access_token`; `Grant`/`Refuse` the token endpoint; `Taken` maps the provider to `Sessions`: until a call stores what it was granted, the provider counts as not moved |
| `BrowserLogin` | abstract specification of the browser login | one stage per login, whatever the number of workers and callbacks; storing the session and handing out its cookie are two |
| `SignIn` | the login routes, `session_principal`, and the authorize and token routes of the development provider or of `examples/combined.py` | one action per route or stretch of it, per worker; `/callback` is `Callback`, `Redeem`, `SessionStored` and `CookieSet`, with a failure (`CallbackFails`) or a `Restart` between any two of them; a state, a code and a session id are random and known by their login; `deployment` says where the provider and the store are; `Stage` and `Held` map it to `BrowserLogin` |
| `Signing` | abstract specification of the signing key | one signer per process, read and replaced as a whole |
| `DevSigner` | `dev.py`'s signing key, the command line and `serve` | each read and write of the two globals is a step of its own; `installation` says which keys are named and how, `Passed` what `main` and `serve` hand on; `Active` and `Given` map it to `Signing` |
| `KeepAlive` | one connection of `idp.py`'s handler | `DoGet`, `PostElsewhere` and `PostToken` are `do_GET` and `do_POST` up to the answer or the read in `_body`, `ReadBody` the rest; `ReadToEnd` and `ReadPast` are the read of a length that the body does not have; `Misread` is http.server taking a body for a request, `Close` its end after the client's |
| `Wiring` | `fastapi.py`'s wiring and guards, `claims.py`, `principal.py`, `testing.py`, `mint.py`, the example's API | an action per call an application makes while it is built; once it is in service, `Respond` is what a route answers: `User` the dependency, `Validate` `get_principal`, `Map` the mapper, `Admits` the guards, which run first and on a dependency of their own (`guardUser`); `Fetched` is the validator's first contact with its issuer |
| `MC*` | values of the constants for TLC | |
| `*Proofs` | theorems about the module they are named after | |

Operators whose comment begins with "Bug:" are deliberate distortions of the
definition that follows them. No specification uses them; they serve to
confirm that each property notices a fault of the kind it is meant for.

## Runs

Check a run with `tlc -workers 2 -config X.cfg M`.

| Run | What it asks | Bounds |
| --- | --- | --- |
| `validator` (`TokenValidator.cfg`) | acceptance, refusal, refetching, how often a call may ask (`CallsRunDown`), termination, and `ImplementsTokenCheck` | two calls, two documents over three keys (one added, one withdrawn, one re-used kid), five tokens, two instants |
| `sessions` (`TokenManager.cfg`) | sessions never mix, refresh tokens are kept, without any lock | two sessions, two calls, two sign-ins, one rotation; sessions and calls are symmetric |
| `sessions_locked` (`TokenManagerLocked.cfg`) | no replay, sign-out holds, termination, and `ImplementsSessions`, when the caller holds a lock around every operation on a session. README.md:171-174 advises one around `get_access_token` alone; this lock is wider, since sign-ins and sign-outs take it too | two sessions, two calls, two sign-ins, two rotations, three instants: a refresh can be due, be refreshed and be due again |
| `sign_in` (`SignIn.cfg`) | repeated callbacks, expiring codes (`CodeUsedUp`), failures and restarts between any two steps, and `ImplementsBrowserLogin` | two logins, two requests, two workers behind one balancer; a provider mounted in each worker, elsewhere (the only one whose refreshes are granted), or the example's, whose API never reads a session; a store per worker, or a shared one; workers, logins and requests are symmetric |
| `dev_signer` (`DevSigner.cfg`) | only a key that cannot sign fails to (`SignsIfKeyCan`), tokens survive a restart, and `ImplementsSigning` | JWK, PEM and JWK set; keys on P-256, P-384, P-521 and secp256k1, RSA, symmetric and public ones, and sets that begin with either kind; named to `serve`, on the command line or in the environment, alone or beside another; three processes in a row, two threads |
| `wiring` (`Wiring.cfg`) | who is served by an application wired in any way | three calls, enough for a mount, a second router and an override in every order; five settings (the application's own issuer with a slash, without, and for a second audience; two providers outside, one of which ends its name with a slash); a development key whose algorithm validators accept and one they do not; 15 tokens, among them one of each issuer, key and audience and claims of every form; a role of one letter that occurs in another |
| `keep_alive` (`KeepAlive.cfg`) | requests on one connection are answered as if alone, it stays open, client and handler never wait for each other, every request is answered or its connection closed, and the handler ends after its client | three requests from nineteen kinds (five bodies; lengths right, absent, no number, too small, too large, negative); the second meets what the first left, the third what both did; the client may close after any of them |

Two concurrent calls are enough for every interleaving the code knows: calls
interact only through the cache or the store, and one of them can always play
"everybody else". Two documents contain all three things a rotation does to a
kid. Expiry is compared with the clock, so instants before and after suffice.

Five further runs end in a counterexample; each checks one sentence of the
repository that the code does not keep:

| Run | Sentence | What happens |
| --- | --- | --- |
| `poisoned_cache` | README.md:24, cached keys do not take the service down | `resource.py:69` caches a body before line 70 tries to import it, and an import error is not one that is retried |
| `clear_during_refresh` | tests/test_tokens.py:126-133, a cleared key holds nothing | `tokens.py:76` stores a late refresh whatever happened meanwhile |
| `stale_session` | fastapi.py:346-347 and 453, a stale session means "sign in again", and the development provider issues no refresh tokens | `dev.py:149` issues one, its refresh is refused, and the `GrantError` is not caught |
| `signing_key` | README.md:288-290, local-dev.md:290-302, `--signing-key` lets tokens survive a restart and wins over the variable | `idp.py:174` calls `serve` without it; line 181 then even withholds the warning about an ephemeral key |
| `mount_dev` | fastapi.py:96-99, a validator that accepts what the provider issues | given an issuer with a slash at its end, the provider keeps the slash and the validator strips it (`resource.py:35`): the `jwks_uri` has two slashes and no route, and every token is answered with a server error. The run has one key, on P-256, so that the other obstacle, an algorithm the validator does not accept, plays no part |

Disagreements noted without a run, each with its place in a module:

- `load_signing_key` takes the first key of a set and not the "first signing key"
  (`dev.py:57`, line 68), and also a single key on secp256k1 or a public one; such a key
  loads, and every later mint fails, although "the key already says which it is"
  (`dev.py:39-41`). `MCSource` names such keys in every form that can carry them;
  `SignsIfKeyCan` says that only they fail.
- `assert_protected` mints for `http://localhost:8000` and the audience `dev`
  (`testing.py:30-31`, 93) and can be told no other, so on the application of
  tests/test_dev_login.py:24-25 or of local-dev.md:238 its third assertion fails although
  the route is protected. `ProtectedAsAsserted` is an equivalence and says when it passes.
- A validator accepts RS256 and ES256 by default (`resource.py:37`) and `mount_dev` does
  not widen that, so a development key on P-384 or P-521 signs tokens that the validator
  it binds refuses. `Accepted` is that list; the theorem `MountAccepts` names it as the
  second of two obstacles.
- `idp.py:103-106` reads as many bytes as `Content-Length` says. Too large a number takes in
  the requests that follow, or waits; a negative one waits for the end of the stream.
  `Overlong` names these lengths and `Astray` the exception the properties of `KeepAlive`
  make for them; that such a wait ends with the client's is part of
  `EveryRequestAnswered`.
- README.md:311, local-dev.md:239 and `fastapi.py:111` override `current_user` after
  `mount_dev` and so undo the session binding `mount_dev` just made
  (`fastapi.py:139-145`). `OverrideBearer` is that line; `SignedInServed` asks that
  the join is in place.
- `idp.py:77-79` answers an unknown POST without reading its body, although the
  connection is kept alive (`idp.py:61-64`, 112): the next request on it is misread.
  The properties of `KeepAlive` name it as their exception (`Unread`).
- README.md:259-261 has a shared store make two workers work, but `_pending_states`
  (`fastapi.py:259`) stays per process. `StateRefusedOnlyIfSpent` has it as one of
  the three reasons for a refusal.
- token-validation.md:45-48 speaks of a single refresh per new `kid`; concurrent
  calls each refetch, since `_get_keyset` has no single flight, and so does an
  undecodable token (`resource.py:86-98`). `RefetchOnlyForKeyTrouble` states the
  causes that remain, and `CallsRunDown` the bound: a call asks for keys at most
  twice, whatever others do to the cache they share.
- local-dev.md:115-117 has `configure` under `OIDC_BYPASS` point the validator at the
  routes it mounts; `fastapi.py:562` gives it the issuer's name and no transport, so
  it asks over the network, and asks another provider if `OIDC_ISSUER` names one.

## Fairness

`TokenValidator` and `TokenManager` assume weak fairness of each call's
`Progress`: an httpx request ends, at the latest by its default timeout, and the
event loop resumes a coroutine whose request has ended. Nothing is assumed of
new calls, sign-ins, rotations or the clock. `KeepAlive` assumes that the thread
of a connection goes on while there is something to read, and that a client
sends the bodies it announced; a body is only sure to be misread once a further
head follows or the client closes, since http.server waits for a line break, and a read
of more than a body is only sure to end with the stream: what follows may not fill it
(`ReadPast` is under no fairness). Nothing makes a client close. `SignIn`, `DevSigner` and
`Wiring` state safety only: a browser, a developer and a caller may stop at any
point.

`DevSigner` may stop: a process whose key does not load ends, and the fresh keys
of the instance run out, so its run does not look for deadlock. Neither does that of
`KeepAlive`, whose connection closes or is done with its requests, nor that of
`Wiring`, whose application is in service once it is built. In the other
runs the system can always take a step.

## Proofs

TLAPS proves the following for every value of the constants, from the named
assumptions of the modules alone. They are about values the code cannot confuse (a
path is not `None`, a P-256 key is what `ECKey.generate_key` returns) and never
about the order of events.

`TokenValidatorProofs`. `Typing` (`TypeOK`) comes first, by one step per action.
`Vouched` and `FreshRefusal` need more than themselves: the inductive invariant
`SafetyInv` also says what a suspended call carries. Every cached document and
every reply that came from the home issuer holds only published keys, and a
reply that lacks the key of its call is a reason for `missing` to be set, because
it was published at some moment of that call. The lemma `DecideOutcome` states
once what deciding a token against such a document may answer, and the actions
that decide (`Begin` with a warm cache, `ResumeKeys`) cite it. `Implements` is the
refinement of `TokenCheck`: `CheckInit` maps the initial state, `CheckStep` each
step to an entry, an answer or a stutter, where the step that answers knows its
justification from `SafetyInv`. `RefetchedForKeys` and `RunsDown` are the two action
properties: the first from `RetriedErrors`, which says which errors a retry may
answer; the second since a forced call that decides always ends, and a step of one
call leaves the others' `Ahead` alone. `RunsDown` is the half of termination that needs
no fairness.

`TokenManagerProofs`. `Typing` needs that a call that is refreshing holds a
refresh token. `Unmixed` and `Kept` rest on an ownership invariant
(`OwnershipInv`): the token set a call holds, the answer it received and the
store all belong to the session of their sign-in, and stay with it although
other calls overwrite the store in between. `ClearedUnderLock` has the hypothesis
`Locked`: then no call is under way in a session that is cleared (`LockInv`);
without it the statement is false, as `clear_during_refresh` shows.
`NoReplayUnderLock` has it too: then a stored refresh token is the provider's
current one, unless its successor is under way or was lost (`ReplayInv`). `ImplementsUnderLock` is
the refinement of `Sessions`. The code reads the store, asks the provider and writes
the store in three steps, and the abstract step is taken at the last of them, or when
the answer is lost. `GrantInv` says that this is possible: the tokens a refreshing
call holds are still those in the store and still due, and what the call was granted
is the one step that the provider has made on that sign-in since. `TakenRight` then gives
the value of the mapping, `TakenKept` and `TakenMoves` its steps, and `AtomicStep`
the step simulation. The refinement is false without the lock.

`SignInProofs`. `PresentedOnce` needs to know why: a login was presented only if
its state was popped, a popped state is pending nowhere, and at most one callback
of a login is under way (`OnceInv`). `RefusedRightly` holds since a state that is
neither spent nor lost is still pending where it began (`RefusedInv`). `CookieGood`
follows the session into the store, and from there to the cookie of the worker that
wrote it. `UsedUp` remembers which codes went out of date (`late`) and that whoever
redeems a code takes it away, granted or not (`CodeInv`). `ImplementsOnce` is the
refinement of `BrowserLogin`, which maps what several workers, requests and stores know
of a login to one stage. It rests on `FlightInv`: requests under way are on
different logins, whose state is spent and which have no cookie yet, and nothing
holds a session of a login that is not past the store. `StageRight` reads the stage off
any of them, `StageKept` leaves the other logins where they are, and `LoginsLost` treats
what a failed request and a restart have in common: after the store wrote, the login
ends and its session stays, without a cookie that names it.

`DevSignerProofs`. `ProcessInv` says which key and algorithm a process has in each
phase, `ThreadInv` that what a thread has read is still there when it uses it, and
`HistoryInv` what was minted and published before. `NoFailure` has no hypothesis about
the keys: a request that fails to sign has found a key that fits no algorithm, and such a
key is one the installation names, as an ephemeral key is on P-256. `ImplementsWhole` is the
refinement of `Signing`: two assignments and the reads of any number of threads look
like one signer, taken up when the second assignment is made. What it needs beyond the
three is `FreshInv`, that a process without a named key has one that no process before
signed with. `NamedKeyHeeded` delimits the
finding of `signing_key`: the named key signs everything unless `main` was given one
as an argument.

`WiringProofs`. `Closed`, `Granted` and `BearerAlike` follow from `TypeOK` by
cases over what answers a request. `BrowserServed` needs a history: the
browser's token was issued by the provider that `signIn` names, under the name that
discovery still gives (`Linked`, `CookieInv`), since nothing is wired any more once
requests are served. `Asserted` and `MountAccepts` need the history of one call:
where a single call left a session dependency, that call was `mount_dev`, and the
validator it bound asks the application's own router, in process, for the audience
`mount_dev` was given (`MountedInv`). Both theorems are equivalences. `Asserted` says of
which applications `assert_protected` holds, whatever the issuer and the audience that the
helper mints for. `MountAccepts` delimits the finding of `mount_dev`: the slash at the end
of an issuer and an algorithm outside the validator's default ones keep its tokens out,
and nothing else does.

`KeepAliveProofs`. As long as no request has announced more than it sends (`InStep`),
`Sync` describes the wire: a head on it is that of the last request with nothing but its
own body after it (`HeadInv`), a body is unread, waited for, or right behind its head
(`BodyInv`, `OwedInv`), and a handler that waits for a body is alone with it (`ReadInv`).
Each action that takes a head off the wire is an instance of `HeadAnswered` or
`BodyAwaited`. Out of step, only the types are kept, and that what went astray did so
no later than the request now due (`AstrayInv`); `OutOfStepKept` shows that the exceptions
of the properties then apply. `NoDeadlock` adds where an answer that is due comes from:
its head is on the wire, or the handler waits for a body that is there or still to be
sent (`DueInv`), and a head that comes last has its body still to be sent
(`AnnouncedInv`).

Only model-checked: `EveryCallAnswered`, `EveryGetAnswered` and
`EveryRequestAnswered`, which are liveness under fairness and outside TLAPS's
reach. Their safety halves `CallsRunDown` and `NobodyWaits` are proved. Every other
property of the passing runs is a theorem.

## Not modelled

joserfc, authlib and httpx are modelled by what the code observes of them.
Texts, cookies' attributes, HTML and logging are left out, and with them the
persona page, `AuthenticateHeaderMiddleware` (a header on a 401, from a `login_uri`
that nobody compares with the routes) and the keyword arguments that `configure`
hands on, or drops under `OIDC_BYPASS`. The client's metadata cache is left out: it
is filled once, from an issuer nothing compares it with, and never looked at again.
`Wiring` knows of a key only whether validators accept its algorithm, and of a token's
lifetime nothing; `DevSigner` and `TokenValidator` vary them. Minting from a JSON body keeps no
state beyond the signing key's (`DevSigner`).
A `Wiring` application is wired before it serves: overriding a dependency of a
running application is not modelled, and neither is what a validator remembers
from one request to the next, which is `TokenValidator`'s subject.

Unbounded in the code and bounded here: the clock (`MaxTime`), sign-ins
(`MaxLogin`), rotations (`MaxGen`), the keys an imported module may generate
(`Fresh`), the requests on a connection (`MaxRequests`), the calls that wire an
application (`MaxCalls`). The theorems hold for every bound.

## Plan

Done: `Tokens`, `TokenCheck`, `TokenValidator`, `Sessions`, `TokenManager`,
`BrowserLogin`, `SignIn`, `Signing`, `DevSigner`, `KeepAlive`, `Wiring`, and the proofs
above. What remains is the client's metadata cache, as part of `SignIn`: an unusable
discovery answer is kept for the life of the process (`client.py:66`).
