---------------------------- MODULE TokenManager ----------------------------
(***************************************************************************)
(* oidcutils.tokens.TokenManager over any TokenStore: concurrent           *)
(* get_access_token calls, sign-ins (store_token) and sign-outs (clear) on *)
(* the same session keys, against a provider that answers a refresh with a *)
(* new refresh token, taking the reuse of a spent one for theft, or keeps  *)
(* the refresh token and answers without one.                              *)
(***************************************************************************)
EXTENDS Integers

CONSTANTS Session,    \* the keys sessions are stored under
          Call,       \* the concurrent calls of get_access_token
          Rotations,  \* what a refresh may do: rotate the refresh token or keep it
          Locked,     \* the caller holds a lock of its own around each session
          Lifetime,   \* of an access token the provider issues
          Margin,     \* refresh_margin_seconds
          MaxLogin, MaxGen, MaxTime,    \* bounds: sign-ins, rotations, the clock
          None        \* Python's None

Login == 1..MaxLogin
Time == 0..(MaxTime + Lifetime)

(* A refresh token is known by the sign-in it stems from and by how often  *)
(* it was rotated; an access token by its sign-in and its expires_at.      *)
RefreshToken == [login : Login, gen : 0..MaxGen]
TokenSet == [login : Login, refresh : RefreshToken \cup {None}, expiresAt : Time \cup {None}]

ASSUME ManagerAssumption ==
    /\ Rotations \subseteq BOOLEAN /\ Locked \in BOOLEAN
    /\ Lifetime \in Nat /\ Margin \in Nat
    /\ MaxLogin \in Nat /\ MaxGen \in Nat /\ MaxTime \in Nat
    /\ None \notin RefreshToken /\ None \notin TokenSet /\ None \notin Time

VARIABLES store,    \* store[s]: the token set held for session s
          pc, session, held, reply,   \* locals of each call
          now,      \* the clock
          logins,   \* the sign-ins so far
          live,     \* live[l]: the generation of l's refresh token now valid
          revoked,  \* sign-ins the provider has revoked
          owner,    \* history: owner[l] is the session l was stored under
          offline,  \* history: sign-ins that came with a refresh token
          out,      \* history: sessions not signed in to since they were cleared
          lost      \* history: sign-ins with a refresh whose answer was not stored

provider == <<live, revoked>>
history == <<logins, owner, offline, out>>
vars == <<store, pc, session, held, reply, now, logins, live, revoked,
          owner, offline, out, lost>>

Init ==
    /\ store = [s \in Session |-> None]
    /\ pc = [c \in Call |-> "idle"]
    /\ session \in [Call -> Session]
    /\ held = [c \in Call |-> None]
    /\ reply = [c \in Call |-> None]
    /\ now = 0 /\ logins = 0
    /\ live = [l \in Login |-> 0] /\ revoked = {}
    /\ owner = [l \in Login |-> None] /\ offline = {} /\ out = Session /\ lost = {}

(* README.md:171-174 leaves it to the caller to keep two calls of          *)
(* get_access_token apart.  The lock meant here is a wider one, which      *)
(* sign-ins and sign-outs of the session take too.                         *)
Free(s) == Locked => \A c \in Call : pc[c] = "idle" \/ session[c] # s

-----------------------------------------------------------------------------
(* store_token, with what an authorization code brought.                   *)
SignIn(s) ==
    /\ Free(s)
    /\ logins < MaxLogin
    /\ logins' = logins + 1
    /\ \E r \in {None, [login |-> logins', gen |-> 0]}, e \in {None, now + Lifetime} :
         /\ store' = [store EXCEPT ![s] = [login |-> logins', refresh |-> r, expiresAt |-> e]]
         /\ offline' = IF r = None THEN offline ELSE offline \cup {logins'}
    /\ owner' = [owner EXCEPT ![logins'] = s]
    /\ out' = out \ {s}
    /\ UNCHANGED <<pc, session, held, reply, now, provider, lost>>

(* Bug: a sign-out that does not wait for the calls under way.             *)
SignOutAtOnce(s) ==
    /\ store' = [store EXCEPT ![s] = None]
    /\ out' = out \cup {s}
    /\ UNCHANGED <<pc, session, held, reply, now, provider, logins, owner, offline, lost>>

(* clear                                                                   *)
SignOut(s) ==
    /\ Free(s)
    /\ store' = [store EXCEPT ![s] = None]
    /\ out' = out \cup {s}
    /\ UNCHANGED <<pc, session, held, reply, now, provider, logins, owner, offline, lost>>

-----------------------------------------------------------------------------
(* get_access_token, up to the answer of store.get.                        *)
Lookup(c, s) ==
    /\ pc[c] = "idle" /\ Free(s)
    /\ session' = [session EXCEPT ![c] = s]
    /\ held' = [held EXCEPT ![c] = store[s]]
    /\ pc' = [pc EXCEPT ![c] = "found"]
    /\ UNCHANGED <<store, reply, now, provider, history, lost>>

NeedsRefresh(ts) == ts.expiresAt # None /\ now >= ts.expiresAt - Margin

Refreshable(ts) == ts # None /\ NeedsRefresh(ts) /\ ts.refresh # None

(* How a call ends: it returns an access token, or raises.                 *)
End(c) ==
    /\ pc' = [pc EXCEPT ![c] = "idle"]
    /\ held' = [held EXCEPT ![c] = None]
    /\ reply' = [reply EXCEPT ![c] = None]

(* No session (LookupError), a token still good, or nothing to refresh it  *)
(* with (ValueError): all end the call and change nothing.                 *)
Settle(c) ==
    /\ pc[c] = "found"
    /\ ~Refreshable(held[c])
    /\ End(c)
    /\ UNCHANGED <<store, session, now, provider, history, lost>>

(* Bug: a token renewed whether it is due or not.                          *)
AskRefreshEarly(c) ==
    /\ pc[c] = "found"
    /\ held[c] # None /\ held[c].refresh # None
    /\ pc' = [pc EXCEPT ![c] = "refreshing"]
    /\ UNCHANGED <<store, session, held, reply, now, provider, history, lost>>

AskRefresh(c) ==
    /\ pc[c] = "found"
    /\ Refreshable(held[c])
    /\ pc' = [pc EXCEPT ![c] = "refreshing"]
    /\ UNCHANGED <<store, session, held, reply, now, provider, history, lost>>

(* Bugs: the answer stored as it came; and the old token always kept.      *)
MergedNever(answer, old) == answer
MergedAlways(answer, old) == [answer EXCEPT !.refresh = old.refresh]

(* A provider that does not rotate answers without a refresh token, and    *)
(* the one that was sent is kept.                                          *)
Merged(answer, old) == IF answer.refresh = None THEN [answer EXCEPT !.refresh = old.refresh]
                                                ELSE answer

(* Bug: merged with what the store holds now, not with what was looked up. *)
StoreRefreshedReread(c) ==
    /\ pc[c] = "refreshed"
    /\ store[session[c]] # None
    /\ store' = [store EXCEPT ![session[c]] = Merged(reply[c], store[session[c]])]
    /\ End(c)
    /\ UNCHANGED <<session, now, provider, history, lost>>

StoreRefreshed(c) ==
    /\ pc[c] = "refreshed"
    /\ store' = [store EXCEPT ![session[c]] = Merged(reply[c], held[c])]
    /\ End(c)
    /\ UNCHANGED <<session, now, provider, history, lost>>

(* An error of the request or of store.set: what the provider answered, if *)
(* it did, is gone.                                                        *)
RefreshFails(c) ==
    /\ pc[c] \in {"refreshing", "refreshed"}
    /\ lost' = IF pc[c] = "refreshed" THEN lost \cup {held[c].login} ELSE lost
    /\ End(c)
    /\ UNCHANGED <<store, session, now, provider, history>>

-----------------------------------------------------------------------------
(* The provider's token endpoint.                                          *)
Spent(r) == r.gen # live[r.login] \/ r.login \in revoked

Grant(c) ==
    LET r == held[c].refresh IN
    /\ pc[c] = "refreshing" /\ ~Spent(r)
    /\ \E rotate \in Rotations, e \in {None, now + Lifetime} :
         /\ rotate => r.gen < MaxGen
         /\ live' = IF rotate THEN [live EXCEPT ![r.login] = r.gen + 1] ELSE live
         /\ reply' = [reply EXCEPT ![c] =
                        [login |-> r.login, expiresAt |-> e,
                         refresh |-> IF rotate THEN [r EXCEPT !.gen = r.gen + 1] ELSE None]]
    /\ pc' = [pc EXCEPT ![c] = "refreshed"]
    /\ UNCHANGED <<store, session, held, now, revoked, history, lost>>

(* Bugs: the error read as a token; and a refusal that is asked again.     *)
RefuseUnread(c) ==
    /\ pc[c] = "refreshing" /\ Spent(held[c].refresh)
    /\ revoked' = revoked \cup {held[c].refresh.login}
    /\ pc' = [pc EXCEPT ![c] = "refreshed"]
    /\ UNCHANGED <<store, session, held, reply, now, live, history, lost>>

RefuseRetried(c) ==
    /\ pc[c] = "refreshing" /\ Spent(held[c].refresh)
    /\ revoked' = revoked \cup {held[c].refresh.login}
    /\ pc' = [pc EXCEPT ![c] = "found"]
    /\ UNCHANGED <<store, session, held, reply, now, live, history, lost>>

(* An answer without an access_token: GrantError.                          *)
Refuse(c) ==
    /\ pc[c] = "refreshing" /\ Spent(held[c].refresh)
    /\ revoked' = revoked \cup {held[c].refresh.login}
    /\ End(c)
    /\ UNCHANGED <<store, session, now, live, history, lost>>

Tick ==
    /\ now < MaxTime
    /\ now' = now + 1
    /\ UNCHANGED <<store, pc, session, held, reply, provider, history, lost>>

Progress(c) == \/ Settle(c) \/ AskRefresh(c) \/ StoreRefreshed(c)
               \/ RefreshFails(c) \/ Grant(c) \/ Refuse(c)

Next == \/ \E s \in Session : SignIn(s) \/ SignOut(s) \/ \E c \in Call : Lookup(c, s)
        \/ \E c \in Call : Progress(c)
        \/ Tick

Spec == Init /\ [][Next]_vars

(* Every request ends, at the latest by its timeout, and the event loop    *)
(* resumes every call that is not waiting.                                 *)
FairSpec == Spec /\ \A c \in Call : WF_vars(Progress(c))
-----------------------------------------------------------------------------
(* Every variable has its type, a refresh is only asked for with a refresh *)
(* token in hand, and an error answer is never taken for a token set       *)
(* (client.py, lines 118-132).                                             *)
TypeOK ==
    /\ \A c \in Call : pc[c] \in {"refreshing", "refreshed"} =>
         held[c] # None /\ held[c].refresh # None
    /\ \A c \in Call : pc[c] = "refreshed" => reply[c] # None
    /\ store \in [Session -> TokenSet \cup {None}]
    /\ pc \in [Call -> {"idle", "found", "refreshing", "refreshed"}]
    /\ session \in [Call -> Session]
    /\ held \in [Call -> TokenSet \cup {None}]
    /\ reply \in [Call -> TokenSet \cup {None}]
    /\ now \in 0..MaxTime
    /\ logins \in 0..MaxLogin
    /\ live \in [Login -> 0..MaxGen]
    /\ revoked \in SUBSET Login
    /\ owner \in [Login -> Session \cup {None}]
    /\ offline \in SUBSET Login
    /\ out \in SUBSET Session
    /\ lost \in SUBSET Login

(* However sign-ins, sign-outs and late refreshes interleave, a session    *)
(* never holds the tokens of another session, nor the access token of one  *)
(* sign-in beside the refresh token of another (lines 65-76).              *)
SessionsUnmixed ==
    \A s \in Session : store[s] # None =>
        /\ owner[store[s].login] = s
        /\ store[s].refresh # None => store[s].refresh.login = store[s].login

(* A session that was granted a refresh token never loses it to a refresh  *)
(* whose answer left it out (lines 65-74).                                 *)
RefreshTokenKept ==
    \A s \in Session : store[s] # None /\ store[s].login \in offline => store[s].refresh # None

(* Where calls are kept apart and no answer was lost, the refresh token    *)
(* that is stored is the one the provider will take, and none is ever sent *)
(* twice: a rotating provider never sees a theft in a refresh.             *)
NeverReplayed ==
    /\ revoked \subseteq lost
    /\ \A s \in Session : store[s] # None =>
         LET r == store[s].refresh IN
         \/ r = None \/ r.login \in lost \/ ~Spent(r)
         \/ \E c \in Call : pc[c] = "refreshed" /\ session[c] = s

(* tests/test_tokens.py:126-133: after clear, nothing is stored under the  *)
(* key until somebody signs in again.                                      *)
ClearedStaysOut == \A s \in out : store[s] = None

(* Where calls are kept apart, the manager is a store of sessions whose    *)
(* refreshes are atomic (module Sessions), however its awaits fall: until  *)
(* a call stores what it was granted, the provider counts as not moved.    *)
Granted(l) == {c \in Call : pc[c] = "refreshed" /\ held[c].refresh.login = l}

Taken == [l \in Login |-> IF Granted(l) = {} THEN live[l]
                           ELSE held[CHOOSE c \in Granted(l) : TRUE].refresh.gen]

Atomic == INSTANCE Sessions WITH live <- Taken
ImplementsSessions == Atomic!Spec

(* Every get_access_token ends.                                            *)
EveryGetAnswered == \A c \in Call : pc[c] # "idle" ~> pc[c] = "idle"
=============================================================================
