------------------------- MODULE TokenManagerProofs -------------------------
(***************************************************************************)
(* Safety of TokenManager for every number of sessions, calls and sign-ins *)
(* and whatever mixture of rotation and no rotation the provider chooses.  *)
(***************************************************************************)
EXTENDS TokenManager, TLAPS

USE ManagerAssumption

(* Token sets are records: what a refresh answers and what the merge of    *)
(* lines 65-74 makes of it.                                                *)
LEMMA MergedType ==
    ASSUME NEW answer \in TokenSet, NEW old \in TokenSet
    PROVE  /\ Merged(answer, old) \in TokenSet
           /\ Merged(answer, old).login = answer.login
           /\ Merged(answer, old).refresh = IF answer.refresh = None THEN old.refresh
                                                                     ELSE answer.refresh
BY DEF Merged, TokenSet

LEMMA NewExpiry == ASSUME NEW t \in 0..MaxTime PROVE t + Lifetime \in Time
BY DEF Time

LEMMA TypeInit == Init => TypeOK
BY DEF Init, TypeOK

LEMMA TypeStep == TypeOK /\ [Next]_vars => TypeOK'
<1> SUFFICES ASSUME TypeOK, [Next]_vars PROVE TypeOK'
  OBVIOUS
<1> USE DEF TypeOK, provider, history
<1>1. ASSUME NEW s \in Session, SignIn(s)
      PROVE  TypeOK'
  <2>1. logins' \in Login /\ logins' \in 0..MaxLogin
    BY <1>1 DEF SignIn, Login
  <2>2. PICK r \in {None, [login |-> logins', gen |-> 0]}, e \in {None, now + Lifetime} :
          /\ store' = [store EXCEPT ![s] = [login |-> logins', refresh |-> r, expiresAt |-> e]]
          /\ offline' = IF r = None THEN offline ELSE offline \cup {logins'}
    BY <1>1 DEF SignIn
  <2>3. [login |-> logins', refresh |-> r, expiresAt |-> e] \in TokenSet
    BY <2>1, NewExpiry DEF TokenSet, RefreshToken
  <2> QED
    BY <1>1, <2>1, <2>2, <2>3 DEF SignIn
<1>2. ASSUME NEW s \in Session, SignOut(s)
      PROVE  TypeOK'
  BY <1>2 DEF SignOut
<1>3. ASSUME NEW s \in Session, NEW c \in Call, Lookup(c, s)
      PROVE  TypeOK'
  BY <1>3 DEF Lookup
<1>4. ASSUME NEW c \in Call, Settle(c)
      PROVE  TypeOK'
  BY <1>4 DEF Settle, End
<1>5. ASSUME NEW c \in Call, AskRefresh(c)
      PROVE  TypeOK'
  BY <1>5 DEF AskRefresh, Refreshable
<1>6. ASSUME NEW c \in Call, StoreRefreshed(c)
      PROVE  TypeOK'
  <2>1. Merged(reply[c], held[c]) \in TokenSet
    BY <1>6, MergedType DEF StoreRefreshed
  <2> QED
    BY <1>6, <2>1 DEF StoreRefreshed, End
<1>7. ASSUME NEW c \in Call, RefreshFails(c)
      PROVE  TypeOK'
  BY <1>7 DEF RefreshFails, End, TokenSet
<1>8. ASSUME NEW c \in Call, Grant(c)
      PROVE  TypeOK'
  <2> DEFINE r == held[c].refresh
  <2>1. r \in RefreshToken /\ r.login \in Login /\ r.gen \in 0..MaxGen /\ pc[c] = "refreshing"
    BY <1>8 DEF Grant, TokenSet, RefreshToken
  <2>2. PICK rotate \in Rotations, e \in {None, now + Lifetime} :
          /\ rotate => r.gen < MaxGen
          /\ live' = IF rotate THEN [live EXCEPT ![r.login] = r.gen + 1] ELSE live
          /\ reply' = [reply EXCEPT ![c] =
                         [login |-> r.login, expiresAt |-> e,
                          refresh |-> IF rotate THEN [r EXCEPT !.gen = r.gen + 1] ELSE None]]
    BY <1>8 DEF Grant
  <2>3. rotate => r.gen + 1 \in 0..MaxGen /\ [r EXCEPT !.gen = r.gen + 1] \in RefreshToken
    BY <2>1, <2>2 DEF RefreshToken
  <2>4. [login |-> r.login, expiresAt |-> e,
         refresh |-> IF rotate THEN [r EXCEPT !.gen = r.gen + 1] ELSE None] \in TokenSet
    BY <2>1, <2>3, NewExpiry DEF TokenSet
  <2>5. live' \in [Login -> 0..MaxGen]
    BY <2>2, <2>3
  <2>6. reply' \in [Call -> TokenSet \cup {None}] /\ reply'[c] # None
    BY <2>2, <2>4
  <2>7. \A d \in Call : d # c => reply'[d] = reply[d]
    BY <2>2
  <2> QED
    BY <1>8, <2>5, <2>6, <2>7 DEF Grant
<1>9. ASSUME NEW c \in Call, Refuse(c)
      PROVE  TypeOK'
  BY <1>9 DEF Refuse, End, TokenSet, RefreshToken
<1>10. CASE Tick
  BY <1>10 DEF Tick
<1>11. CASE UNCHANGED vars
  BY <1>11 DEF vars
<1> QED
  BY <1>1, <1>2, <1>3, <1>4, <1>5, <1>6, <1>7, <1>8, <1>9, <1>10, <1>11 DEF Next, Progress

THEOREM Typing == Spec => []TypeOK
BY TypeInit, TypeStep, PTL DEF Spec

-----------------------------------------------------------------------------
(* What is true of every token set a session or a call holds: it stems     *)
(* from a sign-in to that very session, and keeps the refresh token that   *)
(* sign-in brought, in whatever generation.                                *)
Belongs(ts, s) ==
    /\ ts.login <= logins
    /\ owner[ts.login] = s
    /\ ts.refresh # None => ts.refresh.login = ts.login
    /\ ts.login \in offline => ts.refresh # None

OwnershipInv ==
    /\ \A s \in Session : store[s] # None => Belongs(store[s], s)
    /\ \A c \in Call : held[c] # None => Belongs(held[c], session[c])
    /\ \A c \in Call : pc[c] = "refreshed" =>
         /\ reply[c].login = held[c].login
         /\ reply[c].refresh # None => reply[c].refresh.login = held[c].login
    /\ \A l \in offline : l <= logins

LEMMA OwnershipInit == Init => OwnershipInv
BY DEF Init, OwnershipInv

LEMMA OwnershipStep == TypeOK /\ TypeOK' /\ OwnershipInv /\ [Next]_vars => OwnershipInv'
<1> SUFFICES ASSUME TypeOK, TypeOK', OwnershipInv, [Next]_vars PROVE OwnershipInv'
  OBVIOUS
<1> USE DEF provider, history
<1>1. ASSUME NEW s \in Session, SignIn(s)
      PROVE  OwnershipInv'
  <2>1. /\ logins' = logins + 1 /\ logins \in Int /\ logins' \in Login
        /\ owner' = [owner EXCEPT ![logins'] = s]
        /\ UNCHANGED <<pc, session, held, reply>>
    BY <1>1 DEF SignIn, TypeOK, Login
  <2>2. PICK r \in {None, [login |-> logins', gen |-> 0]}, e \in {None, now + Lifetime} :
          /\ store' = [store EXCEPT ![s] = [login |-> logins', refresh |-> r, expiresAt |-> e]]
          /\ offline' = IF r = None THEN offline ELSE offline \cup {logins'}
    BY <1>1 DEF SignIn
  <2>3. ASSUME NEW ts \in TokenSet, NEW t \in Session, Belongs(ts, t)
        PROVE  Belongs(ts, t)'
    <3>1. ts.login # logins' /\ ts.login \in Login
      BY <2>1, <2>3 DEF Belongs, TokenSet, Login
    <3> QED
      BY <2>1, <2>2, <2>3, <3>1 DEF Belongs, TypeOK, TokenSet, Login
  <2>4. Belongs(store[s], s)'
    <3>1. /\ store'[s].login = logins' /\ store'[s].refresh = r
          /\ owner'[logins'] = s
      BY <2>1, <2>2 DEF TypeOK
    <3>2. r # None => r.login = logins'
      BY <2>2
    <3>3. r = None => logins' \notin offline'
      BY <2>1, <2>2 DEF OwnershipInv
    <3> QED
      BY <2>1, <3>1, <3>2, <3>3 DEF Belongs
  <2>5. \A t \in Session : t # s => store'[t] = store[t]
    BY <2>2 DEF TypeOK
  <2>6. \A l \in offline' : l <= logins'
    BY <2>1, <2>2 DEF TypeOK, OwnershipInv, Login
  <2> QED
    <3>1. ASSUME NEW t \in Session, t # s, store'[t] # None
          PROVE  Belongs(store[t], t)'
      <4>1. store[t] \in TokenSet /\ Belongs(store[t], t)
        BY <2>5, <3>1 DEF OwnershipInv, TypeOK
      <4>2. store'[t] = store[t]
        BY <2>5, <3>1
      <4>3. /\ store[t].login <= logins'
            /\ owner'[store[t].login] = t
            /\ store[t].refresh # None => store[t].refresh.login = store[t].login
            /\ store[t].login \in offline' => store[t].refresh # None
        BY <2>3, <4>1 DEF Belongs
      <4> QED
        BY <4>2, <4>3 DEF Belongs
    <3>2. ASSUME NEW c \in Call, held'[c] # None
          PROVE  Belongs(held[c], session[c])'
      <4>1. held'[c] = held[c] /\ session'[c] = session[c]
        BY <2>1
      <4>2. held[c] \in TokenSet /\ session[c] \in Session /\ Belongs(held[c], session[c])
        BY <3>2, <4>1 DEF OwnershipInv, TypeOK
      <4>3. /\ held[c].login <= logins'
            /\ owner'[held[c].login] = session[c]
            /\ held[c].refresh # None => held[c].refresh.login = held[c].login
            /\ held[c].login \in offline' => held[c].refresh # None
        BY <2>3, <4>2 DEF Belongs
      <4> QED
        BY <4>1, <4>3 DEF Belongs
    <3>3. \A c \in Call : pc'[c] = "refreshed" =>
            /\ reply'[c].login = held'[c].login
            /\ reply'[c].refresh # None => reply'[c].refresh.login = held'[c].login
      BY <2>1 DEF OwnershipInv
    <3> QED
      BY <2>4, <2>6, <3>1, <3>2, <3>3 DEF OwnershipInv
<1>2. ASSUME NEW s \in Session, SignOut(s)
      PROVE  OwnershipInv'
  BY <1>2 DEF SignOut, TypeOK, OwnershipInv, Belongs
<1>3. ASSUME NEW s \in Session, NEW c \in Call, Lookup(c, s)
      PROVE  OwnershipInv'
  BY <1>3 DEF Lookup, TypeOK, OwnershipInv, Belongs
<1>4. ASSUME NEW c \in Call, Settle(c)
      PROVE  OwnershipInv'
  BY <1>4 DEF Settle, End, TypeOK, OwnershipInv, Belongs
<1>5. ASSUME NEW c \in Call, AskRefresh(c)
      PROVE  OwnershipInv'
  BY <1>5 DEF AskRefresh, TypeOK, OwnershipInv, Belongs
<1>6. ASSUME NEW c \in Call, StoreRefreshed(c)
      PROVE  OwnershipInv'
  <2>1. pc[c] = "refreshed" /\ held[c] \in TokenSet /\ reply[c] \in TokenSet
        /\ held[c].refresh # None /\ Belongs(held[c], session[c])
    BY <1>6 DEF StoreRefreshed, TypeOK, OwnershipInv
  <2>2. Belongs(Merged(reply[c], held[c]), session[c])
    BY <2>1, MergedType DEF OwnershipInv, Belongs
  <2>3. /\ store' = [store EXCEPT ![session[c]] = Merged(reply[c], held[c])]
        /\ pc' = [pc EXCEPT ![c] = "idle"]
        /\ held' = [held EXCEPT ![c] = None]
        /\ reply' = [reply EXCEPT ![c] = None]
        /\ UNCHANGED <<session, logins, owner, offline>>
    BY <1>6 DEF StoreRefreshed, End
  <2> QED
    BY <2>2, <2>3 DEF TypeOK, OwnershipInv, Belongs
<1>7. ASSUME NEW c \in Call, RefreshFails(c)
      PROVE  OwnershipInv'
  BY <1>7 DEF RefreshFails, End, TypeOK, OwnershipInv, Belongs
<1>8. ASSUME NEW c \in Call, Grant(c)
      PROVE  OwnershipInv'
  <2> DEFINE r == held[c].refresh
  <2>1. /\ r \in RefreshToken /\ r.login = held[c].login
        /\ pc' = [pc EXCEPT ![c] = "refreshed"]
        /\ UNCHANGED <<store, session, held, logins, owner, offline>>
    BY <1>8 DEF Grant, TypeOK, TokenSet, OwnershipInv, Belongs
  <2>2. PICK rotate \in Rotations, e \in {None, now + Lifetime} :
          reply' = [reply EXCEPT ![c] =
                     [login |-> r.login, expiresAt |-> e,
                      refresh |-> IF rotate THEN [r EXCEPT !.gen = r.gen + 1] ELSE None]]
    BY <1>8 DEF Grant
  <2>3. [r EXCEPT !.gen = r.gen + 1].login = r.login
    BY <2>1 DEF RefreshToken
  <2>4. /\ reply'[c].login = held[c].login
        /\ reply'[c].refresh # None => reply'[c].refresh.login = held[c].login
    BY <2>1, <2>2, <2>3 DEF TypeOK
  <2>5. \A d \in Call : d # c => reply'[d] = reply[d]
    BY <2>2 DEF TypeOK
  <2> QED
    BY <2>1, <2>4, <2>5 DEF TypeOK, OwnershipInv, Belongs
<1>9. ASSUME NEW c \in Call, Refuse(c)
      PROVE  OwnershipInv'
  BY <1>9 DEF Refuse, End, TypeOK, OwnershipInv, Belongs
<1>10. CASE Tick
  BY <1>10 DEF Tick, OwnershipInv, Belongs
<1>11. CASE UNCHANGED vars
  BY <1>11 DEF vars, OwnershipInv, Belongs
<1> QED
  BY <1>1, <1>2, <1>3, <1>4, <1>5, <1>6, <1>7, <1>8, <1>9, <1>10, <1>11 DEF Next, Progress

LEMMA OwnershipHolds == Spec => []OwnershipInv
BY Typing, OwnershipInit, OwnershipStep, PTL DEF Spec

(* No interleaving of sign-ins, sign-outs and late refreshes puts one      *)
(* session's tokens, or two sign-ins' tokens, into one session.            *)
THEOREM Unmixed == Spec => []SessionsUnmixed
<1>1. OwnershipInv => SessionsUnmixed
  BY DEF OwnershipInv, Belongs, SessionsUnmixed
<1> QED
  BY OwnershipHolds, <1>1, PTL

(* A refresh answered without a refresh token never costs a session its    *)
(* own.                                                                    *)
THEOREM Kept == Spec => []RefreshTokenKept
<1>1. OwnershipInv => RefreshTokenKept
  BY DEF OwnershipInv, Belongs, RefreshTokenKept
<1> QED
  BY OwnershipHolds, <1>1, PTL

-----------------------------------------------------------------------------
(* With the caller's lock, a call that holds a token set keeps its session *)
(* from being cleared, so it cannot bring a cleared one back.              *)
LockInv ==
    /\ \A c \in Call : pc[c] = "idle" => held[c] = None
    /\ \A c \in Call : held[c] # None => session[c] \notin out
    /\ ClearedStaysOut

LEMMA LockStep == Locked /\ TypeOK /\ LockInv /\ [Next]_vars => LockInv'
<1> SUFFICES ASSUME Locked, TypeOK, LockInv, [Next]_vars PROVE LockInv'
  OBVIOUS
<1> USE DEF TypeOK, LockInv, ClearedStaysOut, provider, history
<1>1. ASSUME NEW s \in Session, SignIn(s)
      PROVE  LockInv'
  <2>1. /\ \A t \in Session : t # s => store'[t] = store[t]
        /\ out' = out \ {s} /\ UNCHANGED <<pc, session, held>>
    BY <1>1 DEF SignIn
  <2> QED
    BY <2>1
<1>2. ASSUME NEW s \in Session, SignOut(s)
      PROVE  LockInv'
  BY <1>2 DEF SignOut, Free
<1>3. ASSUME NEW s \in Session, NEW c \in Call, Lookup(c, s)
      PROVE  LockInv'
  BY <1>3 DEF Lookup
<1>4. ASSUME NEW c \in Call, Settle(c) \/ RefreshFails(c) \/ Refuse(c)
      PROVE  LockInv'
  BY <1>4 DEF Settle, RefreshFails, Refuse, End
<1>5. ASSUME NEW c \in Call, AskRefresh(c) \/ Grant(c)
      PROVE  LockInv'
  BY <1>5 DEF AskRefresh, Grant
<1>6. ASSUME NEW c \in Call, StoreRefreshed(c)
      PROVE  LockInv'
  BY <1>6 DEF StoreRefreshed, End
<1>7. CASE Tick
  BY <1>7 DEF Tick
<1>8. CASE UNCHANGED vars
  BY <1>8 DEF vars
<1> QED
  BY <1>1, <1>2, <1>3, <1>4, <1>5, <1>6, <1>7, <1>8 DEF Next, Progress

(* Where the caller locks, what clear removed stays removed until the next *)
(* sign-in.                                                                *)
THEOREM ClearedUnderLock ==
    ASSUME Locked
    PROVE  Spec => []ClearedStaysOut
<1>1. Init => LockInv
  BY DEF Init, LockInv, ClearedStaysOut
<1>2. TypeOK /\ LockInv /\ [Next]_vars => LockInv'
  BY LockStep
<1>3. LockInv => ClearedStaysOut
  BY DEF LockInv
<1> QED
  BY Typing, <1>1, <1>2, <1>3, PTL DEF Spec

-----------------------------------------------------------------------------
(* Why no refresh token is sent twice under the lock: a call that is under *)
(* way holds what the store holds, calls are on different sessions and so  *)
(* on different sign-ins, and what is stored is what the provider will     *)
(* take unless an answer was lost.                                         *)
Current(ts, gens, withdrawn, gone) ==
    \/ ts.refresh = None
    \/ ts.refresh.login \in gone
    \/ ts.refresh.gen = gens[ts.refresh.login] /\ ts.refresh.login \notin withdrawn

Refreshing(s) == \E c \in Call : pc[c] = "refreshed" /\ session[c] = s

ReplayInv ==
    /\ revoked \subseteq lost
    /\ \A l \in Login : l > logins => live[l] = 0 /\ l \notin lost
    /\ \A c, d \in Call :
         c # d /\ pc[c] # "idle" /\ pc[d] # "idle" => session[c] # session[d]
    /\ \A c \in Call : pc[c] # "idle" => held[c] = store[session[c]]
    /\ \A c \in Call : pc[c] = "refreshed" =>
         Current(Merged(reply[c], held[c]), live, revoked, lost)
    /\ \A s \in Session : store[s] # None =>
         Current(store[s], live, revoked, lost) \/ Refreshing(s)

LEMMA StaysCurrent ==
    ASSUME NEW ts, NEW gens, NEW withdrawn, NEW gone, Current(ts, gens, withdrawn, gone),
           NEW gens2, NEW withdrawn2, NEW gone2,
           ts.refresh # None => gens2[ts.refresh.login] = gens[ts.refresh.login],
           gone \subseteq gone2, withdrawn2 \subseteq withdrawn \cup gone2
    PROVE  Current(ts, gens2, withdrawn2, gone2)
BY DEF Current

LEMMA ReplayInit == Init => ReplayInv
BY DEF Init, ReplayInv

LEMMA ReplayStep ==
    Locked /\ TypeOK /\ TypeOK' /\ OwnershipInv /\ ReplayInv /\ [Next]_vars => ReplayInv'
<1> SUFFICES ASSUME Locked, TypeOK, TypeOK', OwnershipInv, ReplayInv, [Next]_vars
             PROVE  ReplayInv'
  OBVIOUS
<1> USE DEF provider, history
<1>1. ASSUME NEW s \in Session, SignIn(s)
      PROVE  ReplayInv'
  <2>1. /\ logins' = logins + 1 /\ logins \in Int /\ logins' \in Login
        /\ UNCHANGED <<pc, session, held, reply, live, revoked, lost>>
        /\ \A c \in Call : pc[c] # "idle" => session[c] # s
    BY <1>1 DEF SignIn, Free, TypeOK, Login
  <2>2. PICK r \in {None, [login |-> logins', gen |-> 0]}, e \in {None, now + Lifetime} :
          store' = [store EXCEPT ![s] = [login |-> logins', refresh |-> r, expiresAt |-> e]]
    BY <1>1 DEF SignIn
  <2>3. live[logins'] = 0 /\ logins' \notin revoked
    BY <2>1 DEF ReplayInv
  <2>4. Current(store'[s], live, revoked, lost)
    BY <2>2, <2>3 DEF Current, TypeOK
  <2>5. \A t \in Session : t # s => store'[t] = store[t] /\ (Refreshing(t)' <=> Refreshing(t))
    BY <2>1, <2>2 DEF Refreshing, TypeOK
  <2>6. \A c \in Call : pc[c] # "idle" => store'[session[c]] = store[session[c]]
    BY <2>1, <2>5 DEF TypeOK
  <2> QED
    BY <2>1, <2>4, <2>5, <2>6 DEF ReplayInv
<1>2. ASSUME NEW s \in Session, SignOut(s)
      PROVE  ReplayInv'
  <2>1. /\ UNCHANGED <<pc, session, held, reply, live, revoked, lost, logins>>
        /\ \A c \in Call : pc[c] # "idle" => session[c] # s
        /\ store' = [store EXCEPT ![s] = None]
    BY <1>2 DEF SignOut, Free
  <2> QED
    BY <2>1 DEF ReplayInv, TypeOK, Refreshing
<1>3. ASSUME NEW s \in Session, NEW c \in Call, Lookup(c, s)
      PROVE  ReplayInv'
  <2>1. /\ UNCHANGED <<store, reply, live, revoked, lost, logins>>
        /\ pc[c] = "idle" /\ \A d \in Call : pc[d] # "idle" => session[d] # s
        /\ session' = [session EXCEPT ![c] = s]
        /\ held' = [held EXCEPT ![c] = store[s]]
        /\ pc' = [pc EXCEPT ![c] = "found"]
    BY <1>3 DEF Lookup, Free
  <2>2. \A t \in Session : Refreshing(t)' <=> Refreshing(t)
    BY <2>1 DEF Refreshing, TypeOK
  <2> QED
    BY <2>1, <2>2 DEF ReplayInv, TypeOK
<1>4. ASSUME NEW c \in Call, Settle(c) \/ AskRefresh(c)
      PROVE  ReplayInv'
  <2>1. /\ UNCHANGED <<store, session, live, revoked, lost, logins>>
        /\ pc[c] = "found"
        /\ \/ pc' = [pc EXCEPT ![c] = "refreshing"] /\ UNCHANGED <<held, reply>>
           \/ End(c)
    BY <1>4 DEF Settle, AskRefresh
  <2>2. \A t \in Session : Refreshing(t)' <=> Refreshing(t)
    BY <2>1 DEF Refreshing, TypeOK, End
  <2> QED
    BY <2>1, <2>2 DEF ReplayInv, TypeOK, End
<1>5. ASSUME NEW c \in Call, StoreRefreshed(c)
      PROVE  ReplayInv'
  <2>1. /\ UNCHANGED <<session, live, revoked, lost, logins>>
        /\ pc[c] = "refreshed" /\ session[c] \in Session
        /\ store' = [store EXCEPT ![session[c]] = Merged(reply[c], held[c])]
        /\ End(c)
    BY <1>5 DEF StoreRefreshed, TypeOK
  <2>2. \A d \in Call : d # c /\ pc[d] # "idle" => session[d] # session[c]
    BY <2>1 DEF ReplayInv
  <2>3. Current(store'[session[c]], live, revoked, lost)
    BY <2>1 DEF ReplayInv, TypeOK
  <2>4. \A t \in Session : t # session[c] =>
          store'[t] = store[t] /\ (Refreshing(t)' <=> Refreshing(t))
    BY <2>1 DEF Refreshing, TypeOK, End
  <2>5. \A d \in Call : pc'[d] # "idle" =>
          /\ d # c /\ pc[d] = pc'[d] /\ held'[d] = held[d] /\ reply'[d] = reply[d]
          /\ store'[session[d]] = store[session[d]]
    BY <2>1, <2>2 DEF TypeOK, End
  <2> QED
    BY <2>1, <2>3, <2>4, <2>5 DEF ReplayInv
<1>6. ASSUME NEW c \in Call, RefreshFails(c)
      PROVE  ReplayInv'
  <2>1. /\ UNCHANGED <<store, session, live, revoked, logins>>
        /\ End(c) /\ lost \subseteq lost' /\ session[c] \in Session
        /\ lost' \subseteq lost \cup {held[c].login}
        /\ pc[c] \in {"refreshing", "refreshed"}
        /\ pc[c] = "refreshed" => held[c].login \in lost'
    BY <1>6 DEF RefreshFails, TypeOK
  <2>2. held[c] = store[session[c]] /\ held[c] # None
    BY <2>1 DEF ReplayInv, TypeOK
  <2>3. Belongs(held[c], session[c])
    BY <2>2 DEF OwnershipInv
  <2>4. \A d \in Call : pc'[d] # "idle" =>
          d # c /\ pc[d] = pc'[d] /\ held'[d] = held[d] /\ reply'[d] = reply[d]
    BY <2>1 DEF TypeOK, End
  <2>5. \A d \in Call : pc'[d] = "refreshed" =>
          Current(Merged(reply[d], held[d]), live, revoked, lost')
    BY <2>1, <2>4, StaysCurrent DEF ReplayInv
  <2>6. ASSUME NEW t \in Session, store[t] # None
        PROVE  Current(store[t], live, revoked, lost') \/ Refreshing(t)'
    <3>1. CASE Current(store[t], live, revoked, lost)
      BY <2>1, <3>1, StaysCurrent
    <3>2. CASE Refreshing(t) /\ (t # session[c] \/ pc[c] # "refreshed")
      BY <2>1, <3>2 DEF Refreshing, TypeOK, End
    <3>3. CASE t = session[c] /\ pc[c] = "refreshed"
      BY <2>1, <2>2, <2>3, <3>3 DEF Current, Belongs
    <3> QED
      BY <2>6, <3>1, <3>2, <3>3 DEF ReplayInv
  <2>7. \A l \in Login : l > logins => l \notin lost'
    BY <2>1, <2>3 DEF ReplayInv, Belongs, TypeOK, TokenSet, Login
  <2> QED
    BY <2>1, <2>2, <2>4, <2>5, <2>6, <2>7 DEF ReplayInv
<1>7. ASSUME NEW c \in Call, Grant(c)
      PROVE  ReplayInv'
  <2> DEFINE r == held[c].refresh
  <2>1. /\ UNCHANGED <<store, session, held, revoked, lost, logins>>
        /\ pc[c] = "refreshing" /\ ~Spent(r) /\ session[c] \in Session
        /\ pc' = [pc EXCEPT ![c] = "refreshed"]
        /\ held[c] # None /\ r # None /\ held[c] \in TokenSet
    BY <1>7 DEF Grant, TypeOK
  <2>2. PICK rotate \in Rotations, e \in {None, now + Lifetime} :
          /\ rotate => r.gen < MaxGen
          /\ live' = IF rotate THEN [live EXCEPT ![r.login] = r.gen + 1] ELSE live
          /\ reply' = [reply EXCEPT ![c] =
                        [login |-> r.login, expiresAt |-> e,
                         refresh |-> IF rotate THEN [r EXCEPT !.gen = r.gen + 1] ELSE None]]
    BY <1>7 DEF Grant
  <2>3. r \in RefreshToken /\ r.login \in Login /\ live \in [Login -> 0..MaxGen]
    BY <2>1 DEF TokenSet, RefreshToken, TypeOK
  <2>4. /\ Belongs(held[c], session[c]) /\ r.login = held[c].login
        /\ held[c] = store[session[c]]
    BY <2>1 DEF OwnershipInv, Belongs, ReplayInv
  <2>5. \A l \in Login : l # r.login => live'[l] = live[l]
    BY <2>2, <2>3
  <2>6. Current(Merged(reply'[c], held[c]), live', revoked, lost)
    <3>1. reply[c] \in TokenSet \cup {None} /\ reply'[c] \in TokenSet
      BY <2>1, <2>2 DEF TypeOK
    <3>2. reply'[c].refresh = IF rotate THEN [r EXCEPT !.gen = r.gen + 1] ELSE None
      BY <2>2 DEF TypeOK
    <3>3. CASE rotate
      <4>1. [r EXCEPT !.gen = r.gen + 1] \in RefreshToken
        <5>1. r.gen \in 0..MaxGen /\ r.gen < MaxGen
          BY <2>2, <2>3, <3>3 DEF RefreshToken
        <5> QED
          BY <2>3, <5>1 DEF RefreshToken
      <4>2. reply'[c].refresh # None /\ reply'[c].refresh = [r EXCEPT !.gen = r.gen + 1]
        BY <3>2, <3>3, <4>1
      <4>3. Merged(reply'[c], held[c]).refresh = [r EXCEPT !.gen = r.gen + 1]
        BY <2>1, <3>1, <4>2, MergedType
      <4>4. live'[r.login] = r.gen + 1
        BY <2>2, <2>3, <3>3
      <4>5. /\ [r EXCEPT !.gen = r.gen + 1].login = r.login
            /\ [r EXCEPT !.gen = r.gen + 1].gen = r.gen + 1
        BY <2>3 DEF RefreshToken
      <4> QED
        BY <2>1, <4>3, <4>4, <4>5 DEF Current, Spent
    <3>4. CASE ~rotate
      <4>1. Merged(reply'[c], held[c]).refresh = r /\ live' = live
        BY <2>1, <2>2, <3>1, <3>2, <3>4, MergedType
      <4> QED
        BY <2>1, <4>1 DEF Current, Spent
    <3> QED
      BY <3>3, <3>4
  <2>7. ASSUME NEW d \in Call, d # c, pc[d] = "refreshed"
        PROVE  Current(Merged(reply[d], held[d]), live', revoked, lost)
    <3>1. /\ held[d] \in TokenSet /\ reply[d] \in TokenSet /\ session[d] # session[c]
          /\ reply[d].login = held[d].login
          /\ reply[d].refresh # None => reply[d].refresh.login = held[d].login
          /\ Belongs(held[d], session[d])
      BY <2>1, <2>7 DEF TypeOK, ReplayInv, OwnershipInv
    <3> DEFINE m == Merged(reply[d], held[d])
    <3>2. m.refresh # None => m.refresh.login = held[d].login /\ held[d].login \in Login
      BY <3>1, MergedType DEF Belongs, TokenSet
    <3>3. held[d].login # r.login
      BY <2>4, <3>1 DEF Belongs
    <3>4. Current(m, live, revoked, lost)
      BY <2>7 DEF ReplayInv
    <3>5. m.refresh # None => live'[m.refresh.login] = live[m.refresh.login]
      BY <2>5, <3>2, <3>3
    <3> HIDE DEF m
    <3> QED
      BY <3>4, <3>5, StaysCurrent DEF m
  <2>8. ASSUME NEW t \in Session, store[t] # None
        PROVE  Current(store[t], live', revoked, lost) \/ Refreshing(t)'
    <3>1. CASE t = session[c]
      BY <2>1, <3>1 DEF Refreshing, TypeOK
    <3>2. CASE Refreshing(t)
      BY <2>1, <3>2 DEF Refreshing, TypeOK
    <3>3. CASE t # session[c] /\ Current(store[t], live, revoked, lost)
      <4>1. Belongs(store[t], t) /\ store[t] \in TokenSet
        BY <2>8 DEF OwnershipInv, TypeOK
      <4>2. store[t].login # r.login
        BY <2>4, <3>3, <4>1 DEF Belongs
      <4>3. store[t].refresh # None => live'[store[t].refresh.login] = live[store[t].refresh.login]
        BY <2>5, <4>1, <4>2 DEF Belongs, TokenSet
      <4> QED
        BY <3>3, <4>3, StaysCurrent
    <3> QED
      BY <2>8, <3>1, <3>2, <3>3 DEF ReplayInv
  <2>9. \A l \in Login : l > logins => live'[l] = 0
    BY <2>3, <2>4, <2>5 DEF ReplayInv, Belongs, TypeOK, Login
  <2>10. \A d \in Call : pc'[d] = "refreshed" =>
           Current(Merged(reply'[d], held'[d]), live', revoked, lost)
    BY <2>1, <2>2, <2>6, <2>7 DEF TypeOK
  <2>11. \A d \in Call : pc'[d] # "idle" <=> pc[d] # "idle"
    BY <2>1 DEF TypeOK
  <2> QED
    BY <2>1, <2>8, <2>9, <2>10, <2>11 DEF ReplayInv
<1>8. ASSUME NEW c \in Call, Refuse(c)
      PROVE  ReplayInv'
  <2>1. /\ UNCHANGED <<store, session, live, lost, logins>>
        /\ End(c) /\ pc[c] = "refreshing" /\ Spent(held[c].refresh)
        /\ held[c] # None /\ held[c].refresh # None /\ session[c] \in Session
        /\ revoked' = revoked \cup {held[c].refresh.login}
    BY <1>8 DEF Refuse, TypeOK
  <2>2. held[c] = store[session[c]] /\ ~Refreshing(session[c])
    BY <2>1 DEF ReplayInv, Refreshing
  <2>3. held[c].refresh.login \in lost
    BY <2>1, <2>2 DEF ReplayInv, Current, Spent
  <2>4. \A d \in Call : pc'[d] # "idle" =>
          d # c /\ pc[d] = pc'[d] /\ held'[d] = held[d] /\ reply'[d] = reply[d]
    BY <2>1 DEF TypeOK, End
  <2>5. \A d \in Call : pc'[d] = "refreshed" =>
          Current(Merged(reply[d], held[d]), live, revoked', lost)
    BY <2>1, <2>3, <2>4, StaysCurrent DEF ReplayInv
  <2>6. \A t \in Session : store[t] # None =>
          Current(store[t], live, revoked', lost) \/ Refreshing(t)'
    <3>1. \A t \in Session : Refreshing(t) => Refreshing(t)'
      BY <2>1 DEF Refreshing, TypeOK, End
    <3> QED
      BY <2>1, <2>3, <3>1, StaysCurrent DEF ReplayInv
  <2> QED
    BY <2>1, <2>3, <2>4, <2>5, <2>6 DEF ReplayInv
<1>9. CASE Tick
  BY <1>9 DEF Tick, ReplayInv, Refreshing
<1>10. CASE UNCHANGED vars
  BY <1>10 DEF vars, ReplayInv, Refreshing
<1> QED
  BY <1>1, <1>2, <1>3, <1>4, <1>5, <1>6, <1>7, <1>8, <1>9, <1>10 DEF Next, Progress

(* Where the caller locks, a rotating provider never takes a refresh for   *)
(* theft, but after an answer that was lost on its way.                    *)
THEOREM NoReplayUnderLock ==
    ASSUME Locked
    PROVE  Spec => []NeverReplayed
<1>1. TypeOK /\ TypeOK' /\ OwnershipInv /\ ReplayInv /\ [Next]_vars => ReplayInv'
  BY ReplayStep
<1>2. ReplayInv => NeverReplayed
  BY DEF ReplayInv, NeverReplayed, Current, Refreshing, Spent
<1> QED
  BY Typing, OwnershipHolds, ReplayInit, <1>1, <1>2, PTL DEF Spec

-----------------------------------------------------------------------------
(* Why refreshes are atomic under the lock: a call that refreshes holds    *)
(* tokens that are due, and what it was granted is the one step that the   *)
(* provider has made on that sign-in since.                                *)
Step(r, rotate) == IF rotate THEN r.gen + 1 ELSE r.gen

GrantedRightly(c) ==
    LET r == held[c].refresh IN
    /\ r.login \notin revoked
    /\ reply[c].expiresAt \in {None} \cup (0..(now + Lifetime))
    /\ \E rotate \in Rotations :
         /\ live[r.login] = Step(r, rotate)
         /\ reply[c].refresh = IF rotate THEN [login |-> r.login, gen |-> r.gen + 1] ELSE None

GrantInv ==
    /\ \A c \in Call : pc[c] \in {"refreshing", "refreshed"} => Refreshable(held[c])
    /\ \A c \in Call : pc[c] = "refreshed" => GrantedRightly(c)

(* Calls on refreshes are on different sign-ins.                           *)
LEMMA Apart ==
    ASSUME TypeOK, OwnershipInv, ReplayInv, NEW c \in Call, NEW d \in Call, c # d,
           pc[c] \in {"refreshing", "refreshed"}, pc[d] \in {"refreshing", "refreshed"}
    PROVE  held[c].refresh.login # held[d].refresh.login
<1>1. session[c] # session[d] /\ held[c] # None /\ held[d] # None
  BY DEF ReplayInv, TypeOK
<1>2. Belongs(held[c], session[c]) /\ Belongs(held[d], session[d])
  BY <1>1 DEF OwnershipInv
<1> QED
  BY <1>1, <1>2 DEF Belongs, TypeOK

(* What a refresh, asked for or granted, has to do with the store.         *)
LEMMA InHand ==
    ASSUME TypeOK, OwnershipInv, ReplayInv, NEW c \in Call,
           pc[c] \in {"refreshing", "refreshed"}
    PROVE  /\ session[c] \in Session /\ held[c] = store[session[c]]
           /\ held[c] \in TokenSet /\ held[c] # None /\ held[c].refresh # None
           /\ held[c].refresh \in RefreshToken /\ held[c].login \in Login
           /\ held[c].refresh.login = held[c].login
<1>1. held[c] # None /\ held[c].refresh # None /\ held[c] \in TokenSet /\ session[c] \in Session
  BY DEF TypeOK
<1>2. Belongs(held[c], session[c]) /\ held[c] = store[session[c]]
  BY <1>1 DEF OwnershipInv, ReplayInv
<1> QED
  BY <1>1, <1>2 DEF Belongs, TokenSet

LEMMA GrantStep ==
    TypeOK /\ TypeOK' /\ OwnershipInv /\ ReplayInv /\ GrantInv /\ [Next]_vars => GrantInv'
<1> SUFFICES ASSUME TypeOK, TypeOK', OwnershipInv, ReplayInv, GrantInv, [Next]_vars
             PROVE  GrantInv'
  OBVIOUS
<1> USE DEF provider, history
(* Refreshes that nothing happens to, while time may pass.                 *)
<1>1. ASSUME \A c \in Call : pc'[c] \in {"refreshing", "refreshed"} =>
               /\ pc'[c] = pc[c] /\ held'[c] = held[c] /\ reply'[c] = reply[c]
               /\ pc[c] = "refreshed" => /\ live'[held[c].refresh.login] = live[held[c].refresh.login]
                                         /\ held[c].refresh.login \in revoked' => held[c].refresh.login \in revoked,
             now' = now \/ now' = now + 1
      PROVE  GrantInv'
  <2>1. now \in Nat /\ now' \in Nat
    BY DEF TypeOK
  <2>2. ASSUME NEW c \in Call, pc'[c] \in {"refreshing", "refreshed"}
        PROVE  Refreshable(held[c])'
    <3>1. Refreshable(held[c]) /\ held'[c] = held[c] /\ held[c] \in TokenSet
      BY <1>1, <2>2 DEF GrantInv, TypeOK
    <3>2. held[c].expiresAt \in Nat
      BY <3>1 DEF Refreshable, NeedsRefresh, TokenSet, Time
    <3> QED
      BY <1>1, <2>1, <3>1, <3>2 DEF Refreshable, NeedsRefresh
  <2>3. ASSUME NEW c \in Call, pc'[c] = "refreshed"
        PROVE  GrantedRightly(c)'
    <3>1. /\ GrantedRightly(c) /\ held'[c] = held[c] /\ reply'[c] = reply[c]
          /\ live'[held[c].refresh.login] = live[held[c].refresh.login]
          /\ held[c].refresh.login \notin revoked'
      BY <1>1, <2>3 DEF GrantInv, GrantedRightly
    <3>2. 0..(now + Lifetime) \subseteq 0..(now' + Lifetime)
      BY <1>1, <2>1
    <3> QED
      BY <3>1, <3>2 DEF GrantedRightly, Step
  <2> QED
    BY <2>2, <2>3 DEF GrantInv
<1>2. ASSUME NEW s \in Session, SignIn(s) \/ SignOut(s)
      PROVE  GrantInv'
  BY <1>1, <1>2 DEF SignIn, SignOut
<1>3. ASSUME NEW s \in Session, NEW c \in Call, Lookup(c, s)
      PROVE  GrantInv'
  BY <1>1, <1>3 DEF Lookup, TypeOK
<1>4. ASSUME NEW c \in Call, Settle(c) \/ StoreRefreshed(c) \/ RefreshFails(c)
      PROVE  GrantInv'
  BY <1>1, <1>4 DEF Settle, StoreRefreshed, RefreshFails, End, TypeOK
<1>5. ASSUME NEW c \in Call, AskRefresh(c)
      PROVE  GrantInv'
  BY <1>5 DEF AskRefresh, GrantInv, GrantedRightly, Refreshable, NeedsRefresh, TypeOK
<1>6. ASSUME NEW c \in Call, Grant(c)
      PROVE  GrantInv'
  <2> DEFINE r == held[c].refresh
  <2>1. /\ pc[c] = "refreshing" /\ ~Spent(r)
        /\ pc' = [pc EXCEPT ![c] = "refreshed"]
        /\ UNCHANGED <<held, now, revoked>>
    BY <1>6 DEF Grant
  <2>2. PICK rotate \in Rotations, e \in {None, now + Lifetime} :
          /\ live' = IF rotate THEN [live EXCEPT ![r.login] = r.gen + 1] ELSE live
          /\ reply' = [reply EXCEPT ![c] =
                        [login |-> r.login, expiresAt |-> e,
                         refresh |-> IF rotate THEN [r EXCEPT !.gen = r.gen + 1] ELSE None]]
    BY <1>6 DEF Grant
  <2>3. r \in RefreshToken /\ r.login \in Login /\ r.gen = live[r.login]
    BY <2>1, InHand DEF Spent, RefreshToken
  <2>4. live'[r.login] = Step(r, rotate)
    BY <2>2, <2>3 DEF Step, TypeOK
  <2>5. reply'[c].refresh = IF rotate THEN [login |-> r.login, gen |-> r.gen + 1] ELSE None
    <3>1. [r EXCEPT !.gen = r.gen + 1] = [login |-> r.login, gen |-> r.gen + 1]
      BY <2>3 DEF RefreshToken
    <3> QED
      BY <2>2, <3>1 DEF TypeOK
  <2>6. reply'[c].expiresAt \in {None} \cup (0..(now + Lifetime))
    <3>1. now + Lifetime \in 0..(now + Lifetime)
      BY DEF TypeOK
    <3> QED
      BY <2>2, <3>1 DEF TypeOK
  <2>7. GrantedRightly(c)'
    BY <2>1, <2>2, <2>4, <2>5, <2>6 DEF GrantedRightly, Spent, Step
  <2>8. ASSUME NEW d \in Call, d # c, pc[d] = "refreshed"
        PROVE  GrantedRightly(d)'
    <3>1. held[d].refresh.login # r.login /\ held[d].refresh.login \in Login
      BY <2>1, <2>8, Apart, InHand
    <3>2. live'[held[d].refresh.login] = live[held[d].refresh.login] /\ reply'[d] = reply[d]
      BY <2>2, <2>8, <3>1 DEF TypeOK
    <3> QED
      BY <2>1, <2>8, <3>2 DEF GrantInv, GrantedRightly, Step
  <2>9. \A d \in Call : pc'[d] \in {"refreshing", "refreshed"} =>
          /\ pc[d] \in {"refreshing", "refreshed"}
          /\ d # c => pc'[d] = pc[d]
    BY <2>1 DEF TypeOK
  <2>10. \A d \in Call : pc'[d] \in {"refreshing", "refreshed"} => Refreshable(held[d])'
    BY <2>1, <2>9 DEF GrantInv, Refreshable, NeedsRefresh
  <2> QED
    BY <2>7, <2>8, <2>9, <2>10 DEF GrantInv
<1>7. ASSUME NEW c \in Call, Refuse(c)
      PROVE  GrantInv'
  <2>1. /\ pc[c] = "refreshing" /\ revoked' = revoked \cup {held[c].refresh.login}
        /\ UNCHANGED <<live, now>> /\ End(c)
    BY <1>7 DEF Refuse
  <2>2. \A d \in Call : pc'[d] \in {"refreshing", "refreshed"} =>
          d # c /\ pc'[d] = pc[d] /\ held'[d] = held[d] /\ reply'[d] = reply[d]
    BY <2>1 DEF End, TypeOK
  <2>3. \A d \in Call : d # c /\ pc[d] = "refreshed" =>
          held[d].refresh.login # held[c].refresh.login
    BY <2>1, Apart
  <2> QED
    BY <1>1, <2>1, <2>2, <2>3
<1>8. CASE Tick
  BY <1>1, <1>8 DEF Tick
<1>9. CASE UNCHANGED vars
  BY <1>1, <1>9 DEF vars
<1> QED
  BY <1>2, <1>3, <1>4, <1>5, <1>6, <1>7, <1>8, <1>9 DEF Next, Progress

(* What the map shows of the provider.                                     *)
TakenRight ==
    /\ \A c \in Call : pc[c] = "refreshed" => Taken[held[c].refresh.login] = held[c].refresh.gen
    /\ \A l \in Login : (\A c \in Call : pc[c] = "refreshed" => held[c].refresh.login # l)
         => Taken[l] = live[l]

LEMMA TakenIs == TypeOK /\ OwnershipInv /\ ReplayInv => TakenRight
<1> SUFFICES ASSUME TypeOK, OwnershipInv, ReplayInv PROVE TakenRight
  OBVIOUS
<1>1. ASSUME NEW c \in Call, pc[c] = "refreshed"
      PROVE  Taken[held[c].refresh.login] = held[c].refresh.gen
  <2> DEFINE l == held[c].refresh.login
             d == CHOOSE d \in Granted(l) : TRUE
  <2>1. l \in Login /\ c \in Granted(l)
    BY <1>1, InHand DEF Granted
  <2>2. d \in Granted(l)
    BY <2>1
  <2>3. d \in Call /\ pc[d] = "refreshed" /\ held[d].refresh.login = l
    BY <2>2 DEF Granted
  <2>4. d = c
    BY <1>1, <2>3, Apart
  <2>5. Taken[l] = held[d].refresh.gen
    BY <2>1 DEF Taken
  <2> QED
    BY <2>4, <2>5
<1>2. ASSUME NEW l \in Login, \A c \in Call : pc[c] = "refreshed" => held[c].refresh.login # l
      PROVE  Taken[l] = live[l]
  <2>1. Granted(l) = {}
    BY <1>2 DEF Granted
  <2> QED
    BY <2>1 DEF Taken
<1> QED
  BY <1>1, <1>2 DEF TakenRight

(* The provider counts as moved only when a grant is stored or lost.       *)
LEMMA TakenKept ==
    ASSUME live' = live,
           \A c \in Call : pc'[c] = "refreshed" <=> pc[c] = "refreshed",
           \A c \in Call : pc[c] = "refreshed" => held'[c] = held[c]
    PROVE  Taken' = Taken
<1>1. ASSUME NEW l \in Login
      PROVE  Granted(l)' = Granted(l)
  BY DEF Granted
<1>2. ASSUME NEW l \in Login, Granted(l) # {}
      PROVE  held'[CHOOSE c \in Granted(l) : TRUE] = held[CHOOSE c \in Granted(l) : TRUE]
  <2> DEFINE d == CHOOSE c \in Granted(l) : TRUE
  <2>1. d \in Granted(l)
    BY <1>2
  <2>2. d \in Call /\ pc[d] = "refreshed"
    BY <2>1 DEF Granted
  <2> QED
    BY <2>2
<1>3. ASSUME NEW l \in Login
      PROVE  Taken'[l] = Taken[l]
  <2> DEFINE Chosen(S) == CHOOSE c \in S : TRUE
  <2>1. /\ Taken[l] = IF Granted(l) = {} THEN live[l] ELSE held[Chosen(Granted(l))].refresh.gen
        /\ Taken'[l] = IF Granted(l)' = {} THEN live'[l]
                                          ELSE held'[Chosen(Granted(l)')].refresh.gen
    BY Zenon DEF Taken
  <2>2. Granted(l) # {} => held'[Chosen(Granted(l))] = held[Chosen(Granted(l))]
    BY <1>2
  <2> HIDE DEF Chosen
  <2> QED
    BY <1>1, <2>1, <2>2
<1>4. Taken = [l \in Login |-> Taken[l]] /\ Taken' = [l \in Login |-> Taken'[l]]
  BY DEF Taken
<1> QED
  BY <1>3, <1>4
(* A grant that ends, whether it is stored or lost, is when Sessions moves *)
(* the provider.                                                           *)
LEMMA TakenMoves ==
    ASSUME TypeOK, TypeOK', OwnershipInv, OwnershipInv', ReplayInv, ReplayInv', GrantInv,
           NEW c \in Call, pc[c] = "refreshed", End(c), live' = live
    PROVE  LET r == held[c].refresh IN
           /\ Atomic!Due(store[session[c]]) /\ Atomic!Valid(r) /\ store[session[c]].refresh = r
           /\ \E rotate \in Rotations :
                /\ Taken' = [Taken EXCEPT ![r.login] = IF rotate THEN @ + 1 ELSE @]
                /\ Taken'[r.login] = Step(r, rotate) /\ Taken'[r.login] \in 0..MaxGen
                /\ reply[c].refresh = IF rotate THEN [login |-> r.login, gen |-> r.gen + 1]
                                                ELSE None
<1> DEFINE r == held[c].refresh
<1>1. /\ held[c] = store[session[c]] /\ held[c] # None /\ r # None
      /\ r.login \in Login /\ r.login = held[c].login
  BY InHand
<1>2. Refreshable(held[c]) /\ GrantedRightly(c)
  BY DEF GrantInv
<1>3. Taken[r.login] = r.gen
  BY TakenIs DEF TakenRight
<1>4. Atomic!Due(store[session[c]]) /\ Atomic!Valid(r)
  BY <1>1, <1>2, <1>3 DEF Atomic!Due, Atomic!Valid, Refreshable, NeedsRefresh, GrantedRightly
<1>5. PICK rotate \in Rotations :
        /\ live[r.login] = Step(r, rotate)
        /\ reply[c].refresh = IF rotate THEN [login |-> r.login, gen |-> r.gen + 1] ELSE None
  BY <1>2 DEF GrantedRightly
<1>6. /\ \A d \in Call : pc'[d] = "refreshed" =>
           d # c /\ pc[d] = "refreshed" /\ held'[d] = held[d]
      /\ \A d \in Call : d # c /\ pc[d] = "refreshed" =>
           pc'[d] = "refreshed" /\ held'[d] = held[d]
      /\ \A d \in Call : d # c /\ pc[d] = "refreshed" => held[d].refresh.login # r.login
  BY Apart DEF End, TypeOK
<1>7. TakenRight /\ TakenRight'
  BY TakenIs, PTL
<1>8. Taken'[r.login] = Step(r, rotate)
  BY <1>1, <1>5, <1>6, <1>7 DEF TakenRight
<1>9. ASSUME NEW l \in Login, l # r.login
      PROVE  Taken'[l] = Taken[l]
  <2>1. CASE \E d \in Call : pc'[d] = "refreshed" /\ held'[d].refresh.login = l
    BY <1>6, <1>7, <2>1 DEF TakenRight
  <2>2. CASE \A d \in Call : pc'[d] = "refreshed" => held'[d].refresh.login # l
    <3>1. \A d \in Call : pc[d] = "refreshed" => held[d].refresh.login # l
      BY <1>6, <1>9, <2>2
    <3> QED
      BY <1>7, <2>2, <3>1 DEF TakenRight
  <2> QED
    BY <2>1, <2>2
<1>10. Taken' = [Taken EXCEPT ![r.login] = IF rotate THEN @ + 1 ELSE @]
  <2>1. Taken' = [l \in Login |-> Taken'[l]] /\ Taken = [l \in Login |-> Taken[l]]
    BY DEF Taken
  <2>2. Taken'[r.login] = IF rotate THEN Taken[r.login] + 1 ELSE Taken[r.login]
    BY <1>3, <1>8 DEF Step
  <2> QED
    BY <1>1, <1>9, <2>1, <2>2
<1>11. Taken'[r.login] \in 0..MaxGen
  BY <1>1, <1>5, <1>8 DEF TypeOK
<1> QED
  BY <1>1, <1>4, <1>5, <1>8, <1>10, <1>11

LEMMA AtomicInit == Init => Atomic!Init
<1> SUFFICES ASSUME Init PROVE Atomic!Init
  OBVIOUS
<1>1. \A l \in Login : Granted(l) = {}
  BY DEF Init, Granted
<1>2. Taken = [l \in 1..MaxLogin |-> 0]
  BY <1>1 DEF Init, Taken, Login
<1> QED
  BY <1>2 DEF Init, Atomic!Init

LEMMA AtomicStep ==
    /\ TypeOK /\ TypeOK' /\ OwnershipInv /\ OwnershipInv' /\ ReplayInv /\ ReplayInv' /\ GrantInv
    /\ [Next]_vars
    => [Atomic!Next]_(Atomic!vars)
<1> SUFFICES ASSUME TypeOK, TypeOK', OwnershipInv, OwnershipInv', ReplayInv, ReplayInv', GrantInv,
                    [Next]_vars
             PROVE  [Atomic!Next]_(Atomic!vars)
  OBVIOUS
<1>1. ASSUME NEW s \in Session, SignIn(s)
      PROVE  Atomic!SignIn(s)
  <2>1. Taken' = Taken
    BY <1>1, TakenKept DEF SignIn, provider
  <2> QED
    BY <1>1, <2>1 DEF SignIn, provider, Atomic!SignIn
<1>2. ASSUME NEW s \in Session, SignOut(s)
      PROVE  Atomic!SignOut(s)
  <2>1. Taken' = Taken
    BY <1>2, TakenKept DEF SignOut, provider
  <2> QED
    BY <1>2, <2>1 DEF SignOut, provider, Atomic!SignOut
<1>3. ASSUME NEW s \in Session, NEW c \in Call, Lookup(c, s)
      PROVE  UNCHANGED Atomic!vars
  <2>1. Taken' = Taken
    <3>1. live' = live
      BY <1>3 DEF Lookup, provider
    <3>2. /\ \A d \in Call : pc'[d] = "refreshed" <=> pc[d] = "refreshed"
          /\ \A d \in Call : pc[d] = "refreshed" => held'[d] = held[d]
      BY <1>3 DEF Lookup, TypeOK
    <3> QED
      BY <3>1, <3>2, TakenKept
  <2> QED
    BY <1>3, <2>1 DEF Lookup, provider, history, Atomic!vars
<1>4. ASSUME NEW c \in Call,
             \/ Settle(c) \/ AskRefresh(c)
             \/ RefreshFails(c) /\ pc[c] = "refreshing"
      PROVE  UNCHANGED Atomic!vars
  <2>1. Taken' = Taken
    <3>1. live' = live
      BY <1>4 DEF Settle, AskRefresh, RefreshFails, provider
    <3>2. /\ \A d \in Call : pc'[d] = "refreshed" <=> pc[d] = "refreshed"
          /\ \A d \in Call : pc[d] = "refreshed" => held'[d] = held[d]
      BY <1>4 DEF Settle, AskRefresh, RefreshFails, End, TypeOK
    <3> QED
      BY <3>1, <3>2, TakenKept
  <2> QED
    BY <1>4, <2>1 DEF Settle, AskRefresh, RefreshFails, provider, history, Atomic!vars
<1>5. ASSUME NEW c \in Call, StoreRefreshed(c)
      PROVE  Atomic!Refresh(session[c])
  <2> DEFINE r == held[c].refresh
             s == session[c]
             l == store[s].login
  <2>1. /\ pc[c] = "refreshed" /\ End(c) /\ live' = live
        /\ store' = [store EXCEPT ![s] = Merged(reply[c], held[c])]
        /\ UNCHANGED <<now, logins, revoked, lost>>
    BY <1>5 DEF StoreRefreshed, provider, history
  <2>2. /\ held[c] = store[s] /\ held[c] \in TokenSet /\ r \in RefreshToken /\ r # None
        /\ l \in Login /\ r.login = l /\ reply[c] \in TokenSet /\ reply[c].login = l
    BY <2>1, InHand DEF TypeOK, OwnershipInv
  <2>3. PICK rotate \in Rotations :
          /\ Taken' = [Taken EXCEPT ![r.login] = IF rotate THEN @ + 1 ELSE @]
          /\ Taken'[r.login] = Step(r, rotate) /\ Taken'[r.login] \in 0..MaxGen
          /\ reply[c].refresh = IF rotate THEN [login |-> r.login, gen |-> r.gen + 1] ELSE None
    BY <2>1, TakenMoves
  <2>4. Atomic!Due(store[s]) /\ Atomic!Valid(store[s].refresh)
    BY <2>1, TakenMoves
  <2> DEFINE e == reply[c].expiresAt
  <2>5. e \in {None} \cup (0..(now + Lifetime))
    BY <2>1 DEF GrantInv, GrantedRightly
  <2>6. Merged(reply[c], held[c]) =
          [login |-> l, expiresAt |-> e, refresh |-> [login |-> l, gen |-> Taken'[l]]]
    <3> DEFINE m == Merged(reply[c], held[c])
    <3>1. m.refresh = [login |-> l, gen |-> Taken'[l]]
      <4>1. CASE rotate
        <5>1. reply[c].refresh = [login |-> l, gen |-> Taken'[l]]
          BY <2>2, <2>3, <4>1 DEF Step
        <5>2. reply[c].refresh \in RefreshToken
          BY <2>2, <2>3, <5>1 DEF RefreshToken
        <5> QED
          BY <2>2, <5>1, <5>2, MergedType
      <4>2. CASE ~rotate
        <5>1. m.refresh = r /\ Taken'[l] = r.gen
          BY <2>2, <2>3, <4>2, MergedType DEF Step
        <5>2. r = [login |-> r.login, gen |-> r.gen]
          BY <2>2 DEF RefreshToken
        <5> QED
          BY <2>2, <5>1, <5>2
      <4> QED
        BY <4>1, <4>2
    <3>2. m \in TokenSet /\ m.login = l
      BY <2>2, MergedType
    <3>3. m.expiresAt = e
      BY <2>2 DEF Merged, TokenSet
    <3>4. m = [login |-> m.login, expiresAt |-> m.expiresAt, refresh |-> m.refresh]
      BY <3>2 DEF TokenSet
    <3> HIDE DEF m
    <3> QED
      BY <3>1, <3>2, <3>3, <3>4 DEF m
  <2> HIDE DEF s, l, e, r
  <2>7. /\ Taken' = [Taken EXCEPT ![l] = IF rotate THEN @ + 1 ELSE @]
        /\ Taken'[l] <= MaxGen
        /\ store' = [store EXCEPT ![s] = [login |-> l, expiresAt |-> e,
                            refresh |-> [login |-> l, gen |-> Taken'[l]]]]
    BY <2>1, <2>2, <2>3, <2>6
  <2> QED
    BY <2>1, <2>4, <2>5, <2>7 DEF Atomic!Refresh, s, l, e
<1>6. ASSUME NEW c \in Call, RefreshFails(c), pc[c] = "refreshed"
      PROVE  Atomic!Refresh(session[c])
  <2> DEFINE r == held[c].refresh
             s == session[c]
             l == store[s].login
  <2>1. /\ End(c) /\ live' = live /\ lost' = lost \cup {held[c].login}
        /\ UNCHANGED <<store, now, logins, revoked>>
    BY <1>6 DEF RefreshFails, provider, history
  <2>2. held[c] = store[s] /\ r.login = l
    BY <1>6, InHand
  <2>3. PICK rotate \in Rotations :
          /\ Taken' = [Taken EXCEPT ![r.login] = IF rotate THEN @ + 1 ELSE @]
          /\ Taken'[r.login] \in 0..MaxGen
    BY <1>6, <2>1, TakenMoves
  <2>4. Atomic!Due(store[s]) /\ Atomic!Valid(store[s].refresh)
    BY <1>6, <2>1, TakenMoves
  <2> HIDE DEF s, l, r
  <2>5. /\ Taken' = [Taken EXCEPT ![l] = IF rotate THEN @ + 1 ELSE @]
        /\ Taken'[l] <= MaxGen /\ lost' = lost \cup {l}
    BY <2>1, <2>2, <2>3 DEF l
  <2> QED
    BY <2>1, <2>4, <2>5 DEF Atomic!Refresh, s, l
<1>7. ASSUME NEW c \in Call, Grant(c)
      PROVE  UNCHANGED Atomic!vars
  <2> DEFINE r == held[c].refresh
  <2>1. /\ pc[c] = "refreshing" /\ ~Spent(r)
        /\ pc' = [pc EXCEPT ![c] = "refreshed"]
        /\ UNCHANGED <<store, held, now, logins, revoked, lost>>
    BY <1>7 DEF Grant, history
  <2>2. r.login \in Login /\ r.gen = live[r.login]
    BY <2>1, InHand DEF Spent
  <2>3. \A l \in Login : l # r.login => live'[l] = live[l]
    BY <1>7, <2>2 DEF Grant, TypeOK
  <2>4. /\ \A d \in Call : pc'[d] = "refreshed" <=> pc[d] = "refreshed" \/ d = c
        /\ \A d \in Call : pc[d] = "refreshed" => held[d].refresh.login # r.login
    BY <2>1, Apart DEF TypeOK
  <2>5. TakenRight /\ TakenRight'
    BY TakenIs, PTL
  <2>6. ASSUME NEW l \in Login
        PROVE  Taken'[l] = Taken[l]
    <3>1. CASE l = r.login
      <4>1. Taken'[l] = r.gen
        BY <2>1, <2>4, <2>5, <3>1 DEF TakenRight
      <4>2. Taken[l] = live[l]
        BY <2>4, <2>5, <3>1 DEF TakenRight
      <4> QED
        BY <2>2, <3>1, <4>1, <4>2
    <3>2. CASE l # r.login /\ \E d \in Call : pc[d] = "refreshed" /\ held[d].refresh.login = l
      BY <2>1, <2>4, <2>5, <3>2 DEF TakenRight
    <3>3. CASE l # r.login /\ \A d \in Call : pc[d] = "refreshed" => held[d].refresh.login # l
      <4>1. Taken[l] = live[l]
        BY <2>5, <3>3 DEF TakenRight
      <4>2. Taken'[l] = live'[l]
        BY <2>1, <2>4, <2>5, <3>3 DEF TakenRight
      <4> QED
        BY <2>3, <3>3, <4>1, <4>2
    <3> QED
      BY <3>1, <3>2, <3>3
  <2>7. Taken' = [l \in Login |-> Taken'[l]] /\ Taken = [l \in Login |-> Taken[l]]
    BY DEF Taken
  <2>8. Taken' = Taken
    BY <2>6, <2>7
  <2> QED
    BY <2>1, <2>8 DEF Atomic!vars
<1>8. ASSUME NEW c \in Call, Refuse(c)
      PROVE  Atomic!Theft(session[c])
  <2> DEFINE r == held[c].refresh
             s == session[c]
  <2>1. /\ pc[c] = "refreshing" /\ Spent(r) /\ End(c)
        /\ revoked' = revoked \cup {r.login}
        /\ UNCHANGED <<store, now, logins, live, lost>>
    BY <1>8 DEF Refuse, history
  <2>2. /\ held[c] = store[s] /\ r.login = store[s].login /\ r.login \in Login
        /\ s \in Session /\ held[c] # None /\ r # None
    BY <2>1, InHand
  <2>3. Taken' = Taken
    <3>1. /\ \A d \in Call : pc'[d] = "refreshed" <=> pc[d] = "refreshed"
          /\ \A d \in Call : pc[d] = "refreshed" => held'[d] = held[d]
      BY <2>1 DEF End, TypeOK
    <3> QED
      BY <2>1, <3>1, TakenKept
  <2>4. Taken[r.login] = live[r.login]
    <3>1. \A d \in Call : pc[d] = "refreshed" => held[d].refresh.login # r.login
      BY <2>1, Apart
    <3> QED
      BY <2>2, <3>1, TakenIs DEF TakenRight
  <2>5. r.login \in lost
    <3>1. ~Refreshing(s)
      BY <2>1, <2>2 DEF Refreshing, ReplayInv
    <3>2. Current(store[s], live, revoked, lost)
      BY <2>2, <3>1 DEF ReplayInv
    <3> QED
      BY <2>1, <2>2, <3>2 DEF Current, Spent
  <2>6. Atomic!Due(store[s]) /\ ~Atomic!Valid(store[s].refresh)
    <3>1. Refreshable(held[c])
      BY <2>1 DEF GrantInv
    <3> QED
      BY <2>1, <2>2, <2>4, <3>1 DEF Atomic!Due, Atomic!Valid, Refreshable, NeedsRefresh, Spent
  <2> QED
    BY <2>1, <2>2, <2>3, <2>5, <2>6 DEF Atomic!Theft
<1>9. ASSUME Tick PROVE Atomic!Tick
  <2>1. Taken' = Taken
    BY <1>9, TakenKept DEF Tick, provider
  <2> QED
    BY <1>9, <2>1 DEF Tick, provider, history, Atomic!Tick
<1>10. CASE UNCHANGED vars
  <2>1. Taken' = Taken
    BY <1>10, TakenKept DEF vars
  <2> QED
    BY <1>10, <2>1 DEF vars, Atomic!vars
<1>11. ASSUME NEW c \in Call, RefreshFails(c)
       PROVE  Atomic!Refresh(session[c]) \/ UNCHANGED Atomic!vars
  BY <1>4, <1>6, <1>11 DEF RefreshFails
<1>12. \A c \in Call : session[c] \in Session
  BY DEF TypeOK
<1> QED
  BY <1>1, <1>2, <1>3, <1>4, <1>5, <1>7, <1>8, <1>9, <1>10, <1>11, <1>12
     DEF Next, Progress, Atomic!Next

(* Where the caller locks, a refresh is atomic: the manager, with its      *)
(* awaits, implements Sessions.                                            *)
THEOREM ImplementsUnderLock ==
    ASSUME Locked
    PROVE  Spec => ImplementsSessions
<1>1. TypeOK /\ TypeOK' /\ OwnershipInv /\ ReplayInv /\ [Next]_vars => ReplayInv'
  BY ReplayStep
<1>2. Init => GrantInv
  BY DEF Init, GrantInv
<1> QED
  BY Typing, OwnershipHolds, ReplayInit, <1>1, <1>2, GrantStep, AtomicInit, AtomicStep, PTL
     DEF Spec, ImplementsSessions, Atomic!Spec
=============================================================================
