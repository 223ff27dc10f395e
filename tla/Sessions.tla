------------------------------ MODULE Sessions ------------------------------
(***************************************************************************)
(* What TokenManager promises a caller that keeps the calls on a session   *)
(* apart: a store of sessions in which a refresh is one step.  The store   *)
(* and the provider move together, only for tokens that are due, and only  *)
(* with a refresh token the provider takes; or the answer is lost, and the *)
(* provider moves alone.                                                   *)
(***************************************************************************)
EXTENDS Integers

CONSTANTS Session, Rotations, Lifetime, Margin, MaxLogin, MaxGen, MaxTime, None

VARIABLES store,    \* store[s]: the token set of session s, or None
          now,      \* the clock
          logins,   \* the sign-ins so far
          live,     \* live[l]: the generation of l's refresh token now valid
          revoked,  \* sign-ins the provider has revoked
          lost      \* sign-ins with a refresh whose answer was lost

vars == <<store, now, logins, live, revoked, lost>>

Init == /\ store = [s \in Session |-> None]
        /\ now = 0 /\ logins = 0
        /\ live = [l \in 1..MaxLogin |-> 0] /\ revoked = {} /\ lost = {}

SignIn(s) ==
    /\ logins < MaxLogin
    /\ logins' = logins + 1
    /\ \E r \in {None, [login |-> logins', gen |-> 0]}, e \in {None, now + Lifetime} :
         store' = [store EXCEPT ![s] = [login |-> logins', refresh |-> r, expiresAt |-> e]]
    /\ UNCHANGED <<now, live, revoked, lost>>

SignOut(s) ==
    /\ store' = [store EXCEPT ![s] = None]
    /\ UNCHANGED <<now, logins, live, revoked, lost>>

(* An access token within the margin of its end, and a means to renew it.  *)
Due(ts) == /\ ts # None /\ ts.refresh # None
           /\ ts.expiresAt # None /\ now >= ts.expiresAt - Margin

Valid(r) == r.gen = live[r.login] /\ r.login \notin revoked

(* The provider takes the refresh token, rotates it or not, and the answer *)
(* is stored or lost; what is stored then is what the provider will take.  *)
Refresh(s) ==
    /\ Due(store[s]) /\ Valid(store[s].refresh)
    /\ LET l == store[s].login IN
       \E rotate \in Rotations, e \in {None} \cup (0..(now + Lifetime)) :
         /\ live' = [live EXCEPT ![l] = IF rotate THEN @ + 1 ELSE @]
         /\ live'[l] <= MaxGen
         /\ \/ /\ store' = [store EXCEPT ![s] = [login |-> l, expiresAt |-> e,
                                  refresh |-> [login |-> l, gen |-> live'[l]]]]
               /\ UNCHANGED lost
            \/ lost' = lost \cup {l} /\ UNCHANGED store
    /\ UNCHANGED <<now, logins, revoked>>

(* After a lost answer alone, the provider may see a spent token again.    *)
Theft(s) ==
    /\ Due(store[s]) /\ ~Valid(store[s].refresh)
    /\ store[s].login \in lost
    /\ revoked' = revoked \cup {store[s].login}
    /\ UNCHANGED <<store, now, logins, live, lost>>

Tick == now' = now + 1 /\ UNCHANGED <<store, logins, live, revoked, lost>>

Next == \/ \E s \in Session : SignIn(s) \/ SignOut(s) \/ Refresh(s) \/ Theft(s)
        \/ Tick

Spec == Init /\ [][Next]_vars
=============================================================================
