---------------------------- MODULE BrowserLogin ----------------------------
(***************************************************************************)
(* What the browser login promises for each login, however many workers    *)
(* serve it, however often its callback is sent and whoever restarts: its  *)
(* steps come in order and once each.  The code reaches the provider in    *)
(* one of them, the session is stored in another and the cookie handed out *)
(* in a third; a session that is lost does not come back.                  *)
(***************************************************************************)
EXTENDS Naturals

CONSTANT Login

VARIABLES stage,      \* stage[l]: how far login l is
          presented,  \* presented[l]: how often its code was sent to the provider
          held        \* the logins whose session some store holds

vars == <<stage, presented, held>>

Init == /\ stage = [l \in Login |-> "away"]
        /\ presented = [l \in Login |-> 0]
        /\ held = {}

Forward(l, from, to) == stage[l] = from /\ stage' = [stage EXCEPT ![l] = to]

Begin(l) == Forward(l, "away", "authorize") /\ UNCHANGED <<presented, held>>

Return(l) == Forward(l, "authorize", "returning") /\ UNCHANGED <<presented, held>>

(* One callback, of all that a browser may send, takes the login on.       *)
Claim(l) == Forward(l, "returning", "exchanging") /\ UNCHANGED <<presented, held>>

Exchange(l) ==
    /\ Forward(l, "exchanging", "granted") \/ Forward(l, "exchanging", "ended")
    /\ presented' = [presented EXCEPT ![l] = @ + 1]
    /\ UNCHANGED held

Store(l) ==
    /\ Forward(l, "granted", "stored")
    /\ held' = held \cup {l}
    /\ UNCHANGED presented

SignIn(l) == Forward(l, "stored", "signedIn") /\ UNCHANGED <<presented, held>>

(* A request fails, or a worker restarts: logins it was serving end, with  *)
(* a session that nobody has the cookie of if one was stored already, and  *)
(* sessions it kept are gone.                                              *)
Lose ==
    /\ \E ended \in SUBSET {l \in Login : stage[l] \in {"exchanging", "granted", "stored"}} :
         stage' = [l \in Login |-> IF l \in ended THEN "ended" ELSE stage[l]]
    /\ held' \in SUBSET held
    /\ UNCHANGED presented

Next == \/ Lose
        \/ \E l \in Login :
             \/ Begin(l) \/ Return(l) \/ Claim(l) \/ Exchange(l) \/ Store(l) \/ SignIn(l)

Spec == Init /\ [][Next]_vars
=============================================================================
