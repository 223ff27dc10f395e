----------------------------- MODULE TokenCheck -----------------------------
(***************************************************************************)
(* What TokenValidator.validate_token promises its callers, with no cache, *)
(* no discovery and no retry: an accepted token is sound and rests on a    *)
(* key the provider has published at some time; a sound, unexpired token   *)
(* is refused only if, at some moment of that very call, the provider's    *)
(* published document did not list its key.  A call may also fail for      *)
(* reasons that say nothing about the token.                               *)
(***************************************************************************)
EXTENDS Tokens

CONSTANTS Call, Presented

VARIABLES status,     \* status[c]: where call c stands
          token,      \* token[c]: the token call c is about
          started,    \* started[c]: when call c began
          now,        \* the clock
          published,  \* the document the provider publishes at this moment
          vouched,    \* every key the provider has published so far
          missing     \* missing[c]: during c, a published document lacked c's key

vars == <<status, token, started, now, published, vouched, missing>>

Init ==
    /\ status = [c \in Call |-> "none"]
    /\ token = [c \in Call |-> CHOOSE tok \in Presented : TRUE]
    /\ started = [c \in Call |-> 0]
    /\ now = 0
    /\ published \in Document
    /\ vouched = published
    /\ missing = [c \in Call |-> FALSE]

MayAccept(tok, since) == Sound(tok) /\ tok.key \in vouched /\ since <= tok.exp

MayRefuse(tok, lacked) == Sound(tok) /\ now <= tok.exp => lacked

Outcomes(tok, since, lacked) ==
    {v \in {"accepted", "refused", "failed"} :
        /\ v = "accepted" => MayAccept(tok, since)
        /\ v = "refused" => MayRefuse(tok, lacked)}

(* A call enters, and may be answered at once.                             *)
Enter(c, tok) ==
    /\ status[c] # "pending"
    /\ token' = [token EXCEPT ![c] = tok]
    /\ started' = [started EXCEPT ![c] = now]
    /\ missing' = [missing EXCEPT ![c] = tok.key \notin published]
    /\ \E v \in {"pending"} \cup Outcomes(tok, now, tok.key \notin published) :
         status' = [status EXCEPT ![c] = v]
    /\ UNCHANGED <<now, published, vouched>>

Answer(c) ==
    /\ status[c] = "pending"
    /\ \E v \in Outcomes(token[c], started[c], missing[c]) :
         status' = [status EXCEPT ![c] = v]
    /\ UNCHANGED <<token, started, now, published, vouched, missing>>

Publish(doc) ==
    /\ published' = doc
    /\ vouched' = vouched \cup doc
    /\ missing' = [c \in Call |->
                     missing[c] \/ (status[c] = "pending" /\ token[c].key \notin doc)]
    /\ UNCHANGED <<status, token, started, now>>

Tick == now' = now + 1 /\ UNCHANGED <<status, token, started, published, vouched, missing>>

Next == \/ \E c \in Call : (\E tok \in Presented : Enter(c, tok)) \/ Answer(c)
        \/ \E doc \in Document : Publish(doc)
        \/ Tick

Spec == Init /\ [][Next]_vars
=============================================================================
