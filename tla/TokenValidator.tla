--------------------------- MODULE TokenValidator ---------------------------
(***************************************************************************)
(* oidcutils.resource.TokenValidator: one validator shared by the          *)
(* concurrent validate_token calls of one event loop.  A call runs without *)
(* interruption between two awaits, so a step goes from one await to the   *)
(* next; the awaited requests are answered by steps of the provider.       *)
(***************************************************************************)
EXTENDS Tokens

CONSTANTS Call,             \* the concurrent calls of validate_token
          Presented,        \* the tokens callers present
          ForeignDocument,  \* what the jwks_uri of another issuer serves
          NoDoc,            \* self._jwks is None
          MaxTime           \* bound on the clock

ASSUME ValidatorAssumption ==
    /\ Presented \subseteq Token /\ Presented # {}
    /\ ForeignDocument \subseteq Key
    /\ (\A doc \in SUBSET Key : NoDoc # doc) /\ NoDoc # Unusable
    /\ MaxTime \in Nat

VARIABLES jwks,       \* self._jwks
          jwksUri,    \* self._jwks_uri: "none", "home" or "foreign"
          pc,         \* where each call is suspended
          token, forced, reply, started, verdict,      \* locals of each call
          published,  \* the document the provider publishes at this moment
          now,        \* the clock
          vouched, missing        \* history, see TokenCheck

cache == <<jwks, jwksUri>>
provider == <<published, now, vouched>>
vars == <<jwks, jwksUri, pc, token, forced, reply, started, verdict,
          published, now, vouched, missing>>

(* An Unusable document is cached as readily as any other: line 69 stores  *)
(* the body before line 70 tries to import it.                             *)
Cacheable == (SUBSET Key) \cup {Unusable}

Init ==
    /\ jwks = NoDoc /\ jwksUri = "none"
    /\ pc = [c \in Call |-> "idle"]
    /\ token = [c \in Call |-> CHOOSE tok \in Presented : TRUE]
    /\ forced = [c \in Call |-> FALSE]
    /\ reply = [c \in Call |-> NoDoc]
    /\ started = [c \in Call |-> 0]
    /\ verdict = [c \in Call |-> "none"]
    /\ published \in Document
    /\ now = 0
    /\ vouched = published
    /\ missing = [c \in Call |-> FALSE]

-----------------------------------------------------------------------------
(* The call returns or raises.                                             *)
Answer(c, v) ==
    /\ pc' = [pc EXCEPT ![c] = "idle"]
    /\ verdict' = [verdict EXCEPT ![c] = v]
    /\ forced' = [forced EXCEPT ![c] = FALSE]

(* _get_keyset past its cache test: ask for the keys, after discovery      *)
(* where the jwks_uri is not known yet.                                    *)
Fetch(c, retrying) ==
    /\ pc' = [pc EXCEPT ![c] = IF jwksUri = "none" THEN "askDiscovery" ELSE "askKeys"]
    /\ forced' = [forced EXCEPT ![c] = retrying]
    /\ verdict' = [verdict EXCEPT ![c] = "none"]

(* Bugs: a signature failure that is not retried, and a retry for every    *)
(* error the library raises.                                               *)
RetriedWithoutSignature == {"DecodeError", "InvalidKeyIdError"}
RetriedJoseError == {"BadSignatureError", "DecodeError", "InvalidKeyIdError",
                     "UnsupportedAlgorithmError", "ExpiredTokenError", "InvalidClaimError"}

(* The errors that are answered by refetching the keys, once.              *)
Retried == {"BadSignatureError", "DecodeError", "InvalidKeyIdError"}

(* Bug: a retry that may be retried again.                                 *)
DecideAgain(c, tok, doc, since, retrying) ==
    \/ doc = Unusable /\ Answer(c, "unusable")
    \/ /\ doc # Unusable
       /\ IF Errors(tok, doc, now) = {} THEN Answer(c, "accepted") ELSE Fetch(c, TRUE)

(* From a key document in hand to the next await or the answer.  joserfc   *)
(* reads the clock when the claims registry is built or when it is used.   *)
Decide(c, tok, doc, since, retrying) ==
    \/ doc = Unusable /\ Answer(c, "unusable")
    \/ /\ doc # Unusable
       /\ \E t \in since..now :
            \/ /\ Errors(tok, doc, t) = {}
               /\ Answer(c, IF tok.claims = "unmappable" THEN "mappingError" ELSE "accepted")
            \/ \E e \in Errors(tok, doc, t) :
                 IF e \in Retried /\ ~retrying THEN Fetch(c, TRUE)
                                               ELSE Answer(c, "refused")

Begin(c, tok) ==
    /\ pc[c] = "idle"
    /\ token' = [token EXCEPT ![c] = tok]
    /\ started' = [started EXCEPT ![c] = now]
    /\ missing' = [missing EXCEPT ![c] = tok.key \notin published]
    /\ IF jwks = NoDoc THEN Fetch(c, FALSE) ELSE Decide(c, tok, jwks, now, FALSE)
    /\ UNCHANGED <<cache, reply, provider>>

(* Bugs: the uri kept before the issuer is compared; and never compared.   *)
ResumeDiscoveryEarly(c) ==
    /\ pc[c] \in {"gotHome", "gotForeign"}
    /\ jwksUri' = IF pc[c] = "gotHome" THEN "home" ELSE "foreign"
    /\ IF pc[c] = "gotHome"
       THEN pc' = [pc EXCEPT ![c] = "askKeys"] /\ UNCHANGED <<verdict, forced>>
       ELSE Answer(c, "mismatch")
    /\ UNCHANGED <<jwks, token, reply, started, missing, provider>>

ResumeDiscoveryUnchecked(c) ==
    /\ pc[c] \in {"gotHome", "gotForeign"}
    /\ jwksUri' = IF pc[c] = "gotHome" THEN "home" ELSE "foreign"
    /\ pc' = [pc EXCEPT ![c] = "askKeys"]
    /\ UNCHANGED <<jwks, verdict, forced, token, reply, started, missing, provider>>

(* The two halves of _ensure_jwks_uri's test of the issuer.                *)
ResumeDiscovery(c) ==
    /\ \/ /\ pc[c] = "gotHome"
          /\ jwksUri' = "home"
          /\ pc' = [pc EXCEPT ![c] = "askKeys"]
          /\ UNCHANGED <<verdict, forced>>
       \/ /\ pc[c] = "gotForeign"
          /\ Answer(c, "mismatch")
          /\ UNCHANGED jwksUri
    /\ UNCHANGED <<jwks, token, reply, started, missing, provider>>

(* Bug: a document that is already cached is kept, and judges the token.   *)
ResumeKeysFirstWins(c) ==
    /\ pc[c] = "gotKeys"
    /\ jwks' = IF jwks = NoDoc THEN reply[c] ELSE jwks
    /\ Decide(c, token[c], jwks', started[c], forced[c])
    /\ reply' = [reply EXCEPT ![c] = NoDoc]
    /\ UNCHANGED <<jwksUri, token, started, missing, provider>>

ResumeKeys(c) ==
    /\ pc[c] = "gotKeys"
    /\ jwks' = reply[c]
    /\ Decide(c, token[c], reply[c], started[c], forced[c])
    /\ reply' = [reply EXCEPT ![c] = NoDoc]
    /\ UNCHANGED <<jwksUri, token, started, missing, provider>>

(* A request that ends in an httpx error or in a body that is not JSON.    *)
FetchFails(c) ==
    /\ pc[c] \in {"askDiscovery", "askKeys"}
    /\ Answer(c, "unreachable")
    /\ UNCHANGED <<cache, token, reply, started, missing, provider>>

-----------------------------------------------------------------------------
(* The provider, or whoever answers in its place.                          *)
ServeDiscovery(c) ==
    /\ pc[c] = "askDiscovery"
    /\ pc' = [pc EXCEPT ![c] = "gotHome"] \/ pc' = [pc EXCEPT ![c] = "gotForeign"]
    /\ UNCHANGED <<cache, token, forced, reply, started, verdict, missing, provider>>

ServeKeys(c) ==
    /\ pc[c] = "askKeys"
    /\ pc' = [pc EXCEPT ![c] = "gotKeys"]
    /\ \E doc \in {IF jwksUri = "home" THEN published ELSE ForeignDocument, Unusable} :
         reply' = [reply EXCEPT ![c] = doc]
    /\ UNCHANGED <<cache, token, forced, started, verdict, missing, provider>>

Publish(doc) ==
    /\ published' = doc
    /\ vouched' = vouched \cup doc
    /\ missing' = [c \in Call |->
                     missing[c] \/ (pc[c] # "idle" /\ token[c].key \notin doc)]
    /\ UNCHANGED <<cache, pc, token, forced, reply, started, verdict, now>>

Tick ==
    /\ now < MaxTime
    /\ now' = now + 1
    /\ UNCHANGED <<cache, pc, token, forced, reply, started, verdict, published, vouched, missing>>

Progress(c) == ServeDiscovery(c) \/ ServeKeys(c) \/ FetchFails(c)
               \/ ResumeDiscovery(c) \/ ResumeKeys(c)

Next == \/ \E c \in Call : (\E tok \in Presented : Begin(c, tok)) \/ Progress(c)
        \/ \E doc \in Document : Publish(doc)
        \/ Tick

Spec == Init /\ [][Next]_vars

(* httpx ends every request, by its default timeout if nothing else does,  *)
(* and the event loop resumes every call whose request has ended.          *)
FairSpec == Spec /\ \A c \in Call : WF_vars(Progress(c))
-----------------------------------------------------------------------------
(* Every variable has its type; the jwks_uri that is kept is always one    *)
(* that the configured issuer's own discovery document named.              *)
TypeOK ==
    /\ jwks \in Cacheable \cup {NoDoc}
    /\ jwksUri \in {"none", "home"}
    /\ pc \in [Call -> {"idle", "askDiscovery", "gotHome", "gotForeign", "askKeys", "gotKeys"}]
    /\ token \in [Call -> Presented]
    /\ forced \in [Call -> BOOLEAN]
    /\ reply \in [Call -> Cacheable \cup {NoDoc}]
    /\ started \in [Call -> 0..now]
    /\ verdict \in [Call -> {"none", "accepted", "refused", "mismatch", "unusable",
                             "unreachable", "mappingError"}]
    /\ published \in Document
    /\ now \in 0..MaxTime
    /\ vouched \in SUBSET Key
    /\ missing \in [Call -> BOOLEAN]

(* No interleaving of calls, rotations and answers from a wrong issuer     *)
(* (lines 54-57) lets a token through that is not sound, that had expired  *)
(* before its call began, or whose key the provider never published.       *)
AcceptedOnlyIfVouched ==
    \A c \in Call : verdict[c] \in {"accepted", "mappingError"} =>
        Sound(token[c]) /\ token[c].key \in vouched /\ started[c] <= token[c].exp

(* A sound token whose key is published for as long as its call lasts is   *)
(* never refused, however stale the cache the call found: the retry of     *)
(* lines 86-98 judges the token by a document served to this very call.    *)
RefusalIsFresh ==
    \A c \in Call : verdict[c] = "refused" /\ Sound(token[c]) /\ now <= token[c].exp =>
        missing[c]

(* A call starts a retry only over a document that does not vouch for the  *)
(* token's signature: one that is refused for its algorithm, its claims or *)
(* its age costs the provider nothing more (lines 101-113).                *)
RefetchOnlyForKeyTrouble ==
    [][\A c \in Call : ~forced[c] /\ forced'[c] =>
         \/ ~token'[c].wellFormed
         \/ token'[c].key \notin jwks']_vars

(* How far a call is from its end: what it may still ask of the provider,  *)
(* each request counted when it is sent and when it is answered.           *)
Ahead(c) == (IF forced[c] THEN 0 ELSE 2) +
            CASE pc[c] = "askDiscovery"              -> 4
              [] pc[c] \in {"gotHome", "gotForeign"} -> 3
              [] pc[c] = "askKeys"                   -> 2
              [] pc[c] = "gotKeys"                   -> 1
              [] pc[c] = "idle"                      -> 0

(* A rotation under load multiplies requests, since every suspended call   *)
(* refetches for itself (line 88), but never those of one call: whatever   *)
(* other calls and the provider do meanwhile, it only gets nearer to its   *)
(* end.  So it asks for keys twice at the most.                            *)
CallsRunDown ==
    [][\A c \in Call : pc[c] # "idle" /\ pc'[c] # "idle" =>
         \/ Ahead(c)' < Ahead(c)
         \/ UNCHANGED <<pc[c], forced[c]>>]_vars

(* Whatever the provider does, every call of validate_token ends.          *)
EveryCallAnswered == \A c \in Call : pc[c] # "idle" ~> pc[c] = "idle"

(* The validator keeps the promise of TokenCheck: a suspended call is      *)
(* pending, and failures that say nothing of the token are one outcome.    *)
Status(c) ==
    CASE pc[c] # "idle" -> "pending"
      [] pc[c] = "idle" /\ verdict[c] = "none" -> "none"
      [] pc[c] = "idle" /\ verdict[c] \in {"accepted", "refused"} -> verdict[c]
      [] OTHER -> "failed"

Check == INSTANCE TokenCheck WITH status <- [c \in Call |-> Status(c)]
ImplementsTokenCheck == Check!Spec

-----------------------------------------------------------------------------
(* README.md:24: the cached keys never take the service down.  A call      *)
(* fails over an unusable document only if the provider served it one.     *)
UnusableIsFresh ==
    [][\A c \in Call : verdict'[c] = "unusable" /\ verdict[c] # "unusable" =>
         reply[c] = Unusable]_vars
=============================================================================
