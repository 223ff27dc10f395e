------------------------ MODULE TokenValidatorProofs ------------------------
(***************************************************************************)
(* Safety of TokenValidator for every set of keys, documents, tokens and   *)
(* concurrent calls.                                                       *)
(***************************************************************************)
EXTENDS TokenValidator, TLAPS

(* decode and validate raise nothing only about a token that is sound,     *)
(* signed with a key of the document and not expired.                      *)
LEMMA NoErrors ==
    ASSUME NEW tok \in Token, NEW doc, NEW t \in Int, Errors(tok, doc, t) = {}
    PROVE  Sound(tok) /\ tok.key \in doc /\ t <= tok.exp
<1>1. DecodeErrors(tok, doc) = {} /\ ClaimErrors(tok, t) = {}
  BY DEF Errors
<1>2. tok.wellFormed /\ tok.alg # "refused"
  BY <1>1 DEF DecodeErrors
<1>3. tok.alg = "accepted"
  BY <1>2 DEF Token
<1>4. KidOf[tok.key] \in Kids(doc) /\ tok.key \in doc
  BY <1>1, <1>2, <1>3 DEF DecodeErrors
<1>5. tok.claims # "bad" /\ ~(tok.exp < t)
  BY <1>1 DEF ClaimErrors
<1>6. tok.exp \in Int
  BY DEF Token
<1> QED
  BY <1>2, <1>3, <1>4, <1>5, <1>6 DEF Sound

(* An error about a sound, unexpired token is one that a fresh document    *)
(* may cure: its key is not in the document.                               *)
LEMMA ErrorsOfSound ==
    ASSUME NEW tok \in Token, NEW doc, NEW t \in Int, NEW e \in Errors(tok, doc, t),
           Sound(tok), t <= tok.exp
    PROVE  tok.key \notin doc /\ e \in Retried
<1>1. ClaimErrors(tok, t) = {}
  <2>1. ~(tok.exp < t)
    BY DEF Token
  <2> QED
    BY <2>1 DEF ClaimErrors, Sound
<1>2. e \in DecodeErrors(tok, doc)
  BY <1>1 DEF Errors
<1>3. tok.wellFormed /\ tok.alg # "refused"
  BY DEF Sound
<1>4. \/ e = "InvalidKeyIdError" /\ KidOf[tok.key] \notin Kids(doc)
      \/ e = "BadSignatureError" /\ tok.key \notin doc
  BY <1>2, <1>3 DEF DecodeErrors
<1>5. KidOf[tok.key] \notin Kids(doc) => tok.key \notin doc
  BY DEF Kids
<1> QED
  BY <1>4, <1>5 DEF Retried

(* An error that is retried is about the token's signature or its key.     *)
LEMMA RetriedErrors ==
    ASSUME NEW tok, NEW doc, NEW t, NEW e \in Errors(tok, doc, t), e \in Retried
    PROVE  ~tok.wellFormed \/ tok.key \notin doc
<1>1. e \in DecodeErrors(tok, doc)
  BY DEF Errors, ClaimErrors, Retried
<1>2. tok.wellFormed => KidOf[tok.key] \notin Kids(doc) \/ tok.key \notin doc
  BY <1>1 DEF DecodeErrors, Retried
<1>3. tok.key \in doc => KidOf[tok.key] \in Kids(doc)
  BY DEF Kids
<1> QED
  BY <1>2, <1>3

Verdicts == {"accepted", "refused", "mismatch", "unusable", "unreachable", "mappingError"}

(* What a key document in hand leads to: a retry over a document that does *)
(* not vouch for the token, or an answer that is right about the document  *)
(* it was judged by.                                                       *)
Outcome(c, tok, doc, since, retrying) ==
    \/ ~retrying /\ Fetch(c, TRUE) /\ (~tok.wellFormed \/ tok.key \notin doc)
    \/ \E v \in Verdicts :
         /\ Answer(c, v)
         /\ v \in {"accepted", "mappingError", "refused"} => doc # Unusable
         /\ v \in {"accepted", "mappingError"} =>
              Sound(tok) /\ tok.key \in doc /\ since <= tok.exp
         /\ v = "refused" /\ Sound(tok) /\ now <= tok.exp =>
              retrying /\ tok.key \notin doc

LEMMA DecideOutcome ==
    ASSUME NEW c \in Call, NEW tok \in Token, NEW doc, NEW since \in Int,
           NEW retrying \in BOOLEAN, now \in Int, Decide(c, tok, doc, since, retrying)
    PROVE  Outcome(c, tok, doc, since, retrying)
<1>2. ASSUME doc # Unusable, NEW t \in since..now, Errors(tok, doc, t) = {},
             Answer(c, IF tok.claims = "unmappable" THEN "mappingError" ELSE "accepted")
      PROVE  \E v \in {"accepted", "mappingError"} :
               /\ Answer(c, v)
               /\ Sound(tok) /\ tok.key \in doc /\ since <= tok.exp
  <2>1. Sound(tok) /\ tok.key \in doc /\ t <= tok.exp
    BY <1>2, NoErrors
  <2>2. since <= tok.exp
    BY <2>1 DEF Token
  <2> QED
    BY <1>2, <2>1, <2>2
<1>3. ASSUME NEW t \in since..now, NEW e \in Errors(tok, doc, t), ~(e \in Retried /\ ~retrying),
             Sound(tok), now <= tok.exp
      PROVE  retrying /\ tok.key \notin doc
  <2>1. t <= tok.exp
    BY <1>3 DEF Token
  <2> QED
    BY <1>3, <2>1, ErrorsOfSound
<1>4. ASSUME doc # Unusable, NEW t \in since..now, NEW e \in Errors(tok, doc, t),
             IF e \in Retried /\ ~retrying THEN Fetch(c, TRUE) ELSE Answer(c, "refused")
      PROVE  Outcome(c, tok, doc, since, retrying)
  <2>1. CASE e \in Retried /\ ~retrying
    BY <1>4, <2>1, RetriedErrors DEF Outcome
  <2>2. CASE ~(e \in Retried /\ ~retrying)
    BY <1>3, <1>4, <2>2 DEF Outcome, Verdicts
  <2> QED
    BY <2>1, <2>2
<1>5. (doc = Unusable /\ Answer(c, "unusable")) => Outcome(c, tok, doc, since, retrying)
  BY DEF Outcome, Verdicts
<1>6. ASSUME doc # Unusable, NEW t \in since..now, Errors(tok, doc, t) = {},
             Answer(c, IF tok.claims = "unmappable" THEN "mappingError" ELSE "accepted")
      PROVE  Outcome(c, tok, doc, since, retrying)
  BY <1>2, <1>6 DEF Outcome, Verdicts
<1> QED
  BY <1>4, <1>5, <1>6 DEF Decide

-----------------------------------------------------------------------------
USE DocumentAssumption, ValidatorAssumption

(* Every variable keeps its type, and a jwks_uri is only ever kept from a  *)
(* discovery document whose issuer is the configured one.                  *)
LEMMA TypeInit == Init => TypeOK
BY DEF Init, TypeOK, Cacheable

LEMMA TypeStep == TypeOK /\ [Next]_vars => TypeOK'
<1> SUFFICES ASSUME TypeOK, [Next]_vars PROVE TypeOK'
  OBVIOUS
<1> USE DEF TypeOK, cache, provider
<1>1. ASSUME NEW c \in Call, NEW tok \in Presented, Begin(c, tok)
      PROVE  TypeOK'
  <2>1. now \in Int /\ tok \in Token
    OBVIOUS
  <2>2. \/ \E b \in BOOLEAN : Fetch(c, b)
        \/ \E v \in Verdicts : Answer(c, v)
    <3>1. Fetch(c, FALSE) \/ Decide(c, tok, jwks, now, FALSE)
      BY <1>1 DEF Begin
    <3>2. Fetch(c, FALSE) \/ Outcome(c, tok, jwks, now, FALSE)
      BY <2>1, <3>1, DecideOutcome
    <3> QED
      BY <3>2 DEF Outcome
  <2>3. /\ pc' \in [Call -> {"idle", "askDiscovery", "gotHome", "gotForeign",
                              "askKeys", "gotKeys"}]
        /\ forced' \in [Call -> BOOLEAN]
        /\ verdict' \in [Call -> Verdicts \cup {"none"}]
    BY <2>2 DEF Fetch, Answer, Verdicts
  <2>4. missing' \in [Call -> BOOLEAN]
    BY <1>1 DEF Begin
  <2>5. token' \in [Call -> Presented] /\ started' \in [Call -> 0..now]
    BY <1>1 DEF Begin
  <2>6. UNCHANGED <<cache, reply, provider>>
    BY <1>1 DEF Begin
  <2> QED
    BY <2>3, <2>4, <2>5, <2>6 DEF Verdicts
<1>2. ASSUME NEW c \in Call, ResumeKeys(c)
      PROVE  TypeOK'
  <2>1. now \in Int /\ token[c] \in Token /\ started[c] \in Int
    OBVIOUS
  <2>2. \/ \E b \in BOOLEAN : Fetch(c, b)
        \/ \E v \in Verdicts : Answer(c, v)
    <3>1. Decide(c, token[c], reply[c], started[c], forced[c])
      BY <1>2 DEF ResumeKeys
    <3>2. Outcome(c, token[c], reply[c], started[c], forced[c])
      BY <2>1, <3>1, DecideOutcome
    <3> QED
      BY <3>2 DEF Outcome
  <2>3. /\ pc' \in [Call -> {"idle", "askDiscovery", "gotHome", "gotForeign",
                              "askKeys", "gotKeys"}]
        /\ forced' \in [Call -> BOOLEAN]
        /\ verdict' \in [Call -> Verdicts \cup {"none"}]
    BY <2>2 DEF Fetch, Answer, Verdicts
  <2> QED
    BY <1>2, <2>3 DEF ResumeKeys, Verdicts
<1>3. ASSUME NEW c \in Call, ResumeDiscovery(c)
      PROVE  TypeOK'
  BY <1>3 DEF ResumeDiscovery, Answer
<1>4. ASSUME NEW c \in Call, FetchFails(c)
      PROVE  TypeOK'
  BY <1>4 DEF FetchFails, Answer
<1>5. ASSUME NEW c \in Call, ServeDiscovery(c)
      PROVE  TypeOK'
  BY <1>5 DEF ServeDiscovery
<1>6. ASSUME NEW c \in Call, ServeKeys(c)
      PROVE  TypeOK'
  BY <1>6 DEF ServeKeys, Cacheable
<1>7. ASSUME NEW doc \in Document, Publish(doc)
      PROVE  TypeOK'
  BY <1>7 DEF Publish
<1>8. CASE Tick
  BY <1>8 DEF Tick
<1>9. CASE UNCHANGED vars
  BY <1>9 DEF vars
<1> QED
  BY <1>1, <1>2, <1>3, <1>4, <1>5, <1>6, <1>7, <1>8, <1>9 DEF Next, Progress

THEOREM Typing == Spec => []TypeOK
BY TypeInit, TypeStep, PTL DEF Spec

-----------------------------------------------------------------------------
(* Why the two promises hold.  Every usable document in the cache or in a  *)
(* reply was published by the provider, because keys are only asked for    *)
(* once a matching jwks_uri is kept; and a reply waiting to be read was    *)
(* published while its own call was under way, so a key it lacks has been  *)
(* missing during that call.                                               *)
FromProvider(doc) == doc \in SUBSET Key => doc \subseteq vouched

SafetyInv ==
    /\ jwks # NoDoc => jwksUri = "home"
    /\ published \subseteq vouched
    /\ FromProvider(jwks)
    /\ \A c \in Call : pc[c] \in {"askKeys", "gotKeys"} => jwksUri = "home"
    /\ \A c \in Call : pc[c] # "idle" /\ token[c].key \notin published => missing[c]
    /\ \A c \in Call : pc[c] = "gotKeys" =>
         /\ reply[c] # NoDoc
         /\ FromProvider(reply[c])
         /\ reply[c] \in SUBSET Key /\ token[c].key \notin reply[c] => missing[c]
    /\ AcceptedOnlyIfVouched
    /\ RefusalIsFresh

LEMMA SafetyInit == Init => SafetyInv
BY DEF Init, SafetyInv, FromProvider, AcceptedOnlyIfVouched, RefusalIsFresh

LEMMA SafetyStep == TypeOK /\ TypeOK' /\ SafetyInv /\ [Next]_vars => SafetyInv'
<1> SUFFICES ASSUME TypeOK, TypeOK', SafetyInv, [Next]_vars PROVE SafetyInv'
  OBVIOUS
<1>1. ASSUME NEW c \in Call, NEW tok \in Presented, Begin(c, tok)
      PROVE  SafetyInv'
  <2>1. /\ now \in Int /\ tok \in Token
        /\ UNCHANGED <<jwks, jwksUri, reply, published, now, vouched>>
        /\ token' = [token EXCEPT ![c] = tok]
        /\ started' = [started EXCEPT ![c] = now]
        /\ missing' = [missing EXCEPT ![c] = tok.key \notin published]
        /\ token' \in [Call -> Presented] /\ missing' \in [Call -> BOOLEAN]
    BY <1>1 DEF Begin, TypeOK, cache, provider
  <2>0. \A d \in Call : missing'[d] <=> IF d = c THEN tok.key \notin published
                                                    ELSE missing[d]
    BY <2>1 DEF TypeOK
  <2>2. CASE Fetch(c, FALSE) \/ (jwks # NoDoc /\ Fetch(c, TRUE))
    <3>1. /\ pc' = [pc EXCEPT ![c] = IF jwksUri = "none" THEN "askDiscovery" ELSE "askKeys"]
          /\ verdict' = [verdict EXCEPT ![c] = "none"]
      BY <2>2 DEF Fetch
    <3>2. AcceptedOnlyIfVouched' /\ RefusalIsFresh'
      BY <2>0, <2>1, <3>1 DEF TypeOK, SafetyInv, AcceptedOnlyIfVouched, RefusalIsFresh
    <3>3. \A d \in Call : pc'[d] # "idle" /\ token'[d].key \notin published' => missing'[d]
      BY <2>0, <2>1, <3>1 DEF TypeOK, SafetyInv
    <3>4. \A d \in Call : pc'[d] \in {"askKeys", "gotKeys"} => jwksUri' = "home"
      BY <2>0, <2>1, <3>1 DEF TypeOK, SafetyInv
    <3>5. \A d \in Call : pc'[d] = "gotKeys" => d # c /\ pc[d] = "gotKeys" /\ UNCHANGED reply[d]
                            /\ token'[d] = token[d] /\ (missing'[d] <=> missing[d])
      BY <2>0, <2>1, <3>1 DEF TypeOK
    <3> QED
      BY <2>0, <2>1, <3>2, <3>3, <3>4, <3>5 DEF SafetyInv, FromProvider
  <2>3. ASSUME jwks # NoDoc, NEW v \in Verdicts, Answer(c, v),
               v \in {"accepted", "mappingError"} =>
                 jwks # Unusable /\ Sound(tok) /\ tok.key \in jwks /\ now <= tok.exp,
               v = "refused" /\ Sound(tok) /\ now <= tok.exp => FALSE
        PROVE  SafetyInv'
    <3>1. /\ pc' = [pc EXCEPT ![c] = "idle"]
          /\ verdict' = [verdict EXCEPT ![c] = v]
      BY <2>3 DEF Answer
    <3>2. v \in {"accepted", "mappingError"} => tok.key \in vouched
      BY <2>3 DEF TypeOK, Cacheable, SafetyInv, FromProvider
    <3>3. AcceptedOnlyIfVouched'
      BY <2>0, <2>1, <2>3, <3>1, <3>2 DEF TypeOK, SafetyInv, AcceptedOnlyIfVouched
    <3>4. RefusalIsFresh'
      BY <2>0, <2>1, <2>3, <3>1 DEF TypeOK, SafetyInv, RefusalIsFresh
    <3> QED
      BY <2>0, <2>1, <3>1, <3>3, <3>4 DEF TypeOK, SafetyInv, FromProvider
  <2>4. CASE jwks = NoDoc
    BY <1>1, <2>2, <2>4 DEF Begin
  <2>5. CASE jwks # NoDoc
    <3>1. Decide(c, tok, jwks, now, FALSE)
      BY <1>1, <2>5 DEF Begin
    <3>2. Outcome(c, tok, jwks, now, FALSE)
      BY <2>1, <3>1, DecideOutcome
    <3> QED
      BY <2>2, <2>3, <2>5, <3>2 DEF Outcome
  <2> QED
    BY <2>4, <2>5
<1>2. ASSUME NEW c \in Call, ResumeKeys(c)
      PROVE  SafetyInv'
  <2>1. /\ now \in Int /\ token[c] \in Token /\ started[c] \in Int
        /\ UNCHANGED <<jwksUri, token, started, missing, published, now, vouched>>
        /\ pc[c] = "gotKeys" /\ jwks' = reply[c]
        /\ reply' = [reply EXCEPT ![c] = NoDoc]
    BY <1>2 DEF ResumeKeys, TypeOK, provider
  <2>2. /\ jwksUri = "home" /\ reply[c] # NoDoc /\ FromProvider(reply[c])
        /\ reply[c] \in SUBSET Key /\ token[c].key \notin reply[c] => missing[c]
    BY <2>1 DEF SafetyInv
  <2>3. CASE Fetch(c, TRUE)
    <3>1. /\ pc' = [pc EXCEPT ![c] = "askKeys"]
          /\ verdict' = [verdict EXCEPT ![c] = "none"]
      BY <2>2, <2>3 DEF Fetch
    <3> QED
      BY <2>1, <2>2, <3>1 DEF TypeOK, SafetyInv, FromProvider, AcceptedOnlyIfVouched, RefusalIsFresh
  <2>4. ASSUME NEW v \in Verdicts, Answer(c, v),
               v \in {"accepted", "mappingError", "refused"} => reply[c] # Unusable,
               v \in {"accepted", "mappingError"} =>
                 Sound(token[c]) /\ token[c].key \in reply[c] /\ started[c] <= token[c].exp,
               v = "refused" /\ Sound(token[c]) /\ now <= token[c].exp =>
                 token[c].key \notin reply[c]
        PROVE  SafetyInv'
    <3>1. /\ pc' = [pc EXCEPT ![c] = "idle"]
          /\ verdict' = [verdict EXCEPT ![c] = v]
      BY <2>4 DEF Answer
    <3>2. v \in {"accepted", "mappingError"} => token[c].key \in vouched
      BY <2>2, <2>4 DEF TypeOK, Cacheable, FromProvider
    <3>3. AcceptedOnlyIfVouched'
      BY <2>1, <2>4, <3>1, <3>2 DEF TypeOK, SafetyInv, AcceptedOnlyIfVouched
    <3>4. RefusalIsFresh'
      BY <2>1, <2>2, <2>4, <3>1 DEF TypeOK, Cacheable, SafetyInv, RefusalIsFresh
    <3> QED
      BY <2>1, <2>2, <3>1, <3>3, <3>4 DEF TypeOK, SafetyInv, FromProvider
  <2>5. Decide(c, token[c], reply[c], started[c], forced[c])
    BY <1>2 DEF ResumeKeys
  <2>6. Outcome(c, token[c], reply[c], started[c], forced[c])
    BY <2>1, <2>5, DecideOutcome DEF TypeOK
  <2> QED
    BY <2>3, <2>4, <2>6 DEF Outcome
<1>3. ASSUME NEW c \in Call, ResumeDiscovery(c)
      PROVE  SafetyInv'
  BY <1>3 DEF ResumeDiscovery, Answer, provider, TypeOK, SafetyInv, FromProvider,
              AcceptedOnlyIfVouched, RefusalIsFresh
<1>4. ASSUME NEW c \in Call, FetchFails(c)
      PROVE  SafetyInv'
  BY <1>4 DEF FetchFails, Answer, cache, provider, TypeOK, SafetyInv, FromProvider,
              AcceptedOnlyIfVouched, RefusalIsFresh
<1>5. ASSUME NEW c \in Call, ServeDiscovery(c)
      PROVE  SafetyInv'
  BY <1>5 DEF ServeDiscovery, cache, provider, TypeOK, SafetyInv, FromProvider,
              AcceptedOnlyIfVouched, RefusalIsFresh
<1>6. ASSUME NEW c \in Call, ServeKeys(c)
      PROVE  SafetyInv'
  <2>1. PICK doc \in {published, Unusable} : reply' = [reply EXCEPT ![c] = doc]
    BY <1>6 DEF ServeKeys, SafetyInv
  <2> QED
    BY <1>6, <2>1 DEF ServeKeys, cache, provider, TypeOK, SafetyInv, FromProvider,
                      AcceptedOnlyIfVouched, RefusalIsFresh
<1>7. ASSUME NEW doc \in Document, Publish(doc)
      PROVE  SafetyInv'
  <2>1. \A c \in Call : missing'[c] <=>
          missing[c] \/ (pc[c] # "idle" /\ token[c].key \notin doc)
    BY <1>7 DEF Publish
  <2> QED
    BY <1>7, <2>1 DEF Publish, cache, TypeOK, SafetyInv, FromProvider,
                      AcceptedOnlyIfVouched, RefusalIsFresh
<1>8. CASE Tick
  BY <1>8 DEF Tick, cache, TypeOK, Token, SafetyInv, FromProvider,
              AcceptedOnlyIfVouched, RefusalIsFresh
<1>9. CASE UNCHANGED vars
  BY <1>9 DEF vars, TypeOK, SafetyInv, FromProvider, AcceptedOnlyIfVouched, RefusalIsFresh
<1> QED
  BY <1>1, <1>2, <1>3, <1>4, <1>5, <1>6, <1>7, <1>8, <1>9 DEF Next, Progress

LEMMA SafetyHolds == Spec => []SafetyInv
BY Typing, SafetyInit, SafetyStep, PTL DEF Spec

(* Whatever the interleaving of calls, rotations and foreign discovery     *)
(* documents, an accepted token is sound and rests on a published key.     *)
THEOREM Vouched == Spec => []AcceptedOnlyIfVouched
<1>1. SafetyInv => AcceptedOnlyIfVouched
  BY DEF SafetyInv
<1> QED
  BY SafetyHolds, <1>1, PTL

(* A sound token is refused only if its key was missing from what the      *)
(* provider published at some moment of its own call.                      *)
THEOREM FreshRefusal == Spec => []RefusalIsFresh
<1>1. SafetyInv => RefusalIsFresh
  BY DEF SafetyInv
<1> QED
  BY SafetyHolds, <1>1, PTL

-----------------------------------------------------------------------------
(* What a step does to the suspended calls: to be suspended afterwards, a  *)
(* call must have asked anew, been answered, or been left alone.           *)
LEMMA RetryStep == TypeOK /\ [Next]_vars =>
    \A c \in Call : ~forced[c] /\ forced'[c] =>
        ~token'[c].wellFormed \/ token'[c].key \notin jwks'
<1> SUFFICES ASSUME TypeOK, [Next]_vars, NEW d \in Call, ~forced[d], forced'[d]
             PROVE  ~token'[d].wellFormed \/ token'[d].key \notin jwks'
  OBVIOUS
<1> DEFINE Reason == ~token'[d].wellFormed \/ token'[d].key \notin jwks'
<1> USE DEF TypeOK
<1>1. ASSUME NEW c \in Call, NEW tok \in Presented, Begin(c, tok)
      PROVE  Reason
  <2>1. now \in Int /\ tok \in Token /\ jwks' = jwks /\ token' = [token EXCEPT ![c] = tok]
    BY <1>1 DEF Begin, cache
  <2>2. Fetch(c, FALSE) \/ Outcome(c, tok, jwks, now, FALSE)
    BY <1>1, <2>1, DecideOutcome DEF Begin
  <2>3. d = c /\ ~Fetch(c, FALSE) /\ \A v \in Verdicts : ~Answer(c, v)
    BY <2>2 DEF Fetch, Answer, Outcome
  <2> QED
    BY <2>1, <2>2, <2>3 DEF Outcome
<1>2. ASSUME NEW c \in Call, ResumeKeys(c)
      PROVE  Reason
  <2>1. now \in Int /\ token[c] \in Token /\ started[c] \in Int
        /\ jwks' = reply[c] /\ token' = token
    BY <1>2 DEF ResumeKeys
  <2>2. Outcome(c, token[c], reply[c], started[c], forced[c])
    BY <1>2, <2>1, DecideOutcome DEF ResumeKeys
  <2>3. d = c /\ \A v \in Verdicts : ~Answer(c, v)
    BY <2>2 DEF Fetch, Answer, Outcome
  <2> QED
    BY <2>1, <2>2, <2>3 DEF Outcome
<1>3. ASSUME NEW c \in Call, ResumeDiscovery(c) \/ FetchFails(c) \/ ServeDiscovery(c) \/ ServeKeys(c)
      PROVE  Reason
  BY <1>3 DEF ResumeDiscovery, FetchFails, ServeDiscovery, ServeKeys, Answer
<1>4. ASSUME NEW doc \in Document, Publish(doc)
      PROVE  Reason
  BY <1>4 DEF Publish
<1>5. CASE Tick \/ UNCHANGED vars
  BY <1>5 DEF Tick, vars
<1> QED
  BY <1>1, <1>2, <1>3, <1>4, <1>5 DEF Next, Progress

(* Whatever was cached by whichever call, a retry is only ever started     *)
(* over a document that does not vouch for the token's signature.          *)
THEOREM RefetchedForKeys == Spec => RefetchOnlyForKeyTrouble
<1>1. TypeOK /\ [Next]_vars =>
        [\A c \in Call : ~forced[c] /\ forced'[c] =>
           \/ ~token'[c].wellFormed
           \/ token'[c].key \notin jwks']_vars
  BY RetryStep
<1> QED
  BY Typing, <1>1, PTL DEF Spec, RefetchOnlyForKeyTrouble

(* A call that is suspended before and after a step was moved by one of    *)
(* its own, and each of these brings it nearer to its end: a first answer  *)
(* with the keys by the retry it may still make, which finds the jwks_uri  *)
(* known, and every other one by the request it answers or sends.          *)
LEMMA RunDownStep == TypeOK /\ TypeOK' /\ SafetyInv /\ [Next]_vars =>
    \A c \in Call : pc[c] # "idle" /\ pc'[c] # "idle" =>
        Ahead(c)' < Ahead(c) \/ UNCHANGED <<pc[c], forced[c]>>
<1> SUFFICES ASSUME TypeOK, TypeOK', SafetyInv, [Next]_vars,
                    NEW d \in Call, pc[d] # "idle", pc'[d] # "idle"
             PROVE  Ahead(d)' < Ahead(d) \/ UNCHANGED <<pc[d], forced[d]>>
  OBVIOUS
<1> DEFINE Nearer == Ahead(d)' < Ahead(d)
           Alone == UNCHANGED <<pc[d], forced[d]>>
<1> USE DEF TypeOK
<1>1. ASSUME NEW c \in Call, NEW tok \in Presented, Begin(c, tok)
      PROVE  Alone
  <2>1. now \in Int /\ tok \in Token /\ pc[c] = "idle"
    BY <1>1 DEF Begin
  <2>2. Fetch(c, FALSE) \/ Outcome(c, tok, jwks, now, FALSE)
    BY <1>1, <2>1, DecideOutcome DEF Begin
  <2> QED
    BY <2>1, <2>2 DEF Fetch, Answer, Outcome
<1>2. ASSUME NEW c \in Call, ResumeKeys(c)
      PROVE  Nearer \/ Alone
  <2>1. /\ now \in Int /\ token[c] \in Token /\ started[c] \in Int
        /\ pc[c] = "gotKeys" /\ jwksUri = "home"
    BY <1>2 DEF ResumeKeys, SafetyInv
  <2>2. Outcome(c, token[c], reply[c], started[c], forced[c])
    BY <1>2, <2>1, DecideOutcome DEF ResumeKeys
  <2>3. CASE d # c
    BY <2>2, <2>3 DEF Fetch, Answer, Outcome
  <2>4. CASE d = c
    <3>1. ~forced[c] /\ Fetch(c, TRUE)
      <4>1. \A v \in Verdicts : ~Answer(c, v)
        BY <2>4 DEF Answer
      <4> QED
        BY <2>2, <4>1 DEF Outcome
    <3>2. pc'[c] = "askKeys" /\ forced'[c]
      BY <2>1, <3>1 DEF Fetch
    <3>3. Ahead(c)' = 2 /\ Ahead(c) = 3
      BY <2>1, <3>1, <3>2 DEF Ahead
    <3> QED
      BY <2>4, <3>3
  <2> QED
    BY <2>3, <2>4
<1>3. ASSUME NEW c \in Call, ResumeDiscovery(c)
      PROVE  Nearer \/ Alone
  BY <1>3 DEF ResumeDiscovery, Answer, Ahead
<1>4. ASSUME NEW c \in Call, FetchFails(c)
      PROVE  Alone
  BY <1>4 DEF FetchFails, Answer
<1>5. ASSUME NEW c \in Call, ServeDiscovery(c) \/ ServeKeys(c)
      PROVE  Nearer \/ Alone
  BY <1>5 DEF ServeDiscovery, ServeKeys, Ahead
<1>6. ASSUME NEW doc \in Document, Publish(doc)
      PROVE  Alone
  BY <1>6 DEF Publish
<1>7. CASE Tick \/ UNCHANGED vars
  BY <1>7 DEF Tick, vars
<1> QED
  BY <1>1, <1>2, <1>3, <1>4, <1>5, <1>6, <1>7 DEF Next, Progress

(* No call asks for keys a third time, whatever other calls and rotations  *)
(* do to the cache it shares with them: the half of "every call ends" that *)
(* needs no fairness.                                                      *)
THEOREM RunsDown == Spec => CallsRunDown
<1>1. TypeOK /\ TypeOK' /\ SafetyInv /\ [Next]_vars =>
        [\A c \in Call : pc[c] # "idle" /\ pc'[c] # "idle" =>
           \/ Ahead(c)' < Ahead(c)
           \/ UNCHANGED <<pc[c], forced[c]>>]_vars
  BY RunDownStep
<1> QED
  BY Typing, SafetyHolds, <1>1, PTL DEF Spec, CallsRunDown

-----------------------------------------------------------------------------
(* The validator implements TokenCheck: a step of a call is a stutter of   *)
(* the promise as long as the call is suspended, and its answer an Enter   *)
(* or an Answer whose outcome the promise allows.                          *)
Said(v) == IF v \in {"accepted", "refused"} THEN v ELSE "failed"

(* What a verdict means to a caller of validate_token.                     *)
LEMMA StatusOf ==
    ASSUME TypeOK, NEW c \in Call
    PROVE  /\ pc[c] # "idle" => Status(c) = "pending"
           /\ pc[c] = "idle" => Status(c) # "pending"
           /\ pc[c] = "idle" /\ verdict[c] # "none" => Status(c) = Said(verdict[c])
BY DEF Status, Said, TypeOK

LEMMA SaidOfAnswer ==
    ASSUME TypeOK, TypeOK', NEW c \in Call, NEW v \in Verdicts, Answer(c, v)
    PROVE  [d \in Call |-> Status(d)]' = [[d \in Call |-> Status(d)] EXCEPT ![c] = Said(v)]
<1>1. pc' = [pc EXCEPT ![c] = "idle"] /\ verdict' = [verdict EXCEPT ![c] = v]
  BY DEF Answer
<1>2. Status(c)' = Said(v)
  BY <1>1 DEF Status, Said, TypeOK, Verdicts
<1>3. \A d \in Call : d # c => Status(d)' = Status(d)
  BY <1>1 DEF Status, TypeOK
<1> QED
  BY <1>2, <1>3

LEMMA PendingOfFetch ==
    ASSUME TypeOK, TypeOK', NEW c \in Call, NEW b \in BOOLEAN, Fetch(c, b)
    PROVE  [d \in Call |-> Status(d)]' = [[d \in Call |-> Status(d)] EXCEPT ![c] = "pending"]
<1>1. /\ pc' = [pc EXCEPT ![c] = IF jwksUri = "none" THEN "askDiscovery" ELSE "askKeys"]
      /\ verdict' = [verdict EXCEPT ![c] = "none"]
  BY DEF Fetch
<1>2. Status(c)' = "pending"
  BY <1>1 DEF Status, TypeOK
<1>3. \A d \in Call : d # c => Status(d)' = Status(d)
  BY <1>1 DEF Status, TypeOK
<1> QED
  BY <1>2, <1>3

(* A suspended call that goes on being suspended.                          *)
LEMMA PendingStays ==
    ASSUME TypeOK, TypeOK', NEW c \in Call, pc[c] # "idle", pc'[c] # "idle",
           \A d \in Call : d # c => pc'[d] = pc[d] /\ verdict'[d] = verdict[d]
    PROVE  [d \in Call |-> Status(d)]' = [d \in Call |-> Status(d)]
<1>1. Status(c)' = "pending" /\ Status(c) = "pending"
  BY DEF Status
<1>2. \A d \in Call : d # c => Status(d)' = Status(d)
  BY DEF Status
<1> QED
  BY <1>1, <1>2

LEMMA CheckInit == Init => Check!Init
BY DEF Init, Check!Init, Status

LEMMA CheckStep == TypeOK /\ TypeOK' /\ SafetyInv /\ SafetyInv' /\ [Next]_vars
                     => [Check!Next]_(Check!vars)
<1> SUFFICES ASSUME TypeOK, TypeOK', SafetyInv, SafetyInv', [Next]_vars
             PROVE  [Check!Next]_(Check!vars)
  OBVIOUS
<1> DEFINE status == [c \in Call |-> Status(c)]
<1> USE DEF provider
<1>1. ASSUME NEW c \in Call, NEW tok \in Presented, Begin(c, tok)
      PROVE  Check!Enter(c, tok)
  <2>1. /\ now \in Int /\ tok \in Token /\ pc[c] = "idle"
        /\ UNCHANGED <<published, now, vouched>>
        /\ token' = [token EXCEPT ![c] = tok]
        /\ started' = [started EXCEPT ![c] = now]
        /\ missing' = [missing EXCEPT ![c] = tok.key \notin published]
    BY <1>1 DEF Begin, TypeOK
  <2>2. status[c] # "pending"
    BY <2>1, StatusOf
  <2>3. ASSUME NEW s \in {"pending"} \cup Check!Outcomes(tok, now, tok.key \notin published),
               status' = [status EXCEPT ![c] = s]
        PROVE  Check!Enter(c, tok)
    <3> HIDE DEF status
    <3> QED
      BY <2>1, <2>2, <2>3 DEF Check!Enter, status
  <2>4. CASE \E b \in BOOLEAN : Fetch(c, b)
    <3>1. PICK b \in BOOLEAN : Fetch(c, b)
      BY <2>4
    <3>2. status' = [status EXCEPT ![c] = "pending"]
      BY <3>1, PendingOfFetch
    <3> HIDE DEF status
    <3> QED
      BY <3>2, <2>3
  <2>5. ASSUME NEW v \in Verdicts, Answer(c, v), jwks # NoDoc,
               v \in {"accepted", "mappingError", "refused"} => jwks # Unusable,
               v \in {"accepted", "mappingError"} =>
                 Sound(tok) /\ tok.key \in jwks /\ now <= tok.exp,
               v = "refused" /\ Sound(tok) /\ now <= tok.exp => FALSE
        PROVE  Check!Enter(c, tok)
    <3>1. v = "accepted" => Sound(tok) /\ tok.key \in vouched /\ now <= tok.exp
      BY <2>5 DEF TypeOK, Cacheable, SafetyInv, FromProvider
    <3>2. Said(v) \in Check!Outcomes(tok, now, tok.key \notin published)
      BY <2>5, <3>1 DEF Said, Check!Outcomes, Check!MayAccept, Check!MayRefuse, Check!Sound, Sound
    <3> QED
      BY <2>3, <2>5, <3>2, SaidOfAnswer
  <2>6. CASE jwks = NoDoc
    BY <1>1, <2>4, <2>6 DEF Begin
  <2>7. CASE jwks # NoDoc
    <3>1. Outcome(c, tok, jwks, now, FALSE)
      BY <1>1, <2>1, <2>7, DecideOutcome DEF Begin
    <3> QED
      BY <2>4, <2>5, <2>7, <3>1 DEF Outcome
  <2> QED
    BY <2>6, <2>7
<1>2. ASSUME NEW c \in Call, NEW v \in Verdicts, Answer(c, v), pc[c] # "idle",
             UNCHANGED <<token, started, missing, published, now, vouched>>,
             v = "accepted" => Check!MayAccept(token[c], started[c]),
             v = "refused" => Check!MayRefuse(token[c], missing[c])
      PROVE  Check!Answer(c)
  <2>1. Said(v) \in Check!Outcomes(token[c], started[c], missing[c])
    BY <1>2 DEF Said, Check!Outcomes
  <2>2. status[c] = "pending" /\ status' = [status EXCEPT ![c] = Said(v)]
    BY <1>2, StatusOf, SaidOfAnswer
  <2> HIDE DEF status
  <2> QED
    BY <1>2, <2>1, <2>2 DEF Check!Answer, status
<1>3. ASSUME NEW c \in Call, ResumeKeys(c)
      PROVE  Check!Answer(c) \/ UNCHANGED Check!vars
  <2>1. /\ now \in Int /\ token[c] \in Token /\ started[c] \in Int
        /\ UNCHANGED <<jwksUri, token, started, missing, published, now, vouched>>
        /\ pc[c] = "gotKeys"
    BY <1>3 DEF ResumeKeys, TypeOK
  <2>2. /\ reply[c] # NoDoc /\ FromProvider(reply[c])
        /\ reply[c] \in SUBSET Key /\ token[c].key \notin reply[c] => missing[c]
        /\ reply[c] # Unusable => reply[c] \in SUBSET Key
    BY <2>1 DEF SafetyInv, TypeOK, Cacheable
  <2>3. CASE \E b \in BOOLEAN : Fetch(c, b)
    <3>1. status' = [status EXCEPT ![c] = "pending"] /\ status[c] = "pending"
      BY <2>1, <2>3, PendingOfFetch, StatusOf
    <3>2. status' = status
      BY <3>1
    <3> QED
      BY <2>1, <3>2 DEF Check!vars
  <2>4. ASSUME NEW v \in Verdicts, Answer(c, v),
               v \in {"accepted", "mappingError", "refused"} => reply[c] # Unusable,
               v \in {"accepted", "mappingError"} =>
                 Sound(token[c]) /\ token[c].key \in reply[c] /\ started[c] <= token[c].exp,
               v = "refused" /\ Sound(token[c]) /\ now <= token[c].exp =>
                 token[c].key \notin reply[c]
        PROVE  Check!Answer(c)
    <3>1. v = "accepted" => Check!MayAccept(token[c], started[c])
      BY <2>2, <2>4 DEF FromProvider, Check!MayAccept, Check!Sound, Sound
    <3>2. v = "refused" => Check!MayRefuse(token[c], missing[c])
      BY <2>2, <2>4 DEF Check!MayRefuse, Check!Sound, Sound
    <3> QED
      BY <1>2, <2>1, <2>4, <3>1, <3>2
  <2>5. Outcome(c, token[c], reply[c], started[c], forced[c])
    BY <1>3, <2>1, DecideOutcome DEF ResumeKeys, TypeOK
  <2> QED
    BY <2>3, <2>4, <2>5 DEF Outcome
<1>4. ASSUME NEW c \in Call, ResumeDiscovery(c)
      PROVE  Check!Answer(c) \/ UNCHANGED Check!vars
  <2>1. UNCHANGED <<token, started, missing, published, now, vouched>> /\ pc[c] # "idle"
    BY <1>4 DEF ResumeDiscovery
  <2>2. CASE Answer(c, "mismatch")
    BY <1>2, <2>1, <2>2 DEF Verdicts
  <2>3. CASE pc' = [pc EXCEPT ![c] = "askKeys"] /\ UNCHANGED verdict
    <3>1. status' = status
      BY <2>1, <2>3, PendingStays DEF TypeOK
    <3> QED
      BY <2>1, <3>1 DEF Check!vars
  <2> QED
    BY <1>4, <2>2, <2>3 DEF ResumeDiscovery
<1>5. ASSUME NEW c \in Call, FetchFails(c)
      PROVE  Check!Answer(c)
  BY <1>2, <1>5 DEF FetchFails, Verdicts
<1>6. ASSUME NEW c \in Call, ServeDiscovery(c) \/ ServeKeys(c)
      PROVE  UNCHANGED Check!vars
  <2>1. /\ UNCHANGED <<token, started, missing, published, now, vouched, verdict>>
        /\ pc[c] # "idle"
        /\ \E p \in {"gotHome", "gotForeign", "gotKeys"} : pc' = [pc EXCEPT ![c] = p]
    BY <1>6 DEF ServeDiscovery, ServeKeys
  <2>2. status' = status
    BY <2>1, PendingStays DEF TypeOK
  <2> QED
    BY <2>1, <2>2 DEF Check!vars
<1>7. ASSUME NEW doc \in Document, Publish(doc)
      PROVE  Check!Publish(doc)
  <2>1. UNCHANGED <<pc, verdict, token, started, now>>
    BY <1>7 DEF Publish
  <2>2. status' = status
    BY <2>1 DEF Status
  <2>3. \A c \in Call : status[c] = "pending" <=> pc[c] # "idle"
    BY StatusOf
  <2>4. published' = doc /\ vouched' = vouched \cup doc
    BY <1>7 DEF Publish
  <2>5. missing' = [c \in Call |->
                     missing[c] \/ (status[c] = "pending" /\ token[c].key \notin doc)]
    BY <1>7, <2>3 DEF Publish
  <2> HIDE DEF status
  <2> QED
    BY <2>1, <2>2, <2>4, <2>5 DEF Check!Publish, status
<1>8. ASSUME Tick
      PROVE  Check!Tick
  <2>1. status' = status
    BY <1>8 DEF Tick, Status
  <2>2. UNCHANGED <<token, started, published, vouched, missing>> /\ now' = now + 1
    BY <1>8 DEF Tick
  <2> QED
    BY <2>1, <2>2 DEF Check!Tick
<1>9. ASSUME UNCHANGED vars
      PROVE  UNCHANGED Check!vars
  <2>1. status' = status
    BY <1>9 DEF vars, Status
  <2> QED
    BY <1>9, <2>1 DEF vars, Check!vars
<1> QED
  BY <1>1, <1>3, <1>4, <1>5, <1>6, <1>7, <1>8, <1>9 DEF Next, Progress, Check!Next

(* Refinement: whatever concurrent calls do with the one cache, each of    *)
(* them is answered as TokenCheck promises.                                *)
THEOREM Implements == Spec => ImplementsTokenCheck
BY Typing, SafetyHolds, CheckInit, CheckStep, PTL DEF Spec, ImplementsTokenCheck, Check!Spec
=============================================================================
