------------------------------- MODULE Tokens -------------------------------
(***************************************************************************)
(* The vocabulary of a presented token and of what joserfc says of it when *)
(* TokenValidator.validate_token decodes it against a JWKS document.  A    *)
(* document is the set of keys it lists.  joserfc is not part of the       *)
(* repository: it is modelled by the errors validate_token tells apart.    *)
(***************************************************************************)
EXTENDS Integers

CONSTANTS Key,          \* signing keys, the provider's and everybody else's
          KidOf,        \* KidOf[k] is the kid a token signed with k names
          Document,     \* the JWKS documents the provider may publish
          Unusable      \* a JSON body that KeySet.import_key_set refuses

ASSUME DocumentAssumption ==
    /\ Document \subseteq SUBSET Key
    /\ \A doc \in SUBSET Key : Unusable # doc

(* What a caller presents: decodable or not, an algorithm on the           *)
(* validator's list or not, the key that really signed it, claims that are *)
(* right, wrong or missing ("bad"), or right but of a shape the claim      *)
(* mapper cannot turn into a Principal, and the exp claim.                 *)
Token == [wellFormed : BOOLEAN, alg : {"accepted", "refused"}, key : Key,
          claims : {"ok", "bad", "unmappable"}, exp : Int]

Kids(doc) == {KidOf[k] : k \in doc}

(* What jwt.decode may raise.  Whether joserfc looks at the algorithm or   *)
(* at the key first is its own business, so a token wrong in both ways may *)
(* raise either error.                                                     *)
DecodeErrors(tok, doc) ==
    IF ~tok.wellFormed
    THEN {"DecodeError"}
    ELSE {e \in {"UnsupportedAlgorithmError", "InvalidKeyIdError", "BadSignatureError"} :
            \/ e = "UnsupportedAlgorithmError" /\ tok.alg = "refused"
            \/ e = "InvalidKeyIdError" /\ KidOf[tok.key] \notin Kids(doc)
            \/ /\ e = "BadSignatureError"
               /\ tok.alg = "accepted"
               /\ KidOf[tok.key] \in Kids(doc)
               /\ tok.key \notin doc}

(* What JWTClaimsRegistry.validate may raise at time t.                    *)
ClaimErrors(tok, t) ==
    {e \in {"ExpiredTokenError", "InvalidClaimError"} :
        \/ e = "ExpiredTokenError" /\ tok.exp < t
        \/ e = "InvalidClaimError" /\ tok.claims = "bad"}

(* decode comes first, and the claims are only read once it succeeded.     *)
Errors(tok, doc, t) ==
    IF DecodeErrors(tok, doc) # {} THEN DecodeErrors(tok, doc) ELSE ClaimErrors(tok, t)

(* A token nothing is wrong with, as long as its key is the provider's and *)
(* its time has not run out.                                               *)
Sound(tok) == tok.wellFormed /\ tok.alg = "accepted" /\ tok.claims # "bad"
=============================================================================
