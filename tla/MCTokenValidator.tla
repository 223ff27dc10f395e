-------------------------- MODULE MCTokenValidator --------------------------
(* Instances of TokenValidator for TLC.                                    *)
EXTENDS TokenValidator

CONSTANTS k1, k2, k3,   \* the provider's keys; k3 reuses the kid of k1
          x             \* a key the provider never publishes

MCKey == {k1, k2, k3, x}
MCKidOf == [k \in MCKey |-> IF k = k2 THEN "b" ELSE "a"]

(* A rotation that adds a kid and gives the other one a new key, as a     *)
(* development provider that restarts does.                                *)
MCDocument == {{k1}, {k2, k3}}
MCForeignDocument == {x}

Good(k, e) == [wellFormed |-> TRUE, alg |-> "accepted", key |-> k, claims |-> "ok", exp |-> e]

(* Tokens that differ in their key alone.                                  *)
KeyTokens == {Good(k, 0) : k \in {k1, k3, x}}

(* One token for each way validate_token can leave its try blocks, and one *)
(* that only another issuer vouches for.                                   *)
MCPresented ==
    {Good(x, 1), Good(k2, 0),
     [Good(k2, 1) EXCEPT !.alg = "refused", !.claims = "bad"],
     [Good(k1, 1) EXCEPT !.claims = "unmappable"],
     [Good(x, 1) EXCEPT !.wellFormed = FALSE]}
=============================================================================
