---------------------------- MODULE MCDevSigner -----------------------------
(* Instances of DevSigner for TLC: three processes in a row, and for each  *)
(* form and kind of key that load_signing_key takes or refuses, one        *)
(* installation that names it in each way, with and without another key in *)
(* the environment.                                                        *)
EXTENDS DevSigner

CONSTANTS f1, f2, f3, p256, p384, p521, k256, rsa, oct, pub

MCKey == {f1, f2, f3, p256, p384, p521, k256, rsa, oct, pub}
MCKindOf == [k \in MCKey |->
    CASE k = p384 -> "P-384" [] k = p521 -> "P-521" [] k = k256 -> "secp256k1"
      [] k = rsa -> "RSA" [] k = oct -> "oct" [] k = pub -> "public" [] OTHER -> "P-256"]
MCSource ==
    [form : {"jwk", "pem"}, keys : {<<k>> : k \in {p256, p384, p521, k256, rsa, oct, pub}}]
    \cup [form : {"jwkSet"}, keys : {<<>>, <<p384, oct>>, <<oct, p384>>, <<rsa, p256>>}]
    \cup [form : {"text"}, keys : {<<>>}]

Names(launch, s, t) == [launch |-> launch, argument |-> s, environment |-> t]
Rsa == [form |-> "jwk", keys |-> <<rsa>>]
MCInstallation ==
    {Names("serve", s, t) : s \in MCSource \cup {None}, t \in {None, Rsa}}
    \cup {Names("main", s, t) : s \in {None, Rsa}, t \in MCSource \cup {None}}
=============================================================================
