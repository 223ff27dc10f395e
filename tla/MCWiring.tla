------------------------------ MODULE MCWiring ------------------------------
(* An instance of Wiring for TLC: a provider that names itself with a      *)
(* slash at the end and one that does not, a development key that signs    *)
(* with ES256 and one that signs with ES384, two audiences, a role of one  *)
(* letter that occurs in another, tokens of every provider and claims of   *)
(* every form.                                                             *)
EXTENDS Wiring

CONSTANTS e1, e2, admin, letter, api, dev, p256, p384

MCElsewhere == {e1, e2}
MCSlashOf == [e \in MCElsewhere |-> e = e2]
MCWord == {admin, letter}
MCLetters == [w \in MCWord |-> {letter}]
MCAccepted == {p256, OtherKey} \cup MCElsewhere

Slashed(a) == [at |-> a, slash |-> TRUE]
MCSettings ==
    {[issuer |-> i, audience |-> api] :
        i \in {Plain(Own), Slashed(Own), Plain(e1), Slashed(e2)}}
    \cup {[issuer |-> Plain(Own), audience |-> dev]}

Absent == [form |-> "absent", of |-> {}]
MCNull == [form |-> "null", of |-> {}]
MCClaim == {List({admin}), MCNull,
            [form |-> "object", of |-> {admin}], [form |-> "text", of |-> {admin}]}

Bearing(issuer, audience, key, roles, permissions) ==
    [iss |-> issuer, aud |-> audience, key |-> key, roles |-> roles, permissions |-> permissions]

MCPresented ==
    {CommandToken(Own, api, {admin}, {admin})}
    \cup {Bearing(i, api, p256, List({admin}), List({})) :
            i \in {Slashed(Own), Plain(Mount)}}
    \cup {Bearing(Plain(Own), aud, key, List({admin}), List({})) :
            aud \in {api, dev}, key \in DevKeys}
    \cup {Bearing(Slashed(e2), api, e2, List({admin}), Absent)}
    \cup {Bearing(Plain(e1), dev, e1, List({admin}), Absent)}
    \cup {Bearing(Plain(e1), api, e1, c, Absent) : c \in MCClaim}
    \cup {Bearing(Plain(Own), api, p256, Absent, c) : c \in {List({admin}), MCNull}}
=============================================================================
