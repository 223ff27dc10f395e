----------------------------- MODULE DevSigner ------------------------------
(***************************************************************************)
(* The signing state of the development provider (oidcutils.dev): a key    *)
(* and an algorithm in two module globals, set once per process by         *)
(* use_signing_key, read by every thread of idp.serve that mints a token   *)
(* or publishes the key set.  Reads and writes of the two globals are      *)
(* separate steps, between which the interpreter may switch threads.  The  *)
(* process may be stopped and started again under the same installation,   *)
(* which names a signing key in one of three ways, or in none.             *)
(***************************************************************************)
EXTENDS Sequences, FiniteSets, Integers

CONSTANTS Thread,       \* the request threads of ThreadingHTTPServer
          Key, KindOf,  \* keys, and the kind of each
          Fresh,        \* the P-256 keys ECKey.generate_key may return
          Source,       \* the keys that an installation may name
          Installation, \* how the provider is launched and what it is given
          None

(* Elliptic curves, RSA, "oct" for a key that is neither, and "public" for *)
(* one, of P-256, whose private half is left out.                          *)
Kind == {"P-256", "P-384", "P-521", "secp256k1", "RSA", "oct", "public"}
Alg == {"ES256", "ES384", "ES512", "RS256"}

ASSUME SignerAssumption ==
    /\ KindOf \in [Key -> Kind]
    /\ Fresh \subseteq Key /\ \A k \in Fresh : KindOf[k] = "P-256"
    /\ Source \subseteq [form : {"jwk", "jwkSet", "pem", "text"}, keys : Seq(Key)]
    /\ None \notin Source /\ None \notin Key
    /\ Installation \subseteq [launch : {"main", "serve"}, argument : Source \cup {None},
                                environment : Source \cup {None}]

VARIABLES installation,   \* idp.main with a --signing-key, or idp.serve with a
                          \* signing_key, and OIDC_DEV_SIGNING_KEY
          key, alg,   \* _signing_key and _alg
          phase,      \* of the process: "imported", "keyed", "serving", "stopped"
          pc, seen,   \* each thread: where it is, and the global it has read
          used,       \* the fresh keys generated so far, the latest at the last import
          minted,     \* history: the tokens handed out, each with its key, its
                      \* algorithm and the number of its process
          listed,     \* history: the (key, alg) pairs this process published
          failed      \* history: TRUE once a request failed to sign

process == <<installation, key, alg, phase>>
vars == <<installation, key, alg, phase, pc, seen, used, minted, listed, failed>>

(* The number of the running process: each generated a key at its import.  *)
Process == Cardinality(used)

(* Bug: a curve left out of the table.                                     *)
AlgorithmForNoP384(k) ==
    CASE KindOf[k] = "RSA" -> "RS256" [] KindOf[k] = "P-521" -> "ES512" [] OTHER -> "ES256"

(* _algorithm_for, with its default for what it does not know.             *)
AlgorithmFor(k) ==
    CASE KindOf[k] = "RSA"   -> "RS256"
      [] KindOf[k] = "P-384" -> "ES384"
      [] KindOf[k] = "P-521" -> "ES512"
      [] OTHER               -> "ES256"

(* What joserfc signs with a key of this kind.                             *)
Fits(k, a) == CASE KindOf[k] = "RSA"   -> a = "RS256"
                [] KindOf[k] = "P-256" -> a = "ES256"
                [] KindOf[k] = "P-384" -> a = "ES384"
                [] KindOf[k] = "P-521" -> a = "ES512"
                [] OTHER               -> FALSE

(* load_signing_key: the key a text names, or None where it raises.        *)
LoadSigningKey(src) ==
    LET k == IF src.keys = <<>> THEN None ELSE src.keys[1]
        kind == IF k = None THEN "none" ELSE KindOf[k] IN
    CASE src.form = "jwkSet"           -> k
      [] src.form \in {"jwk", "pem"}   -> IF kind \in Kind \ {"oct"} THEN k ELSE None
      [] src.form = "text"             -> None

(* What idp.main and idp.serve hand to use_signing_key: main parses a      *)
(* --signing-key and calls serve without it.                               *)
Passed == IF installation.launch = "main" THEN None ELSE installation.argument

(* source or os.environ.get(KEY_ENV)                                       *)
Resolved == IF Passed # None THEN Passed ELSE installation.environment

Init ==
    /\ installation \in Installation
    /\ \E k \in Fresh : key = k /\ used = {k}
    /\ alg = "ES256" /\ phase = "imported"
    /\ pc = [t \in Thread |-> "idle"] /\ seen = [t \in Thread |-> None]
    /\ minted = {} /\ listed = {} /\ failed = FALSE

(* The process is stopped, the requests it was answering with it, and      *)
(* started again: the module is imported afresh.                           *)
Restart ==
    /\ phase # "imported"
    /\ \E k \in Fresh \ used : key' = k /\ used' = used \cup {k}
    /\ alg' = "ES256" /\ phase' = "imported"
    /\ pc' = [t \in Thread |-> "idle"] /\ seen' = [t \in Thread |-> None]
    /\ listed' = {}
    /\ UNCHANGED <<installation, minted, failed>>

(* Bug: the key is kept and its algorithm is not looked up.                *)
UseSigningKeyOnly ==
    /\ phase = "imported"
    /\ IF Resolved = None
       THEN phase' = "serving" /\ UNCHANGED key
       ELSE IF LoadSigningKey(Resolved) = None
            THEN phase' = "stopped" /\ UNCHANGED key
            ELSE phase' = "serving" /\ key' = LoadSigningKey(Resolved)
    /\ UNCHANGED <<installation, alg, pc, seen, used, minted, listed, failed>>

(* Bug: a key that does not load is passed over, and the ephemeral one     *)
(* signs on.                                                               *)
UseSigningKeyFallsBack ==
    /\ phase = "imported"
    /\ IF Resolved = None \/ LoadSigningKey(Resolved) = None
       THEN phase' = "serving" /\ UNCHANGED key
       ELSE phase' = "keyed" /\ key' = LoadSigningKey(Resolved)
    /\ UNCHANGED <<installation, alg, pc, seen, used, minted, listed, failed>>

(* use_signing_key, called by serve before the socket is bound: up to its  *)
(* first assignment, which a key that does not load never reaches ...      *)
UseSigningKey ==
    /\ phase = "imported"
    /\ IF Resolved = None
       THEN phase' = "serving" /\ UNCHANGED key
       ELSE IF LoadSigningKey(Resolved) = None
            THEN phase' = "stopped" /\ UNCHANGED key
            ELSE phase' = "keyed" /\ key' = LoadSigningKey(Resolved)
    /\ UNCHANGED <<installation, alg, pc, seen, used, minted, listed, failed>>

(* ... and the second one.                                                 *)
UseAlgorithm ==
    /\ phase = "keyed"
    /\ alg' = AlgorithmFor(key)
    /\ phase' = "serving"
    /\ UNCHANGED <<installation, key, pc, seen, used, minted, listed, failed>>

-----------------------------------------------------------------------------
(* mint_token reads _alg for the header, then _signing_key to sign.        *)
MintHeader(t) ==
    /\ phase = "serving" /\ pc[t] = "idle"
    /\ pc' = [pc EXCEPT ![t] = "minting"]
    /\ seen' = [seen EXCEPT ![t] = alg]
    /\ UNCHANGED <<process, used, minted, listed, failed>>

MintSign(t) ==
    /\ pc[t] = "minting"
    /\ IF Fits(key, seen[t])
       THEN /\ minted' = minted \cup {[key |-> key, alg |-> seen[t], in |-> Process]}
            /\ UNCHANGED failed
       ELSE failed' = TRUE /\ UNCHANGED minted
    /\ pc' = [pc EXCEPT ![t] = "idle"] /\ seen' = [seen EXCEPT ![t] = None]
    /\ UNCHANGED <<process, used, listed>>

(* public_jwks reads _signing_key, then _alg.                              *)
ListKey(t) ==
    /\ phase = "serving" /\ pc[t] = "idle"
    /\ pc' = [pc EXCEPT ![t] = "listing"]
    /\ seen' = [seen EXCEPT ![t] = key]
    /\ UNCHANGED <<process, used, minted, listed, failed>>

ListAlgorithm(t) ==
    /\ pc[t] = "listing"
    /\ listed' = listed \cup {[key |-> seen[t], alg |-> alg]}
    /\ pc' = [pc EXCEPT ![t] = "idle"] /\ seen' = [seen EXCEPT ![t] = None]
    /\ UNCHANGED <<process, used, minted, failed>>

Next == \/ Restart \/ UseSigningKey \/ UseAlgorithm
        \/ \E t \in Thread : MintHeader(t) \/ MintSign(t) \/ ListKey(t) \/ ListAlgorithm(t)

Spec == Init /\ [][Next]_vars
-----------------------------------------------------------------------------
(* Every variable has its type, and while requests are served the key and  *)
(* the algorithm belong together.                                          *)
TypeOK ==
    /\ installation \in Installation
    /\ key \in Key /\ alg \in Alg
    /\ phase \in {"imported", "keyed", "serving", "stopped"}
    /\ pc \in [Thread -> {"idle", "minting", "listing"}]
    /\ \A t \in Thread : seen[t] \in CASE pc[t] = "idle"    -> {None}
                                      [] pc[t] = "minting" -> Alg
                                      [] pc[t] = "listing" -> Key
    /\ used \in SUBSET Fresh
    /\ minted \in SUBSET [key : Key, alg : Alg, in : 1..Process]
    /\ listed \in SUBSET [key : Key, alg : Alg]
    /\ failed \in BOOLEAN
    /\ phase = "serving" => alg = AlgorithmFor(key)

(* "A key and an algorithm that disagree produce tokens nothing can        *)
(* verify, and the key already says which it is" (dev.py:39-41): whatever  *)
(* the installation names and whichever requests overlap, a request fails  *)
(* to sign only with a named key that no algorithm here signs with.  Such  *)
(* a key does load: one on secp256k1, a public one, or whichever comes     *)
(* first in a key set.                                                     *)
SignsIfKeyCan ==
    failed => Resolved # None /\ \A a \in Alg : ~Fits(LoadSigningKey(Resolved), a)

(* What the process publishes, at any time, verifies every token it has    *)
(* handed out and, where serve is given a signing key or the environment   *)
(* names one, every token handed out before a restart: "supply one where   *)
(* tokens have to survive a restart" (idp.py:138-139).                     *)
PublishedVerifiesMinted ==
    \A m \in minted, l \in listed :
        Resolved # None \/ m.in = Process => m.key = l.key /\ m.alg = l.alg

(* However requests, the two assignments and restarts fall, the process    *)
(* signs and publishes as if key and algorithm were one (module Signing),  *)
(* with the key it was given, or with one that no process had before it.   *)
Pair(k, a) == [key |-> k, alg |-> a]
Active == IF phase = "serving" THEN {Pair(key, alg)} ELSE {}
Signers == {Pair(m.key, m.alg) : m \in minted}
Given == IF Resolved = None THEN {} ELSE {LoadSigningKey(Resolved)}

Whole == INSTANCE Signing WITH
             Signer <- {Pair(k, AlgorithmFor(k)) : k \in Key},
             named <- Given, active <- Active, minted <- Signers
ImplementsSigning == Whole!Spec

(* The key an installation names, where "an explicit `--signing-key` wins  *)
(* over the variable" (local-dev.md:302).                                  *)
Named == IF installation.argument # None THEN installation.argument
                                         ELSE installation.environment

(* "Supply `--signing-key` or `OIDC_DEV_SIGNING_KEY` where tokens have to  *)
(* survive a restart" (README.md:288-290, local-dev.md:290-302): the key   *)
(* that an installation names, in whichever way, signs what it mints.      *)
NamedKeySigns ==
    \A m \in minted : Named # None => m.key = LoadSigningKey(Named)
=============================================================================
