-------------------------- MODULE DevSignerProofs ---------------------------
(***************************************************************************)
(* Why the development provider's key and algorithm agree, for every set   *)
(* of keys, every installation and any number of request threads.          *)
(***************************************************************************)
EXTENDS DevSigner, FiniteSetTheorems, TLAPS

USE SignerAssumption

LEMMA ResolvedType ==
    ASSUME installation \in Installation
    PROVE  Resolved \in Source \cup {None}
BY DEF Resolved, Passed

LEMMA LoadedType ==
    ASSUME NEW src \in Source
    PROVE  LoadSigningKey(src) \in Key \cup {None}
<1>1. src.form \in {"jwk", "jwkSet", "pem", "text"} /\ src.keys \in Seq(Key)
  OBVIOUS
<1>2. src.keys # <<>> => src.keys[1] \in Key
  BY <1>1
<1> HIDE SignerAssumption
<1> QED
  BY <1>1, <1>2 DEF LoadSigningKey

LEMMA AlgorithmType == \A k : AlgorithmFor(k) \in Alg
BY DEF AlgorithmFor, Alg

(* The state of a process: before it looks for a key it has a P-256 key    *)
(* and ES256; afterwards the key it resolved, if it did; and while it      *)
(* serves, the algorithm of its key.                                       *)
ProcessInv ==
    /\ installation \in Installation
    /\ key \in Key /\ alg \in Alg
    /\ phase \in {"imported", "keyed", "serving", "stopped"}
    /\ phase = "imported" => key \in Fresh /\ alg = "ES256"
    /\ phase = "keyed" => Resolved # None /\ key = LoadSigningKey(Resolved)
    /\ phase = "serving" =>
         /\ alg = AlgorithmFor(key)
         /\ IF Resolved = None THEN key \in Fresh ELSE key = LoadSigningKey(Resolved)

(* Threads run only while the process serves, and what one of them has     *)
(* read of the two globals is still there.                                 *)
ThreadInv ==
    /\ pc \in [Thread -> {"idle", "minting", "listing"}]
    /\ seen \in [Thread -> Key \cup Alg \cup {None}]
    /\ \A t \in Thread :
         /\ pc[t] = "idle" => seen[t] = None
         /\ pc[t] = "minting" => seen[t] = alg /\ phase = "serving"
         /\ pc[t] = "listing" => seen[t] = key /\ phase = "serving"

(* What was handed out and published, over all processes so far.           *)
HistoryInv ==
    /\ used \in SUBSET Fresh /\ IsFiniteSet(used) /\ Process \in Nat /\ Process > 0
    /\ minted \in SUBSET [key : Key, alg : Alg, in : 1..Process]
    /\ listed \in SUBSET [key : Key, alg : Alg]
    /\ failed \in BOOLEAN
    /\ \A l \in listed : phase = "serving" /\ l.key = key /\ l.alg = alg
    /\ \A m \in minted :
         /\ m.in = Process => phase = "serving" /\ m.key = key
         /\ Resolved # None => m.key = LoadSigningKey(Resolved)
         /\ m.alg = AlgorithmFor(m.key)

SignerInv == ProcessInv /\ ThreadInv /\ HistoryInv

LEMMA SignerInit == Init => SignerInv
<1> SUFFICES ASSUME Init PROVE SignerInv
  OBVIOUS
<1>1. PICK k \in Fresh : key = k /\ used = {k}
  BY DEF Init
<1>2. IsFiniteSet(used) /\ Process = 1
  BY <1>1, FS_Singleton DEF Process
<1>3. ProcessInv
  BY <1>1 DEF Init, ProcessInv, Alg
<1>4. ThreadInv
  BY DEF Init, ThreadInv
<1>5. HistoryInv
  <2>1. /\ used \in SUBSET Fresh /\ IsFiniteSet(used) /\ Process \in Nat /\ Process > 0
        /\ minted = {} /\ listed = {} /\ failed = FALSE
    BY <1>1, <1>2 DEF Init
  <2> QED
    BY <2>1 DEF HistoryInv
<1> QED
  BY <1>3, <1>4, <1>5 DEF SignerInv

LEMMA SignerStep == SignerInv /\ [Next]_vars => SignerInv'
<1> SUFFICES ASSUME ProcessInv, ThreadInv, HistoryInv, [Next]_vars PROVE SignerInv'
  BY DEF SignerInv
<1>1. CASE Restart
  <2>1. PICK k \in Fresh \ used : key' = k /\ used' = used \cup {k}
    BY <1>1 DEF Restart
  <2>2. IsFiniteSet(used') /\ Process' = Process + 1
    BY <2>1, FS_AddElement DEF HistoryInv, Process
  <2>3. Resolved' = Resolved
    BY <1>1 DEF Restart, Resolved, Passed
  <2>4. ProcessInv'
    BY <1>1, <2>1, <2>3 DEF Restart, ProcessInv, Alg
  <2>5. ThreadInv'
    BY <1>1 DEF Restart, ThreadInv
  <2>6. minted' \in SUBSET [key : Key, alg : Alg, in : 1..Process']
    BY <1>1, <2>2 DEF Restart, HistoryInv
  <2>7. \A m \in minted : m.in # Process'
    BY <2>2 DEF HistoryInv
  <2>8. HistoryInv'
    BY <1>1, <2>1, <2>2, <2>3, <2>6, <2>7 DEF Restart, HistoryInv
  <2> QED
    BY <2>4, <2>5, <2>8 DEF SignerInv
<1>2. CASE UseSigningKey
  <2>1. /\ UNCHANGED <<installation, alg, pc, seen, used, minted, listed, failed>>
        /\ Resolved' = Resolved /\ Process' = Process /\ phase = "imported"
    BY <1>2 DEF UseSigningKey, Resolved, Passed, Process
  <2>2. Resolved # None => LoadSigningKey(Resolved) \in Key \cup {None}
    BY ResolvedType, LoadedType DEF ProcessInv
  <2>3. \A k \in Fresh : AlgorithmFor(k) = "ES256"
    BY DEF AlgorithmFor
  <2>4. /\ \A t \in Thread : pc[t] = "idle"
        /\ listed = {} /\ \A m \in minted : m.in # Process
    BY <2>1 DEF ThreadInv, HistoryInv
  <2>5. ProcessInv'
    BY <1>2, <2>1, <2>2, <2>3 DEF UseSigningKey, ProcessInv
  <2>6. ThreadInv'
    BY <2>1, <2>4 DEF ThreadInv
  <2>7. HistoryInv'
    BY <2>1, <2>4 DEF HistoryInv
  <2> QED
    BY <2>5, <2>6, <2>7 DEF SignerInv
<1>3. CASE UseAlgorithm
  <2>1. /\ UNCHANGED <<installation, key, pc, seen, used, minted, listed, failed>>
        /\ Resolved' = Resolved /\ Process' = Process /\ phase = "keyed"
        /\ alg' = AlgorithmFor(key) /\ phase' = "serving"
    BY <1>3 DEF UseAlgorithm, Resolved, Passed, Process
  <2>2. /\ \A t \in Thread : pc[t] = "idle"
        /\ listed = {} /\ \A m \in minted : m.in # Process
    BY <2>1 DEF ThreadInv, HistoryInv
  <2>3. ProcessInv'
    BY <2>1, AlgorithmType DEF ProcessInv
  <2>4. ThreadInv'
    BY <2>1, <2>2 DEF ThreadInv
  <2>5. HistoryInv'
    BY <2>1, <2>2 DEF HistoryInv
  <2> QED
    BY <2>3, <2>4, <2>5 DEF SignerInv
<1>4. ASSUME UNCHANGED <<process, used>>
      PROVE  ProcessInv' /\ Resolved' = Resolved /\ Process' = Process
  BY <1>4 DEF process, ProcessInv, Resolved, Passed, Process
<1>5. ASSUME NEW t \in Thread, MintHeader(t)
      PROVE  SignerInv'
  <2>1. UNCHANGED <<process, used, minted, listed, failed>>
    BY <1>5 DEF MintHeader
  <2>2. ThreadInv'
    BY <1>5 DEF MintHeader, process, ThreadInv, ProcessInv
  <2>3. HistoryInv'
    BY <1>4, <2>1 DEF process, HistoryInv
  <2> QED
    BY <1>4, <2>1, <2>2, <2>3 DEF SignerInv
<1>6. ASSUME NEW t \in Thread, MintSign(t)
      PROVE  SignerInv'
  <2>1. /\ UNCHANGED <<process, used, listed>>
        /\ pc[t] = "minting" /\ seen[t] = alg /\ phase = "serving"
        /\ minted' \subseteq minted \cup {[key |-> key, alg |-> alg, in |-> Process]}
        /\ failed' \in BOOLEAN
    BY <1>6 DEF MintSign, ThreadInv, HistoryInv
  <2>2. ThreadInv'
    BY <1>6 DEF MintSign, process, ThreadInv
  <2>3. /\ [key |-> key, alg |-> alg, in |-> Process] \in [key : Key, alg : Alg, in : 1..Process]
        /\ alg = AlgorithmFor(key)
        /\ Resolved # None => key = LoadSigningKey(Resolved)
    BY <2>1 DEF ProcessInv, HistoryInv
  <2>4. HistoryInv'
    <3>1. /\ UNCHANGED <<installation, key, alg, phase, used, listed>>
          /\ Resolved' = Resolved /\ Process' = Process
      BY <1>4, <2>1 DEF process
    <3>2. minted' \in SUBSET [key : Key, alg : Alg, in : 1..Process']
      BY <2>1, <2>3, <3>1 DEF HistoryInv
    <3>3. ASSUME NEW m \in minted'
          PROVE  /\ m.in = Process' => phase' = "serving" /\ m.key = key'
                 /\ Resolved' # None => m.key = LoadSigningKey(Resolved')
                 /\ m.alg = AlgorithmFor(m.key)
      <4>1. CASE m \in minted
        BY <4>1, <3>1 DEF HistoryInv
      <4>2. CASE m = [key |-> key, alg |-> alg, in |-> Process]
        BY <4>2, <2>1, <2>3, <3>1
      <4> QED
        BY <2>1, <4>1, <4>2
    <3>4. \A l \in listed' : phase' = "serving" /\ l.key = key' /\ l.alg = alg'
      BY <3>1 DEF HistoryInv
    <3>5. used' \in SUBSET Fresh /\ IsFiniteSet(used') /\ Process' \in Nat /\ Process' > 0
      BY <3>1 DEF HistoryInv
    <3> HIDE SignerAssumption
    <3> QED
      BY <2>1, <3>2, <3>3, <3>4, <3>5 DEF HistoryInv
  <2> QED
    BY <1>4, <2>1, <2>2, <2>4 DEF SignerInv
<1>7. ASSUME NEW t \in Thread, ListKey(t)
      PROVE  SignerInv'
  <2>1. UNCHANGED <<process, used, minted, listed, failed>>
    BY <1>7 DEF ListKey
  <2>2. ThreadInv'
    BY <1>7 DEF ListKey, process, ThreadInv, ProcessInv
  <2>3. HistoryInv'
    BY <1>4, <2>1 DEF process, HistoryInv
  <2> QED
    BY <1>4, <2>1, <2>2, <2>3 DEF SignerInv
<1>8. ASSUME NEW t \in Thread, ListAlgorithm(t)
      PROVE  SignerInv'
  <2>1. /\ UNCHANGED <<process, used, minted, failed>>
        /\ pc[t] = "listing" /\ seen[t] = key /\ phase = "serving"
        /\ listed' = listed \cup {[key |-> key, alg |-> alg]}
    BY <1>8 DEF ListAlgorithm, ThreadInv
  <2>2. ThreadInv'
    BY <1>8 DEF ListAlgorithm, process, ThreadInv
  <2>3. HistoryInv'
    BY <1>4, <2>1 DEF process, HistoryInv, ProcessInv
  <2> QED
    BY <1>4, <2>1, <2>2, <2>3 DEF SignerInv
<1>9. CASE UNCHANGED vars
  <2>1. ThreadInv'
    BY <1>9 DEF vars, ThreadInv
  <2>2. HistoryInv'
    BY <1>4, <1>9 DEF vars, process, HistoryInv
  <2> QED
    BY <1>4, <1>9, <2>1, <2>2 DEF vars, process, SignerInv
<1> QED
  BY <1>1, <1>2, <1>3, <1>5, <1>6, <1>7, <1>8, <1>9 DEF Next

LEMMA SignerHolds == Spec => []SignerInv
BY SignerInit, SignerStep, PTL DEF Spec

(* Type correctness, and key and algorithm belong together while requests  *)
(* are served.                                                             *)
THEOREM Typing == Spec => []TypeOK
<1>1. SignerInv => TypeOK
  BY DEF SignerInv, ProcessInv, ThreadInv, HistoryInv, TypeOK
<1> QED
  BY SignerHolds, <1>1, PTL

(* Whatever is served, over any number of restarts, verifies what was      *)
(* minted by this process and, where a key is named, by those before it.   *)
THEOREM PublishedVerifies == Spec => []PublishedVerifiesMinted
<1>1. SignerInv => PublishedVerifiesMinted
  <2> SUFFICES ASSUME SignerInv, NEW m \in minted, NEW l \in listed,
                      Resolved # None \/ m.in = Process
               PROVE  m.key = l.key /\ m.alg = l.alg
    BY DEF PublishedVerifiesMinted
  <2>1. phase = "serving" /\ l.key = key /\ l.alg = alg /\ alg = AlgorithmFor(key)
    BY DEF SignerInv, ProcessInv, HistoryInv
  <2>2. m.key = key /\ m.alg = AlgorithmFor(m.key)
    BY <2>1 DEF SignerInv, ProcessInv, HistoryInv
  <2> QED
    BY <2>1, <2>2
<1> QED
  BY SignerHolds, <1>1, PTL

(* A request fails to sign only with a named key that cannot sign at all:  *)
(* an ephemeral key signs, and so does a named one that could, whichever   *)
(* requests overlap.                                                       *)
THEOREM NoFailure == Spec => []SignsIfKeyCan
<1>1. SignerInv /\ SignsIfKeyCan /\ [Next]_vars => SignsIfKeyCan'
  <2> SUFFICES ASSUME SignerInv, SignsIfKeyCan, [Next]_vars PROVE SignsIfKeyCan'
    OBVIOUS
  <2>1. Resolved' = Resolved
    BY DEF Next, vars, process, Restart, UseSigningKey, UseAlgorithm, MintHeader, MintSign,
           ListKey, ListAlgorithm, Resolved, Passed
  <2>2. ASSUME NEW t \in Thread, MintSign(t)
        PROVE  SignsIfKeyCan'
    <3>1. /\ seen[t] = AlgorithmFor(key) /\ key \in Key
          /\ IF Resolved = None THEN key \in Fresh ELSE key = LoadSigningKey(Resolved)
      BY <2>2 DEF MintSign, SignerInv, ThreadInv, ProcessInv
    <3>2. CASE Fits(key, seen[t])
      BY <2>1, <2>2, <3>2 DEF MintSign, SignsIfKeyCan
    <3>3. CASE ~Fits(key, seen[t])
      <4>1. KindOf[key] \notin {"RSA", "P-256", "P-384", "P-521"}
        BY <3>1, <3>3 DEF Fits, AlgorithmFor
      <4>2. key \notin Fresh /\ \A a \in Alg : ~Fits(key, a)
        BY <4>1 DEF Fits
      <4> QED
        BY <2>1, <3>1, <4>2 DEF SignsIfKeyCan
    <3> QED
      BY <3>2, <3>3
  <2>3. CASE UNCHANGED failed
    BY <2>1, <2>3 DEF SignsIfKeyCan
  <2>4. ASSUME NEW t \in Thread, MintHeader(t) \/ ListKey(t) \/ ListAlgorithm(t)
        PROVE  UNCHANGED failed
    BY <2>4 DEF MintHeader, ListKey, ListAlgorithm
  <2>5. Restart \/ UseSigningKey \/ UseAlgorithm \/ UNCHANGED vars => UNCHANGED failed
    BY DEF Restart, UseSigningKey, UseAlgorithm, vars
  <2> QED
    BY <2>2, <2>3, <2>4, <2>5 DEF Next
<1>2. Init => SignsIfKeyCan
  BY DEF Init, SignsIfKeyCan
<1> QED
  BY SignerHolds, <1>1, <1>2, PTL DEF Spec

(* A key that an installation names for idp.serve, or in the environment   *)
(* alone, signs all that any of its processes mints.  What main is given   *)
(* as --signing-key is the one exception (idp.py:189, 193).                *)
THEOREM NamedKeyHeeded ==
    Spec => [](installation.launch = "serve" \/ installation.argument = None => NamedKeySigns)
<1>1. SignerInv => (installation.launch = "serve" \/ installation.argument = None => NamedKeySigns)
  <2> SUFFICES ASSUME SignerInv, installation.launch = "serve" \/ installation.argument = None,
                      NEW m \in minted, Named # None
               PROVE  m.key = LoadSigningKey(Named)
    BY DEF NamedKeySigns
  <2>1. installation \in Installation /\ (Resolved # None => m.key = LoadSigningKey(Resolved))
    BY DEF SignerInv, ProcessInv, HistoryInv
  <2>2. installation.launch \in {"main", "serve"}
    BY <2>1
  <2>3. Resolved = Named
    BY <2>2 DEF Resolved, Passed, Named
  <2> QED
    BY <2>1, <2>3
<1> QED
  BY SignerHolds, <1>1, PTL

-----------------------------------------------------------------------------
(* A process without a named key has the one it generated, and no process  *)
(* before it signed with that.                                             *)
FreshInv ==
    Resolved = None =>
        /\ key \in used
        /\ \A m \in minted : m.key \in used /\ (m.in # Process => m.key # key)

LEMMA FreshInit == Init => FreshInv
BY DEF Init, FreshInv

LEMMA FreshStep == SignerInv /\ FreshInv /\ [Next]_vars => FreshInv'
<1> SUFFICES ASSUME SignerInv, FreshInv, [Next]_vars PROVE FreshInv'
  OBVIOUS
<1>1. Resolved' = Resolved
  BY DEF Next, vars, process, Restart, UseSigningKey, UseAlgorithm, MintHeader, MintSign,
         ListKey, ListAlgorithm, Resolved, Passed
<1>2. CASE Restart
  <2>1. PICK k \in Fresh \ used : key' = k /\ used' = used \cup {k}
    BY <1>2 DEF Restart
  <2>2. UNCHANGED minted
    BY <1>2 DEF Restart
  <2> QED
    BY <1>1, <2>1, <2>2 DEF FreshInv
<1>3. ASSUME UNCHANGED <<used, minted>>, Resolved = None => UNCHANGED key
      PROVE  FreshInv'
  BY <1>1, <1>3 DEF FreshInv, Process
<1>4. CASE UseSigningKey \/ UseAlgorithm
  BY <1>3, <1>4 DEF UseSigningKey, UseAlgorithm
<1>5. ASSUME NEW t \in Thread, MintSign(t)
      PROVE  FreshInv'
  <2>1. /\ UNCHANGED <<key, used>> /\ Process' = Process
        /\ minted' \subseteq minted \cup {[key |-> key, alg |-> seen[t], in |-> Process]}
    BY <1>5 DEF MintSign, process, Process
  <2> QED
    BY <1>1, <2>1 DEF FreshInv
<1>6. ASSUME NEW t \in Thread, MintHeader(t) \/ ListKey(t) \/ ListAlgorithm(t)
      PROVE  FreshInv'
  BY <1>3, <1>6 DEF MintHeader, ListKey, ListAlgorithm, process
<1>7. CASE UNCHANGED vars
  BY <1>3, <1>7 DEF vars
<1> QED
  BY <1>2, <1>4, <1>5, <1>6, <1>7 DEF Next

LEMMA WholeInit == Init => Whole!Init
BY DEF Init, Whole!Init, Active, Signers

(* A process that begins to serve has its signer.                          *)
LEMMA WholeServe ==
    ASSUME SignerInv, SignerInv', phase # "serving", phase' = "serving",
           UNCHANGED <<installation, minted, listed>>,
           Resolved = None => \A m \in minted : m.key # key'
    PROVE  Whole!Serve
<1>1. Given' = Given /\ Resolved' = Resolved /\ Signers' = Signers
  BY DEF Given, Resolved, Passed, Signers
<1>2. /\ key' \in Key /\ alg' = AlgorithmFor(key')
      /\ Resolved # None => key' = LoadSigningKey(Resolved)
  BY <1>1 DEF SignerInv, ProcessInv
<1>3. Active = {} /\ Active' = {Pair(key', alg')}
  BY DEF Active
<1>4. Pair(key', alg') \in {Pair(k, AlgorithmFor(k)) : k \in Key}
  BY <1>2
<1>5. IF Given # {} THEN Pair(key', alg').key \in Given
      ELSE \A p \in Signers : p.key # Pair(key', alg').key
  BY <1>2 DEF Given, Signers, Pair
<1> QED
  BY <1>1, <1>3, <1>4, <1>5 DEF Whole!Serve

LEMMA WholeStep ==
    SignerInv /\ SignerInv' /\ FreshInv /\ [Next]_vars => [Whole!Next]_(Whole!vars)
<1> SUFFICES ASSUME SignerInv, SignerInv', FreshInv, [Next]_vars
             PROVE  [Whole!Next]_(Whole!vars)
  OBVIOUS
<1>1. Given' = Given
  BY DEF Next, vars, process, Restart, UseSigningKey, UseAlgorithm, MintHeader, MintSign,
         ListKey, ListAlgorithm, Given, Resolved, Passed
<1>2. CASE Restart
  <2>1. Active' = {} /\ listed' = {} /\ Signers' = Signers
    BY <1>2 DEF Restart, Active, Signers
  <2> QED
    BY <1>1, <2>1 DEF Whole!Next, Whole!Stop
<1>3. ASSUME UNCHANGED <<minted, listed>>, Active' = Active
      PROVE  UNCHANGED Whole!vars
  BY <1>1, <1>3 DEF Whole!vars, Signers
<1>4. CASE UseSigningKey
  <2>1. /\ UNCHANGED <<installation, minted, listed>> /\ phase = "imported"
        /\ Resolved = None => phase' = "serving" /\ key' = key
        /\ Resolved # None => phase' # "serving"
    BY <1>4 DEF UseSigningKey
  <2>2. CASE Resolved = None
    <3>1. \A m \in minted : m.key # key
      BY <2>1, <2>2 DEF FreshInv, SignerInv, HistoryInv
    <3> QED
      BY <2>1, <2>2, <3>1, WholeServe DEF Whole!Next
  <2>3. CASE Resolved # None
    BY <1>3, <2>1, <2>3 DEF Active
  <2> QED
    BY <2>2, <2>3
<1>5. CASE UseAlgorithm
  <2>1. /\ UNCHANGED <<installation, minted, listed>> /\ phase = "keyed" /\ phase' = "serving"
        /\ Resolved # None
    BY <1>5 DEF UseAlgorithm, SignerInv, ProcessInv
  <2> QED
    BY <2>1, WholeServe DEF Whole!Next
<1>6. ASSUME NEW t \in Thread, MintSign(t)
      PROVE  [Whole!Next]_(Whole!vars)
  <2>1. /\ phase = "serving" /\ seen[t] = alg /\ Active' = Active /\ listed' = listed
        /\ \/ minted' = minted
           \/ minted' = minted \cup {[key |-> key, alg |-> seen[t], in |-> Process]}
    BY <1>6 DEF MintSign, SignerInv, ThreadInv, process, Active
  <2>2. CASE minted' = minted
    BY <1>3, <2>1, <2>2
  <2>3. CASE minted' = minted \cup {[key |-> key, alg |-> seen[t], in |-> Process]}
    <3>1. Active = {Pair(key, alg)}
      BY <2>1 DEF Active
    <3>2. Signers' = Signers \cup {Pair(key, alg)}
      <4> DEFINE new == [key |-> key, alg |-> alg, in |-> Process]
      <4>1. minted' = minted \cup {new} /\ new.key = key /\ new.alg = alg
        BY <2>1, <2>3
      <4> HIDE DEF new
      <4> QED
        BY <4>1 DEF Signers
    <3> QED
      BY <1>1, <2>1, <3>1, <3>2 DEF Whole!Next, Whole!Mint
  <2> QED
    BY <2>1, <2>2, <2>3
<1>7. ASSUME NEW t \in Thread, ListAlgorithm(t)
      PROVE  Whole!Next
  <2>1. /\ phase = "serving" /\ seen[t] = key /\ Active' = Active /\ Signers' = Signers
        /\ listed' = listed \cup {Pair(seen[t], alg)}
    BY <1>7 DEF ListAlgorithm, SignerInv, ThreadInv, process, Active, Signers, Pair
  <2>2. Active = {Pair(key, alg)}
    BY <2>1 DEF Active
  <2> QED
    BY <1>1, <2>1, <2>2 DEF Whole!Next, Whole!List
<1>8. ASSUME NEW t \in Thread, MintHeader(t) \/ ListKey(t)
      PROVE  UNCHANGED Whole!vars
  BY <1>3, <1>8 DEF MintHeader, ListKey, process, Active
<1>9. CASE UNCHANGED vars
  BY <1>3, <1>9 DEF vars, Active
<1> QED
  BY <1>2, <1>4, <1>5, <1>6, <1>7, <1>8, <1>9 DEF Next

(* Key and algorithm are two globals, read and written one after the       *)
(* other, but every token and every published key set is that of one       *)
(* signer: the installation's, or one that no other process had.           *)
THEOREM ImplementsWhole == Spec => ImplementsSigning
BY SignerHolds, FreshInit, FreshStep, WholeInit, WholeStep, PTL
   DEF Spec, ImplementsSigning, Whole!Spec
=============================================================================
