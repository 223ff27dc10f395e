------------------------------ MODULE Signing -------------------------------
(***************************************************************************)
(* What the development provider promises whoever trusts its tokens: one   *)
(* signer per process, a key and its algorithm that requests use as one.   *)
(* It is the signer the installation names, in every process, or else one  *)
(* that no process before has signed with.                                 *)
(***************************************************************************)
CONSTANT Signer   \* the pairs of a key and its algorithm

VARIABLES named,   \* what the installation names: {}, or a key, or what is none
          active,  \* the signer of the process that serves: {} or one
          minted,  \* the signers of all tokens handed out
          listed   \* what this process has published

vars == <<named, active, minted, listed>>

Init == active = {} /\ minted = {} /\ listed = {}

Serve == /\ active = {}
         /\ \E s \in Signer :
              /\ IF named # {} THEN s.key \in named ELSE \A m \in minted : m.key # s.key
              /\ active' = {s}
         /\ UNCHANGED <<named, minted, listed>>

Stop == active' = {} /\ listed' = {} /\ UNCHANGED <<named, minted>>

Mint == minted' = minted \cup active /\ UNCHANGED <<named, active, listed>>

List == listed' = listed \cup active /\ UNCHANGED <<named, active, minted>>

Next == Serve \/ Stop \/ Mint \/ List

Spec == Init /\ [][Next]_vars
=============================================================================
