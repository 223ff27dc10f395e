------------------------------ MODULE MCSignIn ------------------------------
(* Instances of SignIn for TLC: two workers behind one balancer, with each *)
(* provider, and a TokenStore that they share or do not.  mount_dev and    *)
(* the example make a store in memory.                                     *)
EXTENDS SignIn, TLC

CONSTANTS w1, w2, l1, l2, r1, r2

Deployed(provider, shared) == [provider |-> provider, shared |-> shared]
MCDeployment ==
    {Deployed(p, FALSE) : p \in {"mounted", "elsewhere", "combined"}}
    \cup {Deployed("elsewhere", TRUE)}

Alike == Permutations({w1, w2}) \cup Permutations({l1, l2}) \cup Permutations({r1, r2})
=============================================================================
