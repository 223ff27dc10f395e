---------------------------- MODULE MCKeepAlive -----------------------------
(* An instance of KeepAlive for TLC: GETs and POSTs on every path, and for *)
(* the path that reads bodies every body of the right length and every     *)
(* other length with a body it makes a difference to, or none.             *)
EXTENDS KeepAlive

Get(p, l, b) == [method |-> "GET", path |-> p, length |-> l, body |-> b]
Post(p, l, b) == [method |-> "POST", path |-> p, length |-> l, body |-> b]

MCRequest ==
    {Get("document", "absent", "empty"), Get("other", "absent", "empty"),
     Get("document", "right", "claims"),
     Post("other", "absent", "empty"), Post("other", "right", "claims"),
     Post("token", "absent", "empty"), Post("token", "absent", "unknown"),
     Post("token", "nonsense", "claims"), Post("token", "short", "claims"),
     Post("token", "long", "claims"), Post("token", "long", "empty"),
     Post("token", "long", "unmintable"),
     Post("token", "negative", "claims"), Post("token", "negative", "empty")}
    \cup {Post("token", "right", b) : b \in Body}
=============================================================================
