----------------------------- MODULE KeepAlive ------------------------------
(***************************************************************************)
(* One connection to oidcutils.idp, which speaks HTTP/1.1 and so keeps it  *)
(* open from request to request (idp.py:61-64).  Each connection has a     *)
(* thread and a handler of its own; what they share is module DevSigner's. *)
(* The wire carries heads and bodies, and a handler that does not read a   *)
(* body leaves it there for http.server to take for the next head.         *)
(***************************************************************************)
EXTENDS Sequences, Integers

CONSTANTS Request,       \* the requests clients send
          MaxRequests    \* bound on the requests of the connection

(* A body that asks for claims, for claims not in MINTABLE, for claims     *)
(* mint_token raises about (a lifetime that is no number), or that is not  *)
(* a JSON object; and a Content-Length that is right, absent (a chunked    *)
(* body, or none at all), no number, less than the body has, more than it  *)
(* has, or below zero.                                                     *)
Body == {"empty", "claims", "unknown", "unmintable", "notObject"}
RequestType == [method : {"GET", "POST"}, path : {"document", "token", "other"},
                length : {"right", "absent", "nonsense", "short", "long", "negative"},
                body : Body]

ASSUME KeepAliveAssumption == Request \subseteq RequestType /\ MaxRequests \in Nat

VARIABLES wire,      \* heads and bodies sent and not yet read, each of a request
          sent,      \* the requests so far, in order
          owed,      \* the client has yet to send the body of the last one
          ended,     \* the client will send no more, and the server's reads can tell
          reading,   \* the request whose body the handler waits for, or 0
          answers,   \* what the handler answered, in order
          open       \* the server has not closed the connection

vars == <<wire, sent, owed, ended, reading, answers, open>>

Init == /\ wire = <<>> /\ sent = <<>> /\ owed = FALSE /\ ended = FALSE
        /\ reading = 0 /\ answers = <<>> /\ open = TRUE

-----------------------------------------------------------------------------
(* A request whose body is read to a length the body does not have.        *)
Overlong(r) == r.method = "POST" /\ r.path = "token" /\ r.length \in {"long", "negative"}

(* The client: the next request once the last one is answered, its head    *)
(* and its body in separate writes.  It may send the next one sooner where *)
(* the handler is reading more than there is.                              *)
SendHead(r) ==
    /\ open /\ ~owed /\ ~ended /\ Len(sent) < MaxRequests
    /\ Len(answers) = Len(sent) \/ (Len(sent) > 0 /\ Overlong(sent[Len(sent)]))
    /\ sent' = Append(sent, r)
    /\ wire' = Append(wire, [kind |-> "head", of |-> Len(sent')])
    /\ owed' = (r.body # "empty")
    /\ UNCHANGED <<ended, reading, answers, open>>

SendBody ==
    /\ open /\ owed
    /\ wire' = Append(wire, [kind |-> "body", of |-> Len(sent)])
    /\ owed' = FALSE
    /\ UNCHANGED <<sent, ended, reading, answers, open>>

(* The client closes the connection, or its half of it.                    *)
EndSending ==
    /\ open /\ ~owed /\ ~ended
    /\ ended' = TRUE
    /\ UNCHANGED <<wire, sent, owed, reading, answers, open>>

-----------------------------------------------------------------------------
(* The handler is idle and a head is next on the wire.                     *)
Arrived(r) == /\ open /\ reading = 0 /\ wire # <<>>
              /\ Head(wire).kind = "head"
              /\ r = sent[Head(wire).of]

(* _json                                                                   *)
Json(status) == answers' = Append(answers, status)

DoGet ==
    /\ \E r \in Request :
         /\ Arrived(r) /\ r.method = "GET"
         /\ Json(IF r.path = "document" THEN "ok" ELSE "notFound")
    /\ wire' = Tail(wire)
    /\ UNCHANGED <<sent, owed, ended, reading, open>>

(* Bug: the return after a refusal forgotten.                              *)
PostElsewhereFallsThrough ==
    /\ \E r \in Request : Arrived(r) /\ r.method = "POST" /\ r.path # "token"
    /\ answers' = answers \o <<"notFound", "ok">>
    /\ wire' = Tail(wire)
    /\ UNCHANGED <<sent, owed, ended, reading, open>>

(* do_POST of an unknown path: the body, if any, stays where it is.        *)
PostElsewhere ==
    /\ \E r \in Request : Arrived(r) /\ r.method = "POST" /\ r.path # "token"
    /\ Json("notFound")
    /\ wire' = Tail(wire)
    /\ UNCHANGED <<sent, owed, ended, reading, open>>

(* Bug: without a Content-Length, a body is waited for all the same.       *)
PostTokenWaits ==
    /\ \E r \in Request :
         /\ Arrived(r) /\ r.method = "POST" /\ r.path = "token"
         /\ IF r.length = "nonsense" THEN Json("badRequest") /\ UNCHANGED reading
                                     ELSE reading' = Head(wire).of /\ UNCHANGED answers
    /\ wire' = Tail(wire)
    /\ UNCHANGED <<sent, owed, ended, open>>

(* Without a length there is nothing to read, and of zero neither.         *)
NoLength(r) == r.length = "absent" \/ (r.length \in {"right", "short"} /\ r.body = "empty")

(* do_POST of the token path, up to the read in _body.                     *)
PostToken ==
    /\ \E r \in Request :
         /\ Arrived(r) /\ r.method = "POST" /\ r.path = "token"
         /\ \/ /\ r.length = "nonsense"
               /\ Json("badRequest")
               /\ UNCHANGED reading
            \/ /\ NoLength(r)
               /\ Json("ok")
               /\ UNCHANGED reading
            \/ /\ r.length # "nonsense" /\ ~NoLength(r)
               /\ reading' = Head(wire).of
               /\ UNCHANGED answers
    /\ wire' = Tail(wire)
    /\ UNCHANGED <<sent, owed, ended, open>>

(* Bugs: claims nobody may ask for passed through; and a body that is not  *)
(* an object left to raise.                                                *)
MintedUnchecked(body) == IF body = "notObject" THEN "badRequest" ELSE "ok"
RaisesOnAnyFault(body) == body \in {"unmintable", "notObject"}

(* What is said of a body that was read and does not make mint_token raise.*)
Minted(body) == IF body = "claims" THEN "ok" ELSE "badRequest"

Raises(body) == body = "unmintable"

(* The rest of do_POST.  What mint_token raises is caught nowhere: the     *)
(* socket server closes the connection without an answer.                  *)
Conclude(body) ==
    IF Raises(body) THEN open' = FALSE /\ UNCHANGED answers
                    ELSE Json(Minted(body)) /\ UNCHANGED open

(* The read of a body that is there; of one that is longer than announced  *)
(* the handler takes the beginning, which is no JSON, and leaves the rest. *)
ReadBody ==
    /\ open /\ reading # 0 /\ wire # <<>> /\ ~Overlong(sent[reading])
    /\ \/ /\ sent[reading].length = "right"
          /\ Conclude(sent[reading].body) /\ wire' = Tail(wire)
       \/ /\ sent[reading].length = "short"
          /\ Json("badRequest") /\ UNCHANGED <<open, wire>>
    /\ reading' = 0
    /\ UNCHANGED <<sent, owed, ended>>

(* The read of more than there is goes on to the end of the stream, as     *)
(* read(-1) always does.  Nothing but its own body makes it JSON.          *)
ReadToEnd ==
    /\ open /\ ended /\ reading # 0 /\ Overlong(sent[reading])
    /\ IF \A p \in 1..Len(wire) : wire[p].of = reading
       THEN Conclude(sent[reading].body)
       ELSE Json("badRequest") /\ UNCHANGED open
    /\ wire' = <<>> /\ reading' = 0
    /\ UNCHANGED <<sent, owed, ended>>

(* It is filled by requests that follow, whole or in part: their heads and *)
(* bodies are gone, and what is left of a head is none.                    *)
ReadPast ==
    /\ open /\ reading # 0 /\ Overlong(sent[reading]) /\ sent[reading].length = "long"
    /\ \E n \in 1..Len(wire) :
         LET rest == SubSeq(wire, n + 1, Len(wire)) IN
         /\ wire[n].of # reading
         /\ wire' \in {rest, <<[wire[n] EXCEPT !.kind = "body"]>> \o rest}
    /\ Json("badRequest") /\ reading' = 0
    /\ UNCHANGED <<sent, owed, ended, open>>

(* Nothing more comes: the handler closes.                                 *)
Close ==
    /\ open /\ ended /\ reading = 0 /\ wire = <<>>
    /\ open' = FALSE
    /\ UNCHANGED <<wire, sent, owed, ended, reading, answers>>

(* http.server takes a body for a request line, answers an error and       *)
(* closes: at once if the body holds a line break, or else together with   *)
(* the head that follows.                                                  *)
Misread ==
    /\ open /\ reading = 0 /\ wire # <<>>
    /\ Head(wire).kind = "body"
    /\ Json("unreadable")
    /\ open' = FALSE
    /\ wire' = <<>>
    /\ UNCHANGED <<sent, owed, ended, reading>>

(* What the handler does for certain.  A read may want more than what      *)
(* follows, so that ReadPast is not among it, and a body without a line    *)
(* break waits for more.                                                   *)
Serve == \/ DoGet \/ PostElsewhere \/ PostToken \/ ReadBody \/ ReadToEnd \/ Close
         \/ ((Len(wire) > 1 \/ ended) /\ Misread)

Next == \/ \E r \in Request : SendHead(r)
        \/ SendBody \/ EndSending
        \/ DoGet \/ PostElsewhere \/ PostToken \/ ReadBody \/ ReadToEnd \/ ReadPast
        \/ Close \/ Misread

Spec == Init /\ [][Next]_vars

(* The thread of the connection goes on as long as it has something to     *)
(* read, and a client sends the bodies it announced.                       *)
FairSpec == Spec /\ WF_vars(Serve) /\ WF_vars(SendBody)
-----------------------------------------------------------------------------
InStep == open /\ \A j \in 1..Len(sent) : ~Overlong(sent[j])

(* Every variable has its type; while the connection is open, there is at  *)
(* most one answer to a request, and at most one missing, if all lengths   *)
(* are those of bodies.                                                    *)
TypeOK ==
    /\ wire \in Seq([kind : {"head", "body"}, of : 1..MaxRequests])
    /\ sent \in Seq(Request)
    /\ owed \in BOOLEAN /\ ended \in BOOLEAN /\ open \in BOOLEAN
    /\ reading \in 0..Len(sent)
    /\ answers \in Seq({"ok", "badRequest", "notFound", "unreadable"})
    /\ InStep => Len(answers) \in {Len(sent) - 1, Len(sent)} \cap Nat

(* What idp.py's docstrings and the comment on MINTABLE (38-40) promise    *)
(* for a request that comes alone.                                         *)
Expected(r) ==
    CASE r.method = "GET" -> IF r.path = "document" THEN "ok" ELSE "notFound"
      [] r.method = "POST" /\ r.path # "token" -> "notFound"
      [] r.method = "POST" /\ r.path = "token" ->
           IF r.body \in {"empty", "claims"} /\ r.length # "nonsense" THEN "ok" ELSE "badRequest"

(* A request whose body the handler does not read to its end.              *)
Unread(r) ==
    r.body # "empty" /\ (r.method = "GET" \/ r.path # "token" \/ r.length # "right")

Spoils(r) == Unread(r) \/ Overlong(r)

(* Whatever was asked on a connection before, and however heads, bodies    *)
(* and answers overlap, a request is answered as if it came alone, unless  *)
(* the handler left a body of it or of an earlier one unread, or read on   *)
(* where it, or an earlier one, had ended.                                 *)
AnsweredAsIfAlone ==
    \A i \in 1..Len(answers) :
        \/ i <= Len(sent) /\ answers[i] = Expected(sent[i])
        \/ \E j \in 1..Len(sent) : j <= i /\ Spoils(sent[j])

(* "With a length, so keep-alive holds" (idp.py:112): refusals close       *)
(* nothing; only the client does, a body not read to its end and no        *)
(* further, or a claim that cannot be minted.                              *)
KeepAliveHolds ==
    ~open => \/ ended
             \/ \E j \in 1..Len(sent) : Spoils(sent[j]) \/ sent[j].body = "unmintable"

(* The request now due, or one before it, made the handler read on.        *)
Astray == \E j \in 1..Len(sent) : j <= Len(answers) + 1 /\ Overlong(sent[j])

(* Client and handler wait for each other only where a request announced   *)
(* more than it sent, or less than nothing (idp.py:103-106 reads what it   *)
(* is told to): else, while an answer is due, the client has a body to     *)
(* send, or the handler what it needs to go on.                            *)
NobodyWaits ==
    open /\ Len(answers) < Len(sent) =>
        \/ owed
        \/ wire # <<>> /\ (reading # 0 \/ Head(wire).kind = "head" \/ Len(wire) > 1)
        \/ Astray

(* With the same exception no client waits forever: a request is answered  *)
(* or its connection is closed.  And without exception the handler is done *)
(* some time after its client: no read outlasts the stream.                *)
EveryRequestAnswered ==
    /\ Len(sent) > Len(answers) ~> (Len(sent) = Len(answers) \/ ~open \/ Astray)
    /\ ended ~> ~open
=============================================================================
