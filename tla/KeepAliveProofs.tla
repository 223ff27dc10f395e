-------------------------- MODULE KeepAliveProofs ---------------------------
(***************************************************************************)
(* Why a kept-alive connection to the development provider stays in step,  *)
(* for any requests and any number of them, up to the first one that       *)
(* announces more than it sends; and what is true from there on.           *)
(***************************************************************************)
EXTENDS KeepAlive, SequenceTheorems, TLAPS

Piece(kind, i) == [kind |-> kind, of |-> i]
Pieces == [kind : {"head", "body"}, of : 1..MaxRequests]
Status == {"ok", "badRequest", "notFound", "unreadable"}

TypeInv ==
    /\ wire \in Seq(Pieces)
    /\ sent \in Seq(Request) /\ Len(sent) <= MaxRequests
    /\ owed \in BOOLEAN /\ ended \in BOOLEAN /\ open \in BOOLEAN
    /\ reading \in 0..Len(sent)
    /\ answers \in Seq(Status)
    /\ \A n \in 1..Len(wire) : wire[n].of \in 1..Len(sent)
    /\ owed => Len(sent) > 0

(* At most the last request waits for its answer.                          *)
CountInv == InStep => Len(answers) \in {Len(sent) - 1, Len(sent)}

(* A handler that waits for a body waits for that of the last request, and *)
(* nothing else is on the wire.                                            *)
ReadInv ==
    InStep /\ reading # 0 =>
        /\ reading = Len(sent) /\ Len(answers) < Len(sent)
        /\ sent[reading].method = "POST" /\ sent[reading].path = "token"
        /\ sent[reading].length \in {"right", "short"} /\ sent[reading].body # "empty"
        /\ wire = <<>> \/ (Len(wire) = 1 /\ wire[1] = Piece("body", reading) /\ ~owed)

(* A head on the wire is that of the last request, and nothing but its own *)
(* body follows it.                                                        *)
HeadInv ==
    InStep => \A p \in 1..Len(wire) : wire[p].kind = "head" =>
        /\ wire[p].of = Len(sent) /\ reading = 0 /\ Len(answers) < Len(sent)
        /\ \/ p = Len(wire)
           \/ p + 1 = Len(wire) /\ wire[p + 1] = Piece("body", Len(sent)) /\ ~owed

(* A body on the wire, or one still to be sent, is left unread, or waited  *)
(* for, or its head comes right before it.                                 *)
BodyInv ==
    InStep => \A n \in 1..Len(wire) : wire[n].kind = "body" =>
        /\ sent[wire[n].of].body # "empty"
        /\ \/ Unread(sent[wire[n].of]) \/ reading = wire[n].of
           \/ n > 1 /\ wire[n - 1] = Piece("head", wire[n].of)

OwedInv ==
    InStep /\ owed =>
        /\ Len(sent) > 0 /\ sent[Len(sent)].body # "empty"
        /\ \/ Unread(sent[Len(sent)]) \/ reading = Len(sent)
           \/ Len(wire) > 0 /\ wire[Len(wire)] = Piece("head", Len(sent))

(* A request that makes the handler read on was sent in step, when the one *)
(* before it had its answer.                                               *)
AstrayInv == (\E j \in 1..Len(sent) : Overlong(sent[j])) => Astray

Sync == /\ CountInv /\ ReadInv /\ HeadInv /\ BodyInv /\ OwedInv
        /\ AnsweredAsIfAlone /\ KeepAliveHolds

StepInv == TypeInv /\ AstrayInv /\ Sync

(* The handler takes a head, or a body, off the wire.                      *)
Takes == wire' = Tail(wire)

LEMMA KeepAliveInit == Init => StepInv
<1> SUFFICES ASSUME Init PROVE StepInv
  OBVIOUS
<1>1. TypeInv
  <2>1. Len(wire) = 0 /\ Len(sent) = 0 /\ 0 <= MaxRequests
    BY EmptySeq, KeepAliveAssumption DEF Init
  <2>2. /\ wire \in Seq(Pieces)
        /\ sent \in Seq(Request) /\ answers \in Seq(Status)
    BY EmptySeq DEF Init
  <2>3. owed \in BOOLEAN /\ ended \in BOOLEAN /\ open \in BOOLEAN
    BY Zenon DEF Init
  <2>4. reading \in 0..Len(sent)
    BY <2>1 DEF Init
  <2>5. \A n \in 1..Len(wire) : wire[n].of \in 1..Len(sent)
    BY <2>1
  <2>6. ~owed
    BY Zenon DEF Init
  <2> QED
    BY <2>1, <2>2, <2>3, <2>4, <2>5, <2>6 DEF TypeInv
<1>2. CountInv /\ ReadInv /\ HeadInv /\ BodyInv /\ OwedInv
  BY DEF Init, CountInv, ReadInv, HeadInv, BodyInv, OwedInv
<1>3. AnsweredAsIfAlone /\ KeepAliveHolds /\ AstrayInv
  BY DEF Init, AnsweredAsIfAlone, KeepAliveHolds, AstrayInv
<1> QED
  BY <1>1, <1>2, <1>3 DEF StepInv, Sync

-----------------------------------------------------------------------------
(* Types, in step or not.                                                  *)
LEMMA OnTheWire ==
    ASSUME TypeInv, wire # <<>>
    PROVE  /\ Len(wire) \in Nat \ {0} /\ Head(wire) = wire[1] /\ 1 \in 1..Len(wire)
           /\ wire[1] \in Pieces /\ wire[1].of \in 1..Len(sent)
           /\ Tail(wire) \in Seq(Pieces) /\ Len(Tail(wire)) = Len(wire) - 1
           /\ \A n \in 1..Len(Tail(wire)) : Tail(wire)[n] = wire[n + 1]
           /\ \A n \in 1..Len(Tail(wire)) : Tail(wire)[n].of \in 1..Len(sent)
<1>1. wire \in Seq(Pieces) /\ Len(wire) \in Nat \ {0}
  BY EmptySeq DEF TypeInv
<1>2. /\ Tail(wire) \in Seq(Pieces) /\ Len(Tail(wire)) = Len(wire) - 1
      /\ \A n \in 1..Len(Tail(wire)) : Tail(wire)[n] = wire[n + 1]
  BY <1>1, HeadTailProperties
<1>3. 1 \in 1..Len(wire) /\ wire[1] \in Pieces /\ wire[1].of \in 1..Len(sent)
  BY <1>1, ElementOfSeq DEF TypeInv
<1>4. Head(wire) = wire[1]
  BY <1>1
<1>5. \A n \in 1..Len(Tail(wire)) : n + 1 \in 1..Len(wire)
  BY <1>1, <1>2
<1>6. \A n \in 1..Len(Tail(wire)) : Tail(wire)[n].of \in 1..Len(sent)
  BY <1>2, <1>5 DEF TypeInv
<1> QED
  BY <1>1, <1>2, <1>3, <1>4, <1>6

LEMMA JsonType ==
    ASSUME TypeInv, NEW s \in Status, Json(s)
    PROVE  answers' \in Seq(Status) /\ Len(answers') = Len(answers) + 1
BY AppendProperties DEF TypeInv, Json

LEMMA MintedType == ASSUME NEW b PROVE Minted(b) \in Status
BY DEF Minted, Status

LEMMA ConcludeType ==
    ASSUME TypeInv, NEW b, Conclude(b)
    PROVE  /\ answers' \in Seq(Status) /\ open' \in BOOLEAN
           /\ answers' = answers \/ (\E s \in Status : Json(s))
<1>1. CASE Raises(b)
  BY <1>1 DEF Conclude, TypeInv
<1>2. CASE ~Raises(b)
  <2>1. Json(Minted(b)) /\ open' = open
    BY <1>2 DEF Conclude
  <2> QED
    BY <2>1, MintedType, JsonType DEF TypeInv
<1> QED
  BY <1>1, <1>2

LEMMA TypeKept ==
    ASSUME TypeInv, sent' = sent,
           wire' \in Seq(Pieces), \A n \in 1..Len(wire') : wire'[n].of \in 1..Len(sent),
           owed' \in {owed, FALSE}, ended' \in BOOLEAN, open' \in BOOLEAN,
           reading' \in 0..Len(sent), answers' \in Seq(Status)
    PROVE  TypeInv'
<1>1. owed' \in BOOLEAN
  BY DEF TypeInv
<1>2. owed' => Len(sent') > 0
  BY DEF TypeInv
<1>3. sent' \in Seq(Request) /\ Len(sent') <= MaxRequests /\ reading' \in 0..Len(sent')
  BY DEF TypeInv
<1>4. \A n \in 1..Len(wire') : wire'[n].of \in 1..Len(sent')
  OBVIOUS
<1> QED
  BY <1>1, <1>2, <1>3, <1>4 DEF TypeInv

(* A client adds a head or a body to the wire.                             *)
LEMMA WireGrows ==
    ASSUME TypeInv, NEW k \in {"head", "body"}, NEW i \in 1..MaxRequests,
           wire' = Append(wire, Piece(k, i))
    PROVE  /\ wire' \in Seq(Pieces)
           /\ Len(wire) \in Nat /\ Len(wire') = Len(wire) + 1
           /\ \A n \in 1..Len(wire) : wire'[n] = wire[n]
           /\ wire'[Len(wire')] = Piece(k, i) /\ wire'[Len(wire')].of = i
           /\ \A n \in 1..Len(wire') : n = Len(wire') \/ n \in 1..Len(wire)
<1>1. Piece(k, i) \in Pieces /\ Piece(k, i).of = i
  BY DEF Piece, Pieces
<1>2. /\ wire' \in Seq(Pieces)
      /\ Len(wire) \in Nat /\ Len(wire') = Len(wire) + 1
      /\ \A n \in 1..Len(wire) : wire'[n] = wire[n]
      /\ wire'[Len(wire')] = Piece(k, i)
  BY <1>1, AppendProperties DEF TypeInv
<1> QED
  BY <1>1, <1>2

LEMMA HeadSentType ==
    ASSUME TypeInv, NEW r \in Request, SendHead(r)
    PROVE  /\ TypeInv' /\ sent' \in Seq(Request) /\ Len(sent) \in Nat
           /\ Len(sent') = Len(sent) + 1
           /\ \A i \in 1..Len(sent) : sent'[i] = sent[i]
           /\ sent'[Len(sent')] = r /\ Len(sent') \in 1..MaxRequests
           /\ wire' = Append(wire, Piece("head", Len(sent')))
<1>1. /\ sent' \in Seq(Request) /\ Len(sent) \in Nat /\ Len(sent') = Len(sent) + 1
      /\ \A i \in 1..Len(sent) : sent'[i] = sent[i]
      /\ sent'[Len(sent')] = r
  BY AppendProperties DEF SendHead, TypeInv
<1>2. Len(sent') \in 1..MaxRequests
  BY <1>1, KeepAliveAssumption DEF SendHead
<1>3. wire' = Append(wire, Piece("head", Len(sent')))
  BY DEF SendHead, Piece
<1>4. /\ wire' \in Seq(Pieces)
      /\ \A n \in 1..Len(wire) : wire'[n] = wire[n]
      /\ wire'[Len(wire')].of = Len(sent')
      /\ \A n \in 1..Len(wire') : n = Len(wire') \/ n \in 1..Len(wire)
  BY <1>2, <1>3, WireGrows
<1>5. \A n \in 1..Len(wire') : wire'[n].of \in 1..Len(sent')
  <2> SUFFICES ASSUME NEW n \in 1..Len(wire')
               PROVE  wire'[n].of \in 1..Len(sent')
    OBVIOUS
  <2>1. CASE n = Len(wire')
    BY <1>2, <1>4, <2>1
  <2>2. CASE n \in 1..Len(wire)
    BY <1>1, <1>4, <2>2 DEF TypeInv
  <2> QED
    BY <1>4, <2>1, <2>2
<1>6. /\ reading' \in 0..Len(sent') /\ answers' \in Seq(Status)
      /\ owed' \in BOOLEAN /\ ended' \in BOOLEAN /\ open' \in BOOLEAN
  BY <1>1 DEF SendHead, TypeInv
<1>7. Len(sent') <= MaxRequests /\ Len(sent') > 0
  BY <1>2
<1>8. TypeInv'
  BY <1>1, <1>4, <1>5, <1>6, <1>7 DEF TypeInv
<1> QED
  BY <1>1, <1>2, <1>3, <1>8

LEMMA ReadPastType ==
    ASSUME TypeInv, ReadPast
    PROVE  /\ wire' \in Seq(Pieces)
           /\ \A n \in 1..Len(wire') : wire'[n].of \in 1..Len(sent)
<1> DEFINE rest(n) == SubSeq(wire, n + 1, Len(wire))
<1>1. PICK n \in 1..Len(wire) :
         wire' = rest(n) \/ wire' = <<[wire[n] EXCEPT !.kind = "body"]>> \o rest(n)
  BY DEF ReadPast
<1>2. wire \in Seq(Pieces) /\ Len(wire) \in Nat /\ n \in Int /\ n + 1 \in Int
  BY LenProperties DEF TypeInv
<1>3. \A i \in (n + 1)..Len(wire) : wire[i] \in Pieces /\ wire[i].of \in 1..Len(sent)
  BY <1>2, ElementOfSeq DEF TypeInv
<1>4. /\ rest(n) \in Seq(Pieces) /\ Len(rest(n)) \in Nat
      /\ Len(rest(n)) = IF n + 1 <= Len(wire) THEN Len(wire) - (n + 1) + 1 ELSE 0
      /\ \A i \in 1..(Len(wire) - (n + 1) + 1) : rest(n)[i] = wire[(n + 1) + i - 1]
  BY <1>2, <1>3, SubSeqProperties, LenProperties
<1>5. \A i \in 1..Len(rest(n)) : rest(n)[i].of \in 1..Len(sent)
  <2> SUFFICES ASSUME NEW i \in 1..Len(rest(n)) PROVE rest(n)[i].of \in 1..Len(sent)
    OBVIOUS
  <2>1. /\ i \in 1..(Len(wire) - (n + 1) + 1) /\ (n + 1) + i - 1 \in (n + 1)..Len(wire)
    BY <1>2, <1>4
  <2> QED
    BY <1>3, <1>4, <2>1
<1>6. CASE wire' = rest(n)
  BY <1>4, <1>5, <1>6
<1>7. CASE wire' = <<[wire[n] EXCEPT !.kind = "body"]>> \o rest(n)
  <2> DEFINE cut == [wire[n] EXCEPT !.kind = "body"]
  <2>1. wire[n] \in Pieces /\ wire[n].of \in 1..Len(sent)
    BY <1>2, ElementOfSeq DEF TypeInv
  <2>2. cut \in Pieces /\ cut.of \in 1..Len(sent)
    BY <2>1 DEF Pieces
  <2> HIDE DEF cut
  <2>3. <<cut>> \in Seq(Pieces) /\ Len(<<cut>>) = 1 /\ <<cut>>[1] = cut
    BY <2>2
  <2> DEFINE r == rest(n)
  <2>4. r \in Seq(Pieces) /\ Len(r) \in Nat /\ \A i \in 1..Len(r) : r[i].of \in 1..Len(sent)
    BY <1>4, <1>5
  <2>5. wire' = <<cut>> \o r
    BY <1>7 DEF cut
  <2> HIDE DEF r
  <2>6. /\ wire' \in Seq(Pieces) /\ Len(wire') = 1 + Len(r)
        /\ \A i \in 1..(1 + Len(r)) : wire'[i] = IF i <= 1 THEN <<cut>>[i] ELSE r[i - 1]
    BY <2>3, <2>4, <2>5, ConcatProperties
  <2>7. ASSUME NEW i \in 1..Len(wire') PROVE wire'[i].of \in 1..Len(sent)
    <3>1. CASE i = 1
      BY <2>2, <2>3, <2>4, <2>6, <3>1
    <3>2. CASE i > 1
      <4>1. i - 1 \in 1..Len(r) /\ wire'[i] = r[i - 1]
        BY <2>4, <2>6, <3>2
      <4> QED
        BY <2>4, <4>1
    <3> QED
      BY <2>4, <2>6, <3>1, <3>2
  <2> QED
    BY <2>6, <2>7
<1> QED
  BY <1>1, <1>6, <1>7

LEMMA TypeStep == TypeInv /\ [Next]_vars => TypeInv'
<1> SUFFICES ASSUME TypeInv, [Next]_vars PROVE TypeInv'
  OBVIOUS
<1>0. /\ owed \in BOOLEAN /\ ended \in BOOLEAN /\ open \in BOOLEAN
      /\ reading \in 0..Len(sent) /\ answers \in Seq(Status) /\ wire \in Seq(Pieces)
      /\ \A n \in 1..Len(wire) : wire[n].of \in 1..Len(sent)
      /\ Len(sent) \in Nat /\ 0 \in 0..Len(sent)
      /\ <<>> \in Seq(Pieces) /\ Len(<<>>) = 0
      /\ owed => Len(sent) > 0
  BY LenProperties, EmptySeq DEF TypeInv
<1>1. CASE DoGet
  <2>1. PICK r \in Request :
           Arrived(r) /\ Json(IF r.path = "document" THEN "ok" ELSE "notFound")
    BY <1>1 DEF DoGet
  <2>2. Json("ok") \/ Json("notFound")
    BY <2>1 DEF Json
  <2>3. wire # <<>> /\ wire' = Tail(wire) /\ UNCHANGED <<sent, owed, ended, reading, open>>
    BY <1>1, <2>1 DEF DoGet, Arrived
  <2>4. answers' \in Seq(Status)
    BY <2>2, JsonType DEF Status
  <2> QED
    BY <1>0, <2>3, <2>4, OnTheWire, TypeKept
<1>2. CASE PostElsewhere
  <2>1. wire # <<>> /\ wire' = Tail(wire) /\ UNCHANGED <<sent, owed, ended, reading, open>>
    BY <1>2 DEF PostElsewhere, Arrived
  <2>2. answers' \in Seq(Status)
    BY <1>2, JsonType DEF Status, PostElsewhere
  <2> QED
    BY <1>0, <2>1, <2>2, OnTheWire, TypeKept
<1>3. CASE PostToken
  <2>1. wire # <<>> /\ wire' = Tail(wire) /\ UNCHANGED <<sent, owed, ended, open>>
    BY <1>3 DEF PostToken, Arrived
  <2>2. \/ (Json("badRequest") \/ Json("ok")) /\ UNCHANGED reading
        \/ reading' = Head(wire).of /\ UNCHANGED answers
    BY <1>3 DEF PostToken
  <2>3. answers' \in Seq(Status)
    BY <1>0, <2>2, JsonType DEF Status
  <2>4. reading' \in 0..Len(sent)
    BY <1>0, <2>1, <2>2, OnTheWire
  <2> QED
    BY <1>0, <2>1, <2>3, <2>4, OnTheWire, TypeKept
<1>4. ASSUME NEW r \in Request, SendHead(r) PROVE TypeInv'
  BY <1>4, HeadSentType
<1>5. CASE SendBody
  <2>1. /\ UNCHANGED <<sent, ended, reading, answers, open>> /\ owed' = FALSE
        /\ wire' = Append(wire, Piece("body", Len(sent)))
    BY <1>5 DEF SendBody, Piece
  <2>2. Len(sent) \in 1..MaxRequests
    BY <1>5, KeepAliveAssumption DEF SendBody, TypeInv
  <2>3. /\ wire' \in Seq(Pieces)
        /\ \A n \in 1..Len(wire) : wire'[n] = wire[n]
        /\ wire'[Len(wire')].of = Len(sent)
        /\ \A n \in 1..Len(wire') : n = Len(wire') \/ n \in 1..Len(wire)
    BY <2>1, <2>2, WireGrows
  <2>4. ASSUME NEW n \in 1..Len(wire') PROVE wire'[n].of \in 1..Len(sent)
    <3>1. CASE n = Len(wire')
      BY <2>2, <2>3, <3>1
    <3>2. CASE n \in 1..Len(wire)
      BY <1>0, <2>3, <3>2
    <3> QED
      BY <2>3, <3>1, <3>2
  <2> QED
    BY <1>0, <2>1, <2>3, <2>4, TypeKept
<1>6. CASE EndSending
  <2>1. ended' = TRUE /\ UNCHANGED <<wire, sent, owed, reading, answers, open>>
    BY <1>6 DEF EndSending
  <2> QED
    BY <1>0, <2>1, TypeKept
<1>7. CASE ReadBody
  <2>1. wire # <<>> /\ reading' = 0 /\ UNCHANGED <<sent, owed, ended>>
    BY <1>7 DEF ReadBody
  <2>2. \/ Conclude(sent[reading].body) /\ wire' = Tail(wire)
        \/ Json("badRequest") /\ UNCHANGED <<open, wire>>
    BY <1>7 DEF ReadBody
  <2>3. answers' \in Seq(Status) /\ open' \in BOOLEAN
    BY <1>0, <2>2, ConcludeType, JsonType DEF Status
  <2> QED
    BY <1>0, <2>1, <2>2, <2>3, OnTheWire, TypeKept
<1>8. CASE ReadToEnd
  <2>1. wire' = <<>> /\ reading' = 0 /\ UNCHANGED <<sent, owed, ended>>
    BY <1>8 DEF ReadToEnd
  <2>2. Conclude(sent[reading].body) \/ (Json("badRequest") /\ UNCHANGED open)
    BY <1>8 DEF ReadToEnd
  <2>3. answers' \in Seq(Status) /\ open' \in BOOLEAN
    BY <1>0, <2>2, ConcludeType, JsonType DEF Status
  <2>4. wire' \in Seq(Pieces) /\ \A n \in 1..Len(wire') : wire'[n].of \in 1..Len(sent)
    BY <1>0, <2>1
  <2> QED
    BY <1>0, <2>1, <2>3, <2>4, TypeKept
<1>9. CASE ReadPast
  <2>1. Json("badRequest") /\ reading' = 0 /\ UNCHANGED <<sent, owed, ended, open>>
    BY <1>9 DEF ReadPast
  <2>2. answers' \in Seq(Status)
    BY <2>1, JsonType DEF Status
  <2> QED
    BY <1>0, <1>9, <2>1, <2>2, ReadPastType, TypeKept
<1>10. CASE Close
  <2>1. open' = FALSE /\ UNCHANGED <<wire, sent, owed, ended, reading, answers>>
    BY <1>10 DEF Close
  <2> QED
    BY <1>0, <2>1, TypeKept
<1>11. CASE Misread
  <2>1. /\ Json("unreadable") /\ open' = FALSE /\ wire' = <<>>
        /\ UNCHANGED <<sent, owed, ended, reading>>
    BY <1>11 DEF Misread
  <2>2. answers' \in Seq(Status)
    BY <2>1, JsonType DEF Status
  <2>3. wire' \in Seq(Pieces) /\ \A n \in 1..Len(wire') : wire'[n].of \in 1..Len(sent)
    BY <1>0, <2>1
  <2> QED
    BY <1>0, <2>1, <2>2, <2>3, TypeKept
<1>12. CASE UNCHANGED vars
  BY <1>0, <1>12, TypeKept DEF vars
<1> QED
  BY <1>1, <1>2, <1>3, <1>4, <1>5, <1>6, <1>7, <1>8, <1>9, <1>10, <1>11, <1>12 DEF Next

-----------------------------------------------------------------------------
(* What is said of a request does not depend on the state.                 *)
LEMMA Rigid ==
    \A i : /\ Expected(sent[i])' = Expected(sent'[i])
          /\ Spoils(sent[i])' <=> Spoils(sent'[i])
<1> SUFFICES ASSUME NEW i
             PROVE  /\ Expected(sent[i])' = Expected(sent'[i])
                    /\ Spoils(sent[i])' <=> Spoils(sent'[i])
  OBVIOUS
<1>1. Expected(sent[i])' = Expected(sent'[i])
  BY DEF Expected
<1>2. Spoils(sent[i])' <=> Spoils(sent'[i])
  BY DEF Spoils, Unread, Overlong
<1> QED
  BY <1>1, <1>2

(* One more answer is as good as those before it.                          *)
LEMMA OneMoreAnswer ==
    ASSUME TypeInv, AnsweredAsIfAlone, NEW s \in Status,
           sent' = sent, Json(s),
           \/ Len(answers) + 1 <= Len(sent) /\ s = Expected(sent[Len(answers) + 1])
           \/ \E j \in 1..Len(sent) : j <= Len(answers) + 1 /\ Spoils(sent[j])
    PROVE  AnsweredAsIfAlone'
<1>1. /\ Len(answers) \in Nat /\ Len(answers') = Len(answers) + 1
      /\ answers'[Len(answers) + 1] = s
      /\ \A i \in 1..Len(answers) : answers'[i] = answers[i]
  BY AppendProperties DEF TypeInv, Json
<1>2. SUFFICES ASSUME NEW i \in 1..Len(answers')
               PROVE  \/ i <= Len(sent) /\ answers'[i] = Expected(sent[i])
                      \/ \E j \in 1..Len(sent) : j <= i /\ Spoils(sent[j])
  BY Rigid DEF AnsweredAsIfAlone
<1>3. CASE i = Len(answers) + 1
  BY <1>1, <1>3
<1>4. CASE i \in 1..Len(answers)
  BY <1>1, <1>4 DEF AnsweredAsIfAlone
<1> QED
  BY <1>1, <1>3, <1>4

LEMMA NoMoreAnswers ==
    ASSUME AnsweredAsIfAlone, sent' = sent, answers' = answers
    PROVE  AnsweredAsIfAlone'
BY Rigid DEF AnsweredAsIfAlone

(* What a handler finds when it takes a head off the wire.                 *)
LEMMA HeadTaken ==
    ASSUME StepInv, InStep, NEW r, Arrived(r), Takes
    PROVE  /\ Len(sent) \in Nat \ {0} /\ r = sent[Len(sent)] /\ r \in RequestType
           /\ Len(answers) = Len(sent) - 1
           /\ wire' \in Seq(Pieces)
           /\ \/ wire' = <<>>
              \/ Len(wire') = 1 /\ wire'[1] = Piece("body", Len(sent)) /\ ~owed
                                /\ r.body # "empty"
           /\ owed => wire' = <<>> /\ r.body # "empty"
<1>1. /\ open /\ reading = 0 /\ Len(wire) > 0 /\ Len(wire) \in Nat /\ wire # <<>>
      /\ wire[1] = Head(wire) /\ wire[1].kind = "head" /\ r = sent[wire[1].of]
  BY OnTheWire DEF Arrived, InStep, StepInv
<1>2. /\ wire' \in Seq(Pieces)
      /\ Len(wire') = Len(wire) - 1
      /\ \A i \in 1..Len(wire') : wire'[i] = wire[i + 1]
  BY <1>1, OnTheWire DEF StepInv, Takes
<1>3. /\ wire[1].of = Len(sent) /\ Len(sent) \in Nat \ {0}
      /\ Len(answers) < Len(sent)
      /\ Len(wire) = 1 \/ (Len(wire) = 2 /\ wire[2] = Piece("body", Len(sent)) /\ ~owed)
  <2>1. 1 \in 1..Len(wire) /\ wire[1].of \in 1..Len(sent) /\ Len(sent) \in Nat
    BY <1>1 DEF StepInv, Sync, TypeInv
  <2>2. /\ wire[1].of = Len(sent) /\ Len(answers) < Len(sent)
        /\ \/ 1 = Len(wire)
           \/ 1 + 1 = Len(wire) /\ wire[1 + 1] = Piece("body", Len(sent)) /\ ~owed
    BY <1>1, <2>1 DEF StepInv, Sync, HeadInv
  <2> QED
    BY <2>1, <2>2
<1>4. r = sent[Len(sent)] /\ Len(answers) = Len(sent) - 1
  BY <1>1, <1>3 DEF StepInv, Sync, TypeInv, CountInv
<1>5. r \in RequestType
  BY <1>3, <1>4, KeepAliveAssumption DEF StepInv, Sync, TypeInv
<1>6. Len(wire) = 1 => wire' = <<>>
  BY <1>2, EmptySeq
<1>7. ASSUME Len(wire) = 2
      PROVE  Len(wire') = 1 /\ wire'[1] = Piece("body", Len(sent)) /\ r.body # "empty"
  <2>1. wire[2].kind = "body" /\ wire[2].of = Len(sent) /\ 2 \in 1..Len(wire)
    BY <1>3, <1>7 DEF Piece
  <2>2. sent[wire[2].of].body # "empty"
    BY <1>1, <2>1 DEF StepInv, Sync, BodyInv
  <2> QED
    <3>1. Len(wire') = 1 /\ 1 \in 1..Len(wire')
      BY <1>2, <1>7
    <3>2. wire'[1] = wire[1 + 1] /\ 1 + 1 = 2
      BY <1>2, <3>1
    <3>3. wire[2] = Piece("body", Len(sent))
      BY <1>3, <1>7
    <3>4. r.body # "empty"
      BY <1>4, <2>1, <2>2
    <3> QED
      BY <3>1, <3>2, <3>3, <3>4
<1>8. owed => Len(wire) = 1 /\ r.body # "empty"
  BY <1>1, <1>3, <1>4 DEF StepInv, Sync, OwedInv
<1> QED
  BY <1>2, <1>3, <1>4, <1>5, <1>6, <1>7, <1>8

(* A head is answered at once: what is left of its request is unread.      *)
LEMMA HeadAnswered ==
    ASSUME StepInv, InStep, NEW r, NEW s \in Status, Arrived(r),
           Takes, Json(s),
           UNCHANGED <<sent, owed, ended, reading, open>>,
           r.body # "empty" => Unread(r), s = Expected(r) \/ Unread(r)
    PROVE  Sync'
<1>1. /\ Len(sent) \in Nat \ {0} /\ r = sent[Len(sent)]
      /\ Len(answers) = Len(sent) - 1
      /\ wire' \in Seq(Pieces)
      /\ \/ wire' = <<>>
         \/ Len(wire') = 1 /\ wire'[1] = Piece("body", Len(sent)) /\ ~owed
                           /\ r.body # "empty"
      /\ owed => wire' = <<>> /\ r.body # "empty"
  BY HeadTaken
<1>2. Len(answers') = Len(sent) /\ open /\ reading = 0
  BY <1>1, JsonType DEF StepInv, Arrived
<1>3. /\ Len(wire') \in 0..1
      /\ \A n \in 1..Len(wire') : /\ n = 1 /\ wire'[n].kind = "body"
                                   /\ wire'[n].of = Len(sent) /\ r.body # "empty"
  <2>1. CASE wire' = <<>>
    <3>1. Len(wire') = 0
      BY <2>1, EmptySeq
    <3> QED
      BY <3>1
  <2>2. CASE Len(wire') = 1 /\ wire'[1] = Piece("body", Len(sent)) /\ r.body # "empty"
    <3>1. wire'[1].kind = "body" /\ wire'[1].of = Len(sent)
      BY <2>2 DEF Piece
    <3>2. \A n \in 1..Len(wire') : n = 1
      BY <2>2
    <3> QED
      BY <2>2, <3>1, <3>2
  <2> QED
    BY <1>1, <2>1, <2>2
<1>4. CountInv' /\ ReadInv'
  BY <1>1, <1>2 DEF CountInv, ReadInv
<1>5. HeadInv'
  BY <1>3 DEF HeadInv
<1>6. BodyInv'
  BY <1>1, <1>3 DEF BodyInv, Unread
<1>7. OwedInv'
  BY <1>1 DEF OwedInv, Unread
<1>8. AnsweredAsIfAlone'
  BY <1>1, OneMoreAnswer DEF StepInv, Sync, Spoils, TypeInv
<1>9. KeepAliveHolds'
  BY <1>2 DEF KeepAliveHolds
<1> QED
  BY <1>4, <1>5, <1>6, <1>7, <1>8, <1>9 DEF Sync

(* A head whose body is waited for.                                        *)
LEMMA BodyAwaited ==
    ASSUME StepInv, InStep, NEW r, Arrived(r), Takes, reading' = Head(wire).of,
           r.method = "POST", r.path = "token",
           r.length \in {"right", "short"}, r.body # "empty",
           UNCHANGED <<sent, owed, ended, answers, open>>
    PROVE  Sync'
<1>1. /\ Len(sent) \in Nat \ {0} /\ r = sent[Len(sent)]
      /\ Len(answers) = Len(sent) - 1
      /\ wire' \in Seq(Pieces)
      /\ \/ wire' = <<>>
         \/ Len(wire') = 1 /\ wire'[1] = Piece("body", Len(sent)) /\ ~owed
                           /\ r.body # "empty"
  BY HeadTaken
<1>2. open /\ reading' = Len(sent)
  <2>1. /\ open /\ wire # <<>> /\ 1 \in 1..Len(wire)
        /\ wire[1] = Head(wire) /\ wire[1].kind = "head"
    BY OnTheWire DEF Arrived, InStep, StepInv
  <2> QED
    BY <2>1 DEF StepInv, Sync, HeadInv
<1>3. /\ Len(wire') \in 0..1
      /\ \A n \in 1..Len(wire') : /\ n = 1 /\ wire'[n].kind = "body"
                                   /\ wire'[n].of = Len(sent)
  <2>1. CASE wire' = <<>>
    <3>1. Len(wire') = 0
      BY <2>1, EmptySeq
    <3> QED
      BY <3>1
  <2>2. CASE Len(wire') = 1 /\ wire'[1] = Piece("body", Len(sent))
    <3>1. wire'[1].kind = "body" /\ wire'[1].of = Len(sent)
      BY <2>2 DEF Piece
    <3>2. \A n \in 1..Len(wire') : n = 1
      BY <2>2
    <3> QED
      BY <2>2, <3>1, <3>2
  <2> QED
    BY <1>1, <2>1, <2>2
<1>4. CountInv' /\ ReadInv'
  BY <1>1, <1>2 DEF StepInv, Sync, CountInv, ReadInv
<1>5. HeadInv'
  BY <1>3 DEF HeadInv
<1>6. BodyInv'
  BY <1>1, <1>2, <1>3 DEF BodyInv
<1>7. OwedInv'
  BY <1>1, <1>2 DEF OwedInv
<1>8. AnsweredAsIfAlone'
  BY NoMoreAnswers DEF StepInv, Sync
<1>9. KeepAliveHolds'
  BY <1>2 DEF KeepAliveHolds
<1> QED
  BY <1>4, <1>5, <1>6, <1>7, <1>8, <1>9 DEF Sync

(* A client sends its next head: what is left on the wire is unread.       *)
LEMMA HeadSent ==
    ASSUME StepInv, InStep, NEW r \in Request, SendHead(r)
    PROVE  Sync'
<1>1. /\ open /\ ~owed /\ Len(sent) < MaxRequests /\ Len(answers) = Len(sent)
      /\ owed' = (r.body # "empty") /\ UNCHANGED <<reading, answers, open>>
  <2>1. ~(Len(sent) > 0 /\ Overlong(sent[Len(sent)]))
    BY LenProperties DEF InStep, StepInv, TypeInv
  <2> QED
    BY <2>1 DEF SendHead
<1>2. /\ sent' \in Seq(Request) /\ Len(sent) \in Nat /\ Len(sent') = Len(sent) + 1
      /\ \A i \in 1..Len(sent) : sent'[i] = sent[i]
      /\ sent'[Len(sent')] = r
  BY HeadSentType DEF StepInv
<1>3. Len(sent') \in 1..MaxRequests /\ wire' = Append(wire, Piece("head", Len(sent')))
  BY HeadSentType DEF StepInv
<1>4. /\ Len(wire) \in Nat /\ Len(wire') = Len(wire) + 1
      /\ \A n \in 1..Len(wire) : wire'[n] = wire[n]
      /\ wire'[Len(wire')] = Piece("head", Len(sent'))
  BY <1>3, WireGrows DEF StepInv
<1>5. reading = 0 /\ \A n \in 1..Len(wire) : wire[n].kind # "head"
  BY <1>1 DEF StepInv, Sync, ReadInv, HeadInv
<1>6. \A n \in 1..Len(wire) : wire[n].kind = "body" /\ wire[n].of \in 1..Len(sent)
  <2> SUFFICES ASSUME NEW n \in 1..Len(wire)
               PROVE  wire[n].kind = "body" /\ wire[n].of \in 1..Len(sent)
    OBVIOUS
  <2>1. wire[n] \in Pieces
    BY ElementOfSeq DEF StepInv, TypeInv
  <2> QED
    BY <1>5, <2>1 DEF StepInv, TypeInv, Pieces
<1>7. \A n \in 1..Len(wire) : /\ sent[wire[n].of].body # "empty"
                              /\ Unread(sent[wire[n].of])
  <2> SUFFICES ASSUME NEW n \in 1..Len(wire)
               PROVE  sent[wire[n].of].body # "empty" /\ Unread(sent[wire[n].of])
    OBVIOUS
  <2>1. ~(n > 1 /\ wire[n - 1] = Piece("head", wire[n].of))
    <3>1. n > 1 => n - 1 \in 1..Len(wire)
      BY <1>4
    <3> QED
      BY <1>6, <3>1 DEF Piece
  <2> QED
    BY <1>1, <1>5, <1>6, <2>1 DEF StepInv, Sync, BodyInv
<1>8. \A n \in 1..Len(wire') : n = Len(wire') \/ n \in 1..Len(wire)
  BY <1>4
<1>9. CountInv'
  BY <1>1, <1>2 DEF CountInv
<1>10. ReadInv'
  BY <1>1, <1>5 DEF ReadInv
<1>11. HeadInv'
  <2> SUFFICES ASSUME NEW p \in 1..Len(wire'), wire'[p].kind = "head"
               PROVE  /\ wire'[p].of = Len(sent') /\ reading' = 0
                      /\ Len(answers') < Len(sent') /\ p = Len(wire')
    BY DEF HeadInv
  <2>1. p = Len(wire')
    BY <1>4, <1>5, <1>8
  <2>2. wire'[p].of = Len(sent')
    BY <1>4, <2>1 DEF Piece
  <2> QED
    BY <1>1, <1>2, <1>5, <2>1, <2>2
<1>12. BodyInv'
  <2> SUFFICES ASSUME NEW n \in 1..Len(wire'), wire'[n].kind = "body"
               PROVE  sent'[wire'[n].of].body # "empty" /\ Unread(sent'[wire'[n].of])
    BY DEF BodyInv, Unread
  <2>1. n \in 1..Len(wire)
    BY <1>4, <1>8 DEF Piece
  <2> QED
    BY <1>2, <1>4, <1>6, <1>7, <2>1
<1>13. OwedInv'
  <2>1. owed' => sent'[Len(sent')].body # "empty"
    BY <1>1, <1>2
  <2>2. Len(sent') > 0 /\ Len(wire') > 0
    BY <1>2, <1>4
  <2> QED
    BY <1>4, <2>1, <2>2 DEF OwedInv
<1>14. AnsweredAsIfAlone'
  <2> SUFFICES ASSUME NEW i \in 1..Len(answers)
               PROVE  \/ i <= Len(sent') /\ answers[i] = Expected(sent'[i])
                      \/ \E j \in 1..Len(sent') : j <= i /\ Spoils(sent'[j])
    BY <1>1 DEF AnsweredAsIfAlone, Expected, Spoils, Unread, Overlong
  <2>1. \/ i <= Len(sent) /\ answers[i] = Expected(sent[i])
        \/ \E j \in 1..Len(sent) : j <= i /\ Spoils(sent[j])
    BY DEF StepInv, Sync, AnsweredAsIfAlone
  <2>2. i \in 1..Len(sent) /\ i <= Len(sent')
    BY <1>1, <1>2
  <2>3. CASE answers[i] = Expected(sent[i])
    BY <1>2, <2>2, <2>3
  <2>4. ASSUME NEW j \in 1..Len(sent), j <= i, Spoils(sent[j])
        PROVE  j \in 1..Len(sent') /\ Spoils(sent'[j])
    BY <1>2, <2>4
  <2> QED
    BY <2>1, <2>3, <2>4
<1>15. KeepAliveHolds'
  BY <1>1 DEF KeepAliveHolds
<1> QED
  BY <1>9, <1>10, <1>11, <1>12, <1>13, <1>14, <1>15 DEF Sync

LEMMA BodySent ==
    ASSUME StepInv, InStep, SendBody
    PROVE  Sync'
<1>1. /\ open /\ owed /\ ~owed' /\ UNCHANGED <<sent, ended, reading, answers, open>>
      /\ Len(sent) \in Nat \ {0} /\ sent[Len(sent)].body # "empty"
      /\ \/ Unread(sent[Len(sent)]) \/ reading = Len(sent)
         \/ Len(wire) > 0 /\ wire[Len(wire)] = Piece("head", Len(sent))
  BY DEF SendBody, StepInv, Sync, OwedInv, TypeInv
<1>2. Len(sent) \in 1..MaxRequests /\ wire' = Append(wire, Piece("body", Len(sent)))
  BY <1>1, KeepAliveAssumption DEF SendBody, Piece, StepInv, TypeInv
<1>3. /\ Len(wire) \in Nat /\ Len(wire') = Len(wire) + 1
      /\ \A n \in 1..Len(wire) : wire'[n] = wire[n]
      /\ wire'[Len(wire')] = Piece("body", Len(sent))
  BY <1>2, WireGrows DEF StepInv
<1>4. \A n \in 1..Len(wire') : n = Len(wire') \/ n \in 1..Len(wire)
  BY <1>3
<1>5. CountInv'
  BY <1>1 DEF StepInv, Sync, CountInv
<1>6. ReadInv'
  <2>1. reading # 0 => /\ reading = Len(sent) /\ Len(answers) < Len(sent)
                       /\ sent[reading].method = "POST" /\ sent[reading].path = "token"
                       /\ sent[reading].length \in {"right", "short"} /\ sent[reading].body # "empty"
                       /\ wire = <<>>
    BY <1>1 DEF StepInv, Sync, ReadInv
  <2>2. wire = <<>> => Len(wire') = 1 /\ wire'[1] = Piece("body", Len(sent))
    BY <1>3, EmptySeq
  <2> QED
    BY <1>1, <2>1, <2>2 DEF ReadInv
<1>7. HeadInv'
  <2> SUFFICES ASSUME NEW p \in 1..Len(wire'), wire'[p].kind = "head"
               PROVE  /\ wire'[p].of = Len(sent) /\ reading = 0 /\ Len(answers) < Len(sent)
                      /\ p + 1 = Len(wire') /\ wire'[p + 1] = Piece("body", Len(sent))
    BY <1>1 DEF HeadInv
  <2>1. p \in 1..Len(wire)
    BY <1>3, <1>4 DEF Piece
  <2>2. /\ wire[p].of = Len(sent) /\ reading = 0 /\ Len(answers) < Len(sent)
        /\ p = Len(wire)
    BY <1>1, <1>3, <2>1 DEF StepInv, Sync, HeadInv
  <2> QED
    BY <1>3, <2>1, <2>2
<1>8. BodyInv'
  <2> SUFFICES ASSUME NEW n \in 1..Len(wire'), wire'[n].kind = "body"
               PROVE  /\ sent[wire'[n].of].body # "empty"
                      /\ \/ Unread(sent[wire'[n].of]) \/ reading = wire'[n].of
                         \/ n > 1 /\ wire'[n - 1] = Piece("head", wire'[n].of)
    BY <1>1 DEF BodyInv, Unread
  <2>1. CASE n \in 1..Len(wire)
    <3>1. /\ sent[wire[n].of].body # "empty"
          /\ \/ Unread(sent[wire[n].of]) \/ reading = wire[n].of
             \/ n > 1 /\ wire[n - 1] = Piece("head", wire[n].of)
      BY <1>1, <1>3, <2>1 DEF StepInv, Sync, BodyInv
    <3>2. n > 1 => n - 1 \in 1..Len(wire)
      BY <1>3, <2>1
    <3> QED
      BY <1>3, <2>1, <3>1, <3>2
  <2>2. CASE n = Len(wire')
    <3>1. wire'[n].of = Len(sent)
      BY <1>3, <2>2 DEF Piece
    <3>2. Len(wire) > 0 => n > 1 /\ n - 1 = Len(wire) /\ wire'[n - 1] = wire[Len(wire)]
      BY <1>3, <2>2
    <3> QED
      BY <1>1, <3>1, <3>2
  <2> QED
    BY <1>4, <2>1, <2>2
<1>9. OwedInv'
  BY <1>1 DEF OwedInv
<1>10. AnsweredAsIfAlone'
  BY <1>1, NoMoreAnswers DEF StepInv, Sync
<1>11. KeepAliveHolds'
  BY <1>1 DEF KeepAliveHolds
<1> QED
  BY <1>5, <1>6, <1>7, <1>8, <1>9, <1>10, <1>11 DEF Sync

(* A body that a handler waited for, or as much of it as it asks for.      *)
LEMMA BodyRead ==
    ASSUME StepInv, InStep, ReadBody
    PROVE  Sync'
<1>1. /\ open /\ reading # 0 /\ wire # <<>> /\ reading' = 0
      /\ UNCHANGED <<sent, owed, ended>>
  BY DEF ReadBody
<1>2. /\ reading = Len(sent) /\ Len(answers) = Len(sent) - 1 /\ Len(sent) \in Nat \ {0}
      /\ sent[reading].method = "POST" /\ sent[reading].path = "token"
      /\ sent[reading].length \in {"right", "short"} /\ sent[reading].body # "empty"
      /\ Len(wire) = 1 /\ wire[1] = Piece("body", reading) /\ ~owed
      /\ Len(answers) \in Nat
  BY <1>1 DEF StepInv, Sync, TypeInv, ReadInv, CountInv
<1>3. CASE sent[reading].length = "right" /\ Raises(sent[reading].body)
  <2>1. ~open' /\ answers' = answers
    BY <1>3 DEF ReadBody, Conclude
  <2>2. CountInv' /\ ReadInv' /\ HeadInv' /\ BodyInv' /\ OwedInv'
    BY <2>1 DEF InStep, CountInv, ReadInv, HeadInv, BodyInv, OwedInv
  <2>3. AnsweredAsIfAlone'
    BY <1>1, <2>1, NoMoreAnswers DEF StepInv, Sync
  <2>4. KeepAliveHolds'
    <3>1. reading \in 1..Len(sent) /\ sent[reading].body = "unmintable"
      BY <1>2, <1>3 DEF Raises
    <3> QED
      BY <1>1, <3>1 DEF KeepAliveHolds
  <2> QED
    BY <2>2, <2>3, <2>4 DEF Sync
<1>4. ASSUME NEW s \in Status, Json(s), UNCHANGED open, Len(wire') \in {0, 1},
             s = Expected(sent[reading]) \/ Unread(sent[reading]),
             Len(wire') = 1 => Unread(sent[reading]) /\ wire' = wire
      PROVE  Sync'
  <2>1. Len(answers') = Len(sent)
    BY <1>2, <1>4, JsonType DEF StepInv
  <2>2. CountInv' /\ ReadInv' /\ OwedInv'
    BY <1>1, <1>2, <2>1 DEF CountInv, ReadInv, OwedInv
  <2>3. \A n \in 1..Len(wire') : /\ wire'[n].kind = "body" /\ wire'[n].of = reading
                                 /\ Unread(sent[reading])
    BY <1>2, <1>4 DEF Piece
  <2>4. HeadInv'
    BY <2>3 DEF HeadInv
  <2>5. BodyInv'
    BY <1>1, <1>2, <2>3 DEF BodyInv, Unread
  <2>6. AnsweredAsIfAlone'
    <3>1. Len(answers) + 1 = reading /\ reading \in 1..Len(sent)
      BY <1>2
    <3> QED
      BY <1>1, <1>2, <1>4, <3>1, OneMoreAnswer DEF StepInv, Sync, Spoils
  <2>7. KeepAliveHolds'
    BY <1>1, <1>4 DEF KeepAliveHolds
  <2> QED
    BY <2>2, <2>4, <2>5, <2>6, <2>7 DEF Sync
<1>5. CASE sent[reading].length = "right" /\ ~Raises(sent[reading].body)
  <2> DEFINE s == Minted(sent[reading].body)
  <2>1. UNCHANGED open /\ Json(s) /\ wire' = Tail(wire)
    BY <1>5 DEF ReadBody, Conclude
  <2>2. s \in Status /\ s = Expected(sent[reading])
    BY <1>2, <1>5 DEF Minted, Status, Expected
  <2>3. Len(wire') = 0
    BY <1>1, <1>2, <2>1, OnTheWire DEF StepInv
  <2> HIDE DEF s
  <2> QED
    BY <1>4, <2>1, <2>2, <2>3
<1>6. CASE sent[reading].length = "short"
  <2>1. "badRequest" \in Status /\ Unread(sent[reading])
    BY <1>2, <1>6 DEF Status, Unread
  <2>2. Json("badRequest") /\ UNCHANGED <<open, wire>>
    BY <1>6 DEF ReadBody
  <2> QED
    BY <1>2, <1>4, <2>1, <2>2
<1> QED
  BY <1>2, <1>3, <1>5, <1>6

(* A body taken for a head was left unread.                                *)
LEMMA BodyMisread ==
    ASSUME StepInv, InStep, Misread
    PROVE  Sync'
<1>1. /\ open /\ ~open' /\ reading = 0 /\ wire # <<>> /\ wire' = <<>>
      /\ Json("unreadable") /\ UNCHANGED <<sent, owed, ended, reading>>
  BY DEF Misread
<1>2. 1 \in 1..Len(wire) /\ wire[1].kind = "body" /\ wire[1].of \in 1..Len(sent)
  BY <1>1, OnTheWire DEF Misread, StepInv
<1>3. Unread(sent[wire[1].of])
  BY <1>1, <1>2 DEF StepInv, Sync, BodyInv
<1>4. Len(answers) + 1 >= Len(sent) /\ Len(sent) \in Nat /\ Len(answers) \in Nat
  BY <1>1 DEF StepInv, Sync, TypeInv, CountInv
<1>5. AnsweredAsIfAlone'
  <2>1. wire[1].of <= Len(answers) + 1
    BY <1>2, <1>4
  <2>2. "unreadable" \in Status
    BY DEF Status
  <2> QED
    BY <1>1, <1>2, <1>3, <2>1, <2>2, OneMoreAnswer DEF StepInv, Sync, Spoils
<1>6. CountInv' /\ ReadInv' /\ HeadInv' /\ BodyInv' /\ OwedInv'
  BY <1>1 DEF InStep, CountInv, ReadInv, HeadInv, BodyInv, OwedInv
<1>7. KeepAliveHolds'
  BY <1>1, <1>2, <1>3 DEF KeepAliveHolds, Spoils, Unread, Overlong
<1> QED
  BY <1>5, <1>6, <1>7 DEF Sync

(* What changes neither wire nor answers.                                  *)
LEMMA Undisturbed ==
    ASSUME StepInv, UNCHANGED <<wire, sent, owed, reading, answers, open>>, ended => ended'
    PROVE  Sync'
<1>1. InStep' => InStep
  BY DEF InStep, Overlong
<1>2. CountInv' /\ ReadInv'
  BY <1>1 DEF StepInv, Sync, CountInv, ReadInv
<1>3. HeadInv'
  BY <1>1 DEF StepInv, Sync, HeadInv
<1>4. BodyInv'
  BY <1>1 DEF StepInv, Sync, BodyInv, Unread
<1>5. OwedInv'
  BY <1>1 DEF StepInv, Sync, OwedInv, Unread
<1>6. AnsweredAsIfAlone'
  BY NoMoreAnswers DEF StepInv, Sync
<1>7. KeepAliveHolds'
  BY DEF StepInv, Sync, KeepAliveHolds, Spoils, Unread, Overlong
<1> QED
  BY <1>2, <1>3, <1>4, <1>5, <1>6, <1>7 DEF Sync

LEMMA NoReadingOn ==
    ASSUME TypeInv, InStep
    PROVE  ~ReadToEnd /\ ~ReadPast
<1>1. reading # 0 => reading \in 1..Len(sent)
  BY LenProperties DEF TypeInv
<1>2. reading # 0 => ~Overlong(sent[reading])
  BY <1>1 DEF InStep
<1> QED
  BY <1>2 DEF ReadToEnd, ReadPast

LEMMA InStepKept ==
    ASSUME StepInv, InStep, [Next]_vars
    PROVE  Sync'
<1>1. CASE DoGet
  <2>1. PICK r \in Request :
           /\ Arrived(r) /\ r.method = "GET"
           /\ Json(IF r.path = "document" THEN "ok" ELSE "notFound")
    BY <1>1 DEF DoGet
  <2> DEFINE s == IF r.path = "document" THEN "ok" ELSE "notFound"
  <2>2. s \in Status /\ s = Expected(r) /\ (r.body # "empty" => Unread(r))
    BY <2>1 DEF Status, Expected, Unread
  <2>3. Takes /\ UNCHANGED <<sent, owed, ended, reading, open>>
    BY <1>1 DEF DoGet, Takes
  <2>4. Json(s)
    BY <2>1
  <2> HIDE DEF s
  <2> QED
    BY <2>1, <2>2, <2>3, <2>4, HeadAnswered
<1>2. CASE PostElsewhere
  <2>1. PICK r \in Request : Arrived(r) /\ r.method = "POST" /\ r.path # "token"
    BY <1>2 DEF PostElsewhere
  <2>2. "notFound" \in Status /\ "notFound" = Expected(r) /\ (r.body # "empty" => Unread(r))
    BY <2>1 DEF Status, Expected, Unread
  <2>3. Takes /\ Json("notFound") /\ UNCHANGED <<sent, owed, ended, reading, open>>
    BY <1>2 DEF PostElsewhere, Takes
  <2> QED
    BY <2>1, <2>2, <2>3, HeadAnswered
<1>3. CASE PostToken
  <2>1. PICK r \in Request :
           /\ Arrived(r) /\ r.method = "POST" /\ r.path = "token"
           /\ \/ r.length = "nonsense" /\ Json("badRequest") /\ UNCHANGED reading
              \/ NoLength(r) /\ Json("ok") /\ UNCHANGED reading
              \/ /\ r.length # "nonsense" /\ ~NoLength(r)
                 /\ reading' = Head(wire).of /\ UNCHANGED answers
    BY <1>3 DEF PostToken
  <2>2. Takes /\ UNCHANGED <<sent, owed, ended, open>>
    BY <1>3 DEF PostToken, Takes
  <2>3. CASE r.length = "nonsense" /\ Json("badRequest") /\ UNCHANGED reading
    <3>1. /\ "badRequest" \in Status /\ "badRequest" = Expected(r)
          /\ r.body # "empty" => Unread(r)
      BY <2>1, <2>3 DEF Status, Expected, Unread
    <3> QED
      BY <2>1, <2>2, <2>3, <3>1, HeadAnswered
  <2>4. CASE NoLength(r) /\ Json("ok") /\ UNCHANGED reading
    <3>1. /\ "ok" \in Status
          /\ "ok" = Expected(r) \/ Unread(r)
          /\ r.body # "empty" => Unread(r)
      BY <2>1, <2>4 DEF Status, Expected, Unread, NoLength
    <3> QED
      BY <2>1, <2>2, <2>4, <3>1, HeadAnswered
  <2>5. CASE /\ r.length # "nonsense" /\ ~NoLength(r)
             /\ reading' = Head(wire).of /\ UNCHANGED answers
    <3>1. r \in RequestType /\ ~Overlong(r)
      BY <2>1, <2>2, HeadTaken DEF InStep
    <3>2. r.length \in {"right", "short"} /\ r.body # "empty"
      BY <2>1, <2>5, <3>1 DEF RequestType, Overlong, NoLength
    <3> QED
      BY <2>1, <2>2, <2>5, <3>2, BodyAwaited
  <2> QED
    BY <2>1, <2>3, <2>4, <2>5
<1>4. ASSUME NEW r \in Request, SendHead(r)
      PROVE  Sync'
  BY <1>4, HeadSent
<1>5. CASE SendBody
  BY <1>5, BodySent
<1>6. CASE EndSending
  BY <1>6, Undisturbed DEF EndSending
<1>7. CASE ReadBody
  BY <1>7, BodyRead
<1>8. CASE ReadToEnd \/ ReadPast
  BY <1>8, NoReadingOn DEF StepInv
<1>9. CASE Close
  <2>1. ended' /\ ~open' /\ UNCHANGED <<sent, answers>>
    BY <1>9 DEF Close
  <2>2. CountInv' /\ ReadInv' /\ HeadInv' /\ BodyInv' /\ OwedInv'
    BY <2>1 DEF InStep, CountInv, ReadInv, HeadInv, BodyInv, OwedInv
  <2>3. AnsweredAsIfAlone'
    BY <2>1, NoMoreAnswers DEF StepInv, Sync
  <2> QED
    BY <2>1, <2>2, <2>3 DEF Sync, KeepAliveHolds
<1>10. CASE Misread
  BY <1>10, BodyMisread
<1>11. CASE UNCHANGED vars
  BY <1>11, Undisturbed DEF vars
<1> QED
  BY <1>1, <1>2, <1>3, <1>4, <1>5, <1>6, <1>7, <1>8, <1>9, <1>10, <1>11 DEF Next

-----------------------------------------------------------------------------
(* What was sent and answered stays so; at most one answer is added.       *)
LEMMA Histories ==
    ASSUME TypeInv, [Next]_vars
    PROVE  /\ Len(sent) \in Nat /\ Len(sent') \in Nat /\ Len(sent) <= Len(sent')
           /\ \A j \in 1..Len(sent) : sent'[j] = sent[j]
           /\ Len(answers) \in Nat
           /\ Len(answers') \in {Len(answers), Len(answers) + 1}
           /\ \A i \in 1..Len(answers) : answers'[i] = answers[i]
<1>1. Len(sent) \in Nat /\ Len(answers) \in Nat
  BY LenProperties DEF TypeInv
<1>2. /\ Len(sent') \in Nat /\ Len(sent) <= Len(sent')
      /\ \A j \in 1..Len(sent) : sent'[j] = sent[j]
  <2>1. CASE \E r \in Request : SendHead(r)
    <3>1. PICK r \in Request : SendHead(r)
      BY <2>1
    <3> QED
      BY <3>1, HeadSentType
  <2>2. CASE sent' = sent
    BY <1>1, <2>2
  <2>3. (\E r \in Request : SendHead(r)) \/ sent' = sent
    BY DEF Next, vars, SendBody, EndSending, DoGet, PostElsewhere, PostToken, ReadBody,
           ReadToEnd, ReadPast, Close, Misread
  <2> QED
    BY <2>1, <2>2, <2>3
<1>3. answers' = answers \/ (\E s \in Status : Json(s))
  <2>1. CASE DoGet
    <3>1. Json("ok") \/ Json("notFound")
      BY <2>1 DEF DoGet, Json
    <3> QED
      BY <3>1 DEF Status
  <2>2. CASE PostElsewhere \/ ReadPast \/ Misread
    BY <2>2 DEF PostElsewhere, ReadPast, Misread, Status
  <2>3. CASE PostToken
    BY <2>3 DEF PostToken, Status
  <2>4. CASE ReadBody
    BY <2>4, ConcludeType DEF ReadBody, Status
  <2>5. CASE ReadToEnd
    BY <2>5, ConcludeType DEF ReadToEnd, Status
  <2>6. CASE \/ \E r \in Request : SendHead(r)
             \/ SendBody \/ EndSending \/ Close \/ UNCHANGED vars
    BY <2>6 DEF SendHead, SendBody, EndSending, Close, vars
  <2> QED
    BY <2>1, <2>2, <2>3, <2>4, <2>5, <2>6 DEF Next
<1>4. /\ Len(answers') \in {Len(answers), Len(answers) + 1}
      /\ \A i \in 1..Len(answers) : answers'[i] = answers[i]
  <2>1. ASSUME NEW s \in Status, Json(s)
        PROVE  /\ Len(answers') \in {Len(answers), Len(answers) + 1}
               /\ \A i \in 1..Len(answers) : answers'[i] = answers[i]
    BY <2>1, AppendProperties DEF Json, TypeInv
  <2> QED
    BY <1>1, <1>3, <2>1
<1> QED
  BY <1>1, <1>2, <1>4

LEMMA OnlyWhileOpen == ASSUME ~open, [Next]_vars PROVE UNCHANGED vars
BY DEF Next, SendHead, SendBody, EndSending, Arrived, DoGet, PostElsewhere, PostToken,
       ReadBody, ReadToEnd, ReadPast, Close, Misread

(* Out of step there is no way back.                                       *)
LEMMA StaysOut ==
    ASSUME TypeInv, ~InStep, [Next]_vars
    PROVE  ~InStep'
<1>1. CASE ~open
  <2>1. open' = open
    BY <1>1, OnlyWhileOpen DEF vars
  <2> QED
    BY <1>1, <2>1 DEF InStep
<1>2. CASE open
  <2>1. PICK j \in 1..Len(sent) : Overlong(sent[j])
    BY <1>2 DEF InStep
  <2>2. j \in 1..Len(sent') /\ Overlong(sent'[j])
    BY <2>1, Histories
  <2> QED
    BY <2>2 DEF InStep, Overlong
<1> QED
  BY <1>1, <1>2

LEMMA AstrayKept ==
    ASSUME StepInv, [Next]_vars
    PROVE  AstrayInv'
<1> SUFFICES ASSUME NEW j \in 1..Len(sent'), Overlong(sent'[j])
             PROVE  \E k \in 1..Len(sent') : k <= Len(answers') + 1 /\ Overlong(sent'[k])
  BY DEF AstrayInv, Astray, Overlong
<1>0. /\ Len(sent) \in Nat /\ Len(sent') \in Nat /\ Len(sent) <= Len(sent')
      /\ \A i \in 1..Len(sent) : sent'[i] = sent[i]
      /\ Len(answers) \in Nat
      /\ Len(answers') \in {Len(answers), Len(answers) + 1}
  BY Histories DEF StepInv
<1>1. CASE \E k \in 1..Len(sent) : Overlong(sent[k])
  <2>1. PICK k \in 1..Len(sent) : k <= Len(answers) + 1 /\ Overlong(sent[k])
    BY <1>1 DEF StepInv, AstrayInv, Astray
  <2> QED
    BY <1>0, <2>1
<1>2. CASE ~\E k \in 1..Len(sent) : Overlong(sent[k])
  <2>1. j > Len(sent)
    BY <1>0, <1>2
  <2>2. PICK r \in Request : SendHead(r)
    BY <1>0, <2>1 DEF Next, vars, SendBody, EndSending, DoGet, PostElsewhere, PostToken,
           ReadBody, ReadToEnd, ReadPast, Close, Misread
  <2>3. Len(answers) = Len(sent) /\ answers' = answers /\ Len(sent') = Len(sent) + 1
    BY <1>0, <1>2, <2>2, HeadSentType DEF SendHead, StepInv
  <2> QED
    BY <1>0, <2>3
<1> QED
  BY <1>1, <1>2

LEMMA OutOfStepKept ==
    ASSUME StepInv, ~InStep, [Next]_vars
    PROVE  Sync'
<1>1. CASE ~open
  BY <1>1, OnlyWhileOpen, Undisturbed DEF vars
<1>2. CASE open
  <2>1. PICK j \in 1..Len(sent) : j <= Len(answers) + 1 /\ Overlong(sent[j])
    BY <1>2 DEF InStep, StepInv, AstrayInv, Astray
  <2>2. /\ Len(sent) \in Nat /\ Len(sent') \in Nat /\ Len(sent) <= Len(sent')
        /\ \A i \in 1..Len(sent) : sent'[i] = sent[i]
        /\ Len(answers) \in Nat
        /\ Len(answers') \in {Len(answers), Len(answers) + 1}
        /\ \A i \in 1..Len(answers) : answers'[i] = answers[i]
    BY Histories DEF StepInv
  <2>3. j \in 1..Len(sent') /\ Spoils(sent'[j])
    BY <2>1, <2>2 DEF Spoils
  <2>4. ~InStep'
    BY StaysOut DEF StepInv
  <2>5. CountInv' /\ ReadInv' /\ HeadInv' /\ BodyInv' /\ OwedInv'
    BY <2>4 DEF CountInv, ReadInv, HeadInv, BodyInv, OwedInv
  <2>6. AnsweredAsIfAlone'
    <3> SUFFICES ASSUME NEW i \in 1..Len(answers')
                 PROVE  \/ i <= Len(sent') /\ answers'[i] = Expected(sent'[i])
                        \/ \E k \in 1..Len(sent') : k <= i /\ Spoils(sent'[k])
      BY Rigid DEF AnsweredAsIfAlone
    <3>1. CASE i = Len(answers) + 1
      BY <2>1, <2>2, <2>3, <3>1
    <3>2. CASE i \in 1..Len(answers)
      <4>1. \/ i <= Len(sent) /\ answers[i] = Expected(sent[i])
            \/ \E k \in 1..Len(sent) : k <= i /\ Spoils(sent[k])
        BY <3>2 DEF StepInv, Sync, AnsweredAsIfAlone
      <4> QED
        BY <2>2, <3>2, <4>1
    <3> QED
      BY <2>2, <3>1, <3>2
  <2>7. KeepAliveHolds'
    BY <2>3 DEF KeepAliveHolds, Spoils, Unread, Overlong
  <2> QED
    BY <2>5, <2>6, <2>7 DEF Sync
<1> QED
  BY <1>1, <1>2

LEMMA KeepAliveStep == StepInv /\ [Next]_vars => StepInv'
<1> SUFFICES ASSUME StepInv, [Next]_vars PROVE StepInv'
  OBVIOUS
<1>1. TypeInv'
  BY TypeStep DEF StepInv
<1>2. AstrayInv'
  BY AstrayKept
<1>3. Sync'
  BY InStepKept, OutOfStepKept
<1> QED
  BY <1>1, <1>2, <1>3 DEF StepInv

LEMMA ConnectionHolds == Spec => []StepInv
BY KeepAliveInit, KeepAliveStep, PTL DEF Spec

-----------------------------------------------------------------------------
(* While an answer is due, its head is on the wire, or the handler waits   *)
(* for a body that is on the wire or still to be sent.                     *)
DueInv ==
    InStep /\ Len(answers) < Len(sent) =>
        \/ reading # 0 /\ (owed \/ Len(wire) > 0)
        \/ \E p \in 1..Len(wire) : wire[p].kind = "head"

(* A body is still to be sent if its head comes last.                      *)
AnnouncedInv ==
    InStep => \A p \in 1..Len(wire) :
        wire[p].kind = "head" /\ p = Len(wire) /\ sent[Len(sent)].body # "empty" => owed

ProgressInv == StepInv /\ DueInv /\ AnnouncedInv

(* Nothing is due once the last request is answered, and no head is left.  *)
LEMMA NothingDue ==
    ASSUME NEW r, StepInv, InStep, Arrived(r), Takes, Json("ok") \/ Json("badRequest") \/ Json("notFound"),
           UNCHANGED sent
    PROVE  DueInv' /\ AnnouncedInv'
<1>1. /\ Len(sent) \in Nat \ {0} /\ Len(answers) = Len(sent) - 1
      /\ wire' = <<>> \/ (Len(wire') = 1 /\ wire'[1] = Piece("body", Len(sent)))
  BY HeadTaken
<1>2. Len(answers') = Len(sent)
  BY <1>1, JsonType DEF StepInv, TypeInv, Status
<1>3. DueInv'
  BY <1>1, <1>2 DEF DueInv
<1>4. wire' = <<>> => Len(wire') = 0
  BY EmptySeq
<1>5. AnnouncedInv'
  BY <1>1, <1>4 DEF AnnouncedInv, Piece
<1> QED
  BY <1>3, <1>5

LEMMA DueStep == ProgressInv /\ [Next]_vars => DueInv' /\ AnnouncedInv'
<1>0. ASSUME StepInv, ~InStep, [Next]_vars
      PROVE  DueInv' /\ AnnouncedInv'
  BY <1>0, StaysOut DEF StepInv, DueInv, AnnouncedInv
<1> SUFFICES ASSUME StepInv, InStep, DueInv, AnnouncedInv, [Next]_vars
             PROVE  DueInv' /\ AnnouncedInv'
  BY <1>0 DEF ProgressInv
<1>1. CASE DoGet
  <2>1. PICK r \in Request :
           Arrived(r) /\ Json(IF r.path = "document" THEN "ok" ELSE "notFound")
    BY <1>1 DEF DoGet
  <2>2. Takes /\ UNCHANGED sent
    BY <1>1 DEF DoGet, Takes
  <2>3. Json("ok") \/ Json("notFound")
    BY <2>1 DEF Json
  <2> QED
    BY <2>1, <2>2, <2>3, NothingDue
<1>2. CASE PostElsewhere
  <2>1. PICK r \in Request : Arrived(r)
    BY <1>2 DEF PostElsewhere
  <2>2. Takes /\ UNCHANGED sent /\ Json("notFound")
    BY <1>2 DEF PostElsewhere, Takes
  <2> QED
    BY <2>1, <2>2, NothingDue
<1>3. CASE PostToken
  <2>1. PICK r \in Request :
           /\ Arrived(r)
           /\ \/ Json("badRequest")
              \/ Json("ok")
              \/ /\ r.length # "nonsense" /\ ~NoLength(r) /\ r.path = "token"
                 /\ r.method = "POST" /\ reading' = Head(wire).of /\ UNCHANGED answers
    BY <1>3 DEF PostToken
  <2>2. Takes /\ UNCHANGED <<sent, owed, open>>
    BY <1>3 DEF PostToken, Takes
  <2>3. CASE Json("ok") \/ Json("badRequest")
    BY <2>1, <2>2, <2>3, NothingDue
  <2>4. CASE /\ r.length # "nonsense" /\ ~NoLength(r) /\ r.path = "token"
             /\ r.method = "POST" /\ reading' = Head(wire).of /\ UNCHANGED answers
    <3>1. /\ Len(sent) \in Nat \ {0} /\ r = sent[Len(sent)] /\ r \in RequestType
          /\ \/ wire' = <<>>
             \/ Len(wire') = 1 /\ wire'[1] = Piece("body", Len(sent))
      BY <2>1, <2>2, HeadTaken
    <3>0. r.body # "empty"
      BY <2>4, <3>1 DEF InStep, RequestType, Overlong, NoLength
    <3>2. /\ open /\ 1 \in 1..Len(wire) /\ Len(wire) \in Nat
          /\ wire[1] = Head(wire) /\ wire[1].kind = "head"
      BY <2>1, OnTheWire DEF Arrived, StepInv
    <3>3. wire[1].of = Len(sent)
      BY <3>2 DEF StepInv, Sync, HeadInv
    <3>4. Len(wire') = Len(wire) - 1
      BY <2>1, <2>2, OnTheWire DEF Arrived, Takes, StepInv
    <3>5. owed \/ Len(wire') > 0
      BY <2>4, <3>0, <3>1, <3>2, <3>4 DEF AnnouncedInv
    <3>6. DueInv'
      BY <2>2, <2>4, <3>1, <3>2, <3>3, <3>5 DEF DueInv
    <3>7. wire' = <<>> => Len(wire') = 0
      BY EmptySeq
    <3>8. AnnouncedInv'
      BY <3>1, <3>7 DEF AnnouncedInv, Piece
    <3> QED
      BY <3>6, <3>8
  <2> QED
    BY <2>1, <2>3, <2>4
<1>4. ASSUME NEW r \in Request, SendHead(r)
      PROVE  DueInv' /\ AnnouncedInv'
  <2>1. /\ sent' \in Seq(Request) /\ Len(sent) \in Nat /\ Len(sent') = Len(sent) + 1
        /\ sent'[Len(sent')] = r /\ Len(sent') \in 1..MaxRequests
        /\ wire' = Append(wire, Piece("head", Len(sent')))
    BY <1>4, HeadSentType DEF StepInv
  <2>2. /\ Len(wire) \in Nat /\ Len(wire') = Len(wire) + 1
        /\ wire'[Len(wire')] = Piece("head", Len(sent'))
    BY <2>1, WireGrows DEF StepInv
  <2>3. Len(wire') \in 1..Len(wire') /\ wire'[Len(wire')].kind = "head"
    BY <2>2 DEF Piece
  <2>4. owed' = (r.body # "empty")
    BY <1>4 DEF SendHead
  <2> QED
    BY <2>1, <2>3, <2>4 DEF DueInv, AnnouncedInv
<1>5. CASE SendBody
  <2>1. /\ owed /\ UNCHANGED <<sent, reading, answers, open>>
        /\ Len(sent) \in 1..MaxRequests /\ wire' = Append(wire, Piece("body", Len(sent)))
    BY <1>5, KeepAliveAssumption DEF SendBody, StepInv, TypeInv, Piece
  <2>2. /\ Len(wire) \in Nat /\ Len(wire') = Len(wire) + 1
        /\ \A n \in 1..Len(wire) : n \in 1..Len(wire') /\ wire'[n] = wire[n]
        /\ wire'[Len(wire')] = Piece("body", Len(sent))
    BY <2>1, WireGrows DEF StepInv
  <2>3. AnnouncedInv'
    BY <2>2 DEF AnnouncedInv, Piece
  <2>4. DueInv'
    BY <2>1, <2>2 DEF DueInv
  <2> QED
    BY <2>3, <2>4
<1>6. CASE ReadBody
  <2>1. reading # 0 /\ wire # <<>> /\ UNCHANGED sent
    BY <1>6 DEF ReadBody
  <2>2. /\ Len(answers) = Len(sent) - 1 /\ Len(sent) \in Nat \ {0} /\ Len(wire) = 1
        /\ wire[1] = Piece("body", reading)
    BY <2>1 DEF StepInv, Sync, TypeInv, ReadInv, CountInv
  <2>3. CASE Raises(sent[reading].body) /\ sent[reading].length = "right"
    BY <1>6, <2>3 DEF ReadBody, Conclude, InStep, DueInv, AnnouncedInv
  <2>4. CASE \E s \in Status : Json(s)
    <3>1. Len(answers') = Len(sent')
      BY <2>1, <2>2, <2>4, JsonType DEF StepInv
    <3>2. Len(wire') = 0 \/ wire' = wire
      <4>1. wire' = Tail(wire) \/ wire' = wire
        BY <1>6 DEF ReadBody
      <4>2. Len(Tail(wire)) = 0
        BY <2>1, <2>2, OnTheWire DEF StepInv
      <4> QED
        BY <4>1, <4>2
    <3>3. \A p \in 1..Len(wire') : wire'[p].kind # "head"
      BY <2>2, <3>2 DEF Piece
    <3> QED
      BY <2>2, <3>1, <3>3 DEF DueInv, AnnouncedInv
  <2>5. CASE ~(Raises(sent[reading].body) /\ sent[reading].length = "right")
    <3>1. Json(Minted(sent[reading].body)) \/ Json("badRequest")
      BY <1>6, <2>5 DEF ReadBody, Conclude
    <3>2. \E s \in Status : Json(s)
      BY <3>1, MintedType DEF Status
    <3> QED
      BY <2>4, <3>2
  <2> QED
    BY <2>3, <2>5
<1>7. CASE EndSending
  BY <1>7 DEF EndSending, InStep, Overlong, DueInv, AnnouncedInv
<1>8. CASE ReadToEnd \/ ReadPast
  BY <1>8, NoReadingOn DEF StepInv
<1>9. CASE Close \/ Misread
  BY <1>9 DEF Close, Misread, InStep, DueInv, AnnouncedInv
<1>10. CASE UNCHANGED vars
  BY <1>10 DEF vars, InStep, Overlong, DueInv, AnnouncedInv
<1> QED
  BY <1>1, <1>2, <1>3, <1>4, <1>5, <1>6, <1>7, <1>8, <1>9, <1>10 DEF Next

LEMMA ProgressHolds == Spec => []ProgressInv
<1>1. Init => DueInv /\ AnnouncedInv
  BY DEF Init, DueInv, AnnouncedInv
<1>2. Init => ProgressInv
  BY <1>1, KeepAliveInit DEF ProgressInv
<1>3. ProgressInv /\ [Next]_vars => ProgressInv'
  BY DueStep, KeepAliveStep DEF ProgressInv
<1> QED
  BY <1>2, <1>3, PTL DEF Spec

(* Client and handler never wait for each other, whatever was sent, but    *)
(* where a length told the handler to read on.                             *)
THEOREM NoDeadlock == Spec => []NobodyWaits
<1>1. ASSUME ProgressInv, InStep, Len(answers) < Len(sent), ~owed
      PROVE  wire # <<>> /\ (reading # 0 \/ Head(wire).kind = "head" \/ Len(wire) > 1)
  <2>1. \/ reading # 0 /\ Len(wire) > 0
        \/ \E p \in 1..Len(wire) : wire[p].kind = "head"
    BY <1>1 DEF ProgressInv, DueInv
  <2>2. wire # <<>>
    BY <2>1, EmptySeq
  <2>3. Len(wire) \in Nat \ {0} /\ Head(wire) = wire[1]
    BY <1>1, <2>2, OnTheWire DEF ProgressInv, StepInv
  <2> QED
    BY <2>1, <2>2, <2>3
<1>2. ASSUME ProgressInv, ~InStep, open
      PROVE  Astray
  BY <1>2 DEF ProgressInv, StepInv, AstrayInv, InStep
<1>3. ProgressInv => NobodyWaits
  BY <1>1, <1>2 DEF NobodyWaits
<1> QED
  BY ProgressHolds, <1>3, PTL

-----------------------------------------------------------------------------
(* Type correctness, and a connection in step owes at most one answer.     *)
THEOREM Typing == Spec => []TypeOK
<1>1. StepInv => TypeOK
  <2> SUFFICES ASSUME StepInv PROVE TypeOK
    OBVIOUS
  <2>1. InStep => Len(answers) \in {Len(sent) - 1, Len(sent)} \cap Nat
    <3>1. Len(answers) \in Nat
      BY LenProperties DEF StepInv, TypeInv
    <3> QED
      BY <3>1 DEF StepInv, Sync, CountInv
  <2> QED
    BY <2>1 DEF StepInv, TypeInv, TypeOK, Status, Pieces
<1> QED
  BY ConnectionHolds, <1>1, PTL

(* Whatever shared the connection with it, a request is answered as if it  *)
(* came alone, unless it or an earlier one had a body not read to its end, *)
(* or one read beyond it.                                                  *)
THEOREM AsIfAlone == Spec => []AnsweredAsIfAlone
<1>1. StepInv => AnsweredAsIfAlone
  BY DEF StepInv, Sync
<1> QED
  BY ConnectionHolds, <1>1, PTL

(* The connection stays open but for a client that closes, such a body, or *)
(* a claim that cannot be minted.                                          *)
THEOREM StaysOpen == Spec => []KeepAliveHolds
<1>1. StepInv => KeepAliveHolds
  BY DEF StepInv, Sync
<1> QED
  BY ConnectionHolds, <1>1, PTL
=============================================================================
