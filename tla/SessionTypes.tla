---------------------------- MODULE SessionTypes ----------------------------
(***************************************************************************)
(* The types of Session, for any number of calls, any sizes of a message,   *)
(* any moment of a signal and whatever the network splits; and what         *)
(* arriving, reading and writing do to the streams.                         *)
(***************************************************************************)
EXTENDS Session, SequenceTheorems, TLAPS

-----------------------------------------------------------------------------
(* Sequences: what arriving and reading do to the streams.                  *)

\* The first n elements of w move to the end of s.
LEMMA Moving ==
  ASSUME NEW S, NEW s \in Seq(S), NEW w \in Seq(S), NEW n \in 1..Len(w)
  PROVE  /\ s \o SubSeq(w, 1, n) \in Seq(S)
         /\ SubSeq(w, n + 1, Len(w)) \in Seq(S)
         /\ Len(s \o SubSeq(w, 1, n)) = Len(s) + n
         /\ Len(SubSeq(w, n + 1, Len(w))) = Len(w) - n
         /\ \A i \in 1..Len(s) : (s \o SubSeq(w, 1, n))[i] = s[i]
         /\ \A i \in 1..n : (s \o SubSeq(w, 1, n))[Len(s) + i] = w[i]
         /\ \A i \in 1..(Len(w) - n) : SubSeq(w, n + 1, Len(w))[i] = w[n + i]
  <1>1. Len(w) \in Nat /\ Len(s) \in Nat /\ \A i \in 1..Len(w) : w[i] \in S
    BY LenProperties, ElementOfSeq
  <1>2. /\ SubSeq(w, 1, n) \in Seq(S)
        /\ Len(SubSeq(w, 1, n)) = n
        /\ \A i \in 1..n : SubSeq(w, 1, n)[i] = w[i]
    <2>1. \A i \in 1..n : w[i] \in S
      BY <1>1
    <2> QED BY <1>1, <2>1, SubSeqProperties
  <1>3. /\ SubSeq(w, n + 1, Len(w)) \in Seq(S)
        /\ Len(SubSeq(w, n + 1, Len(w))) = Len(w) - n
        /\ \A i \in 1..(Len(w) - n) : SubSeq(w, n + 1, Len(w))[i] = w[n + i]
    <2>1. \A i \in (n + 1)..Len(w) : w[i] \in S
      BY <1>1
    <2> QED BY <1>1, <2>1, SubSeqProperties
  <1> QED BY <1>1, <1>2, <1>3, ConcatProperties

\* The first n elements of s are read.
LEMMA Reading ==
  ASSUME NEW S, NEW s \in Seq(S), NEW n \in 0..Len(s)
  PROVE  /\ SubSeq(s, n + 1, Len(s)) \in Seq(S)
         /\ Len(SubSeq(s, n + 1, Len(s))) = Len(s) - n
         /\ \A i \in 1..(Len(s) - n) : SubSeq(s, n + 1, Len(s))[i] = s[n + i]
  <1>1. Len(s) \in Nat /\ \A i \in 1..Len(s) : s[i] \in S
    BY LenProperties, ElementOfSeq
  <1>2. \A i \in (n + 1)..Len(s) : s[i] \in S
    BY <1>1
  <1> QED BY <1>1, <1>2, SubSeqProperties

\* The first element of s is read.
LEMMA ReadingOne ==
  ASSUME NEW S, NEW s \in Seq(S), Len(s) >= 1
  PROVE  /\ s # <<>> /\ Head(s) = s[1] /\ s[1] \in S
         /\ Tail(s) \in Seq(S)
         /\ Len(Tail(s)) = Len(s) - 1
         /\ \A i \in 1..(Len(s) - 1) : Tail(s)[i] = s[i + 1]
  <1>1. s # <<>>
    BY EmptySeq
  <1>2. Len(s) \in Nat
    BY LenProperties
  <1> QED BY <1>1, <1>2, HeadTailProperties, ElementOfSeq

\* A sequence is empty or has a first element.
LEMMA EmptyOrNot ==
  ASSUME NEW S, NEW s \in Seq(S)
  PROVE  /\ Len(s) \in Nat
         /\ s = <<>> <=> Len(s) = 0
         /\ s # <<>> <=> Len(s) >= 1
         /\ DOMAIN s = 1..Len(s)
         /\ \A i \in 1..Len(s) : s[i] \in S
  BY EmptySeq, LenProperties, ElementOfSeq

\* What a message and its parts look like on the wire.
LEMMA Parts ==
  ASSUME NEW p \in {"len", "body", "big"}, NEW m \in Message, NEW n \in Nat
  PROVE  /\ CellsOf(p, m, n) \in Seq(Cell)
         /\ Len(CellsOf(p, m, n)) = n
         /\ \A i \in 1..n : CellsOf(p, m, n)[i] = [part |-> p, n |-> 0, msg |-> m]
  <1>1. [part |-> p, n |-> 0, msg |-> m] \in Cell
    BY DEF Cell
  <1>2. CellsOf(p, m, n) \in [1..n -> Cell]
    BY <1>1 DEF CellsOf
  <1>3. CellsOf(p, m, n) \in Seq(Cell)
    BY <1>2, SeqDef
  <1>4. Len(CellsOf(p, m, n)) = n
    BY <1>2, <1>3
  <1> QED BY <1>3, <1>4 DEF CellsOf

\* A message is a length word that announces the body, and the body.
LEMMA MessageParts ==
  ASSUME NEW m \in Message
  PROVE  /\ MessageCells(m) \in Seq(Cell)
         /\ Len(MessageCells(m)) = BodyCells + 1
         /\ MessageCells(m)[1].part = "len"
         /\ MessageCells(m)[1].n = BodyCells
         /\ \A i \in 2..(BodyCells + 1) : MessageCells(m)[i].part = "body"
         /\ \A i \in 1..(BodyCells + 1) : MessageCells(m)[i].msg = m
  <1> DEFINE lw == [part |-> "len", n |-> BodyCells, msg |-> m]
             b == CellsOf("body", m, BodyCells)
  <1>1. BodyCells \in Nat
    BY SessionAssumption
  <1>2. /\ b \in Seq(Cell) /\ Len(b) = BodyCells
        /\ \A i \in 1..BodyCells : b[i] = [part |-> "body", n |-> 0, msg |-> m]
    BY <1>1, Parts
  <1>3. lw \in Cell
    BY <1>1 DEF Cell
  <1> HIDE DEF lw, b
  <1>4. <<lw>> \in Seq(Cell) /\ Len(<<lw>>) = 1 /\ <<lw>>[1] = lw
    BY <1>3
  <1>5. /\ <<lw>> \o b \in Seq(Cell)
        /\ Len(<<lw>> \o b) = 1 + BodyCells
        /\ \A i \in 1..(1 + BodyCells) :
              (<<lw>> \o b)[i] = IF i <= 1 THEN <<lw>>[i] ELSE b[i - 1]
    BY <1>2, <1>4, ConcatProperties
  <1>6. MessageCells(m) = <<lw>> \o b
    BY DEF MessageCells, lw, b
  <1>7. (<<lw>> \o b)[1] = lw
    BY <1>1, <1>4, <1>5
  <1>8. \A i \in 2..(BodyCells + 1) : (<<lw>> \o b)[i] = b[i - 1]
    BY <1>1, <1>5
  <1>9. lw.part = "len" /\ lw.n = BodyCells /\ lw.msg = m
    BY DEF lw
  <1>10. \A i \in 2..(BodyCells + 1) : b[i - 1].part = "body" /\ b[i - 1].msg = m
    BY <1>1, <1>2
  <1> QED BY <1>1, <1>2, <1>5, <1>6, <1>7, <1>8, <1>9, <1>10

\* The end of a stream that is written to.
LEMMA Writing ==
  ASSUME NEW S, NEW s \in Seq(S), NEW t \in Seq(S)
  PROVE  /\ s \o t \in Seq(S)
         /\ Len(s \o t) = Len(s) + Len(t)
         /\ \A i \in 1..Len(s) : (s \o t)[i] = s[i]
         /\ \A i \in 1..Len(t) : (s \o t)[Len(s) + i] = t[i]
         /\ s = <<>> => s \o t = t
  BY LenProperties, ConcatProperties, ConcatEmptySeq

-----------------------------------------------------------------------------
(* The invariant behind the types.                                          *)

\* A client waits for a call that has not returned.
Busy == client \in {"header", "body", "big"}

CallIsOpen == Busy => Len(returned) < Len(calls)

\* What the server receives are requests, each of a call.
IsRequest(m) == m.call # 0

RequestsArrive ==
    /\ \A i \in DOMAIN wire["server"] : IsRequest(wire["server"][i].msg)
    /\ \A i \in DOMAIN inbox["server"] : IsRequest(inbox["server"][i].msg)

ServerKnowsCall ==
    server \in {"process", "init", "reply", "replyBig"} => IsRequest(buffer["server"])

\* A server that has not read a request has answered none, and no more than one
\* is on its way to it.
Untouched ==
    /\ server \in {"wait", "body", "dead"}
    /\ server # "dead" =>
        /\ Len(calls) <= 1
        /\ client \in {"ready", "header", "gone"}
        /\ client = "ready" => calls = <<>>
        /\ calls = <<>> => wire["server"] = <<>> /\ inbox["server"] = <<>>
        /\ wire["client"] = <<>> /\ inbox["client"] = <<>>
        /\ server = "wait" =>
            /\ Len(wire["server"]) + Len(inbox["server"]) <= BodyCells + 1
            /\ inbox["server"] # <<>> => inbox["server"][1].n = BodyCells
            /\ inbox["server"] = <<>> /\ wire["server"] # <<>> =>
                   wire["server"][1].n = BodyCells

FirstRequest == IsRequest(buffer["server"]) \/ Untouched

TypeInv == TypeOK /\ CallIsOpen /\ RequestsArrive /\ ServerKnowsCall /\ FirstRequest

-----------------------------------------------------------------------------
(* Types.                                                                   *)

\* What TypeOK says of one end of the connection, cell by cell.
LEMMA StreamTypes ==
  ASSUME TypeOK, NEW e \in Ends
  PROVE  /\ wire[e] \in Seq(Cell) /\ inbox[e] \in Seq(Cell)
         /\ Len(wire[e]) \in Nat /\ Len(inbox[e]) \in Nat
         /\ wire[e] = <<>> <=> Len(wire[e]) = 0
         /\ inbox[e] = <<>> <=> Len(inbox[e]) = 0
         /\ DOMAIN wire[e] = 1..Len(wire[e])
         /\ DOMAIN inbox[e] = 1..Len(inbox[e])
         /\ \A i \in 1..Len(wire[e]) : wire[e][i] \in Cell
         /\ \A i \in 1..Len(inbox[e]) : inbox[e][i] \in Cell
         /\ buffer[e] \in Message /\ want[e] \in Nat /\ len[e] \in Nat
  <1>1. wire[e] \in Seq(Cell) /\ inbox[e] \in Seq(Cell)
    BY DEF TypeOK
  <1>2. buffer[e] \in Message /\ want[e] \in Nat /\ len[e] \in Nat
    BY DEF TypeOK
  <1> QED BY <1>1, <1>2, EmptyOrNot

\* At the start nothing is called, nothing is on its way and the server's buffer
\* is empty.
LEMMA InitTypes == Init => TypeInv
  <1> SUFFICES ASSUME Init PROVE TypeInv
    OBVIOUS
  <1>1. Request(0, "init") \in Message
    BY SessionAssumption DEF Request, Message, Kinds, Blank
  <1>2. <<>> \in Seq(Cell) /\ <<>> \in Seq(Kinds) /\ <<>> \in Seq(Result)
        /\ <<>> \in Seq(1..MaxCalls)
    OBVIOUS
  <1>3. TypeOK
    <2>1. /\ wire \in [Ends -> Seq(Cell)] /\ inbox \in [Ends -> Seq(Cell)]
          /\ buffer \in [Ends -> Message]
      BY <1>1, <1>2, Zenon DEF Init
    <2>2. calls \in Seq(Kinds) /\ returned \in Seq(Result) /\ log \in Seq(1..MaxCalls)
      BY <1>2, Zenon DEF Init
    <2>3. Len(calls) <= MaxCalls /\ Len(returned) <= Len(calls)
      BY SessionAssumption DEF Init
    <2> QED BY <2>1, <2>2, <2>3 DEF Init, TypeOK, ClientLabels, ServerLabels
  <1>4. /\ wire["server"] = <<>> /\ inbox["server"] = <<>>
        /\ wire["client"] = <<>> /\ inbox["client"] = <<>>
    BY DEF Init, Ends
  <1>5. RequestsArrive
    BY <1>4 DEF RequestsArrive
  <1>6. Untouched
    BY <1>4, SessionAssumption DEF Untouched, Init
  <1> QED BY <1>3, <1>5, <1>6 DEF TypeInv, CallIsOpen, Busy, ServerKnowsCall,
             FirstRequest, Init

\* A call may be made while MaxCalls allows it.
LEMMA CallTypes ==
  ASSUME TypeInv, NEW k \in Kinds, interCommunicate(k)
  PROVE  TypeInv'
  <1> DEFINE c == Len(calls) + 1
             m == Request(c, k)
  <1> USE DEF TypeInv
  <1>1. calls \in Seq(Kinds) /\ Len(calls) \in Nat /\ Len(calls) < MaxCalls
    BY DEF TypeOK, interCommunicate
  <1>2. /\ calls' = Append(calls, k) /\ calls' \in Seq(Kinds)
        /\ Len(calls') = c /\ c \in 1..MaxCalls
    BY <1>1, SessionAssumption, AppendProperties DEF interCommunicate
  <1>3. m \in Message /\ IsRequest(m)
    BY <1>2, SessionAssumption DEF Request, Message, Blank, IsRequest
  <1>4. /\ client = "ready" /\ client' = "header"
        /\ buffer' = [buffer EXCEPT !["client"] = m]
        /\ UNCHANGED <<returned, log, server, inbox, want, len, started, dmsUp, node>>
    BY DEF interCommunicate, dms
  <1>5. \/ UNCHANGED wire
        \/ /\ server # "dead"
           /\ wire' = [wire EXCEPT !["server"] = wire["server"] \o MessageCells(m)]
    BY DEF interCommunicate, Write, WriteTimesOut
  <1>6. /\ wire["server"] \in Seq(Cell) /\ MessageCells(m) \in Seq(Cell)
        /\ wire["server"] \o MessageCells(m) \in Seq(Cell)
        /\ Len(wire["server"] \o MessageCells(m)) = Len(wire["server"]) + Len(MessageCells(m))
        /\ DOMAIN (wire["server"] \o MessageCells(m)) = 1..Len(wire["server"] \o MessageCells(m))
    <2>1. wire["server"] \in Seq(Cell) /\ MessageCells(m) \in Seq(Cell)
      BY <1>3, MessageParts, StreamTypes DEF Ends
    <2> QED BY <2>1, Writing, EmptyOrNot
  <1> HIDE DEF m
  <1>7. TypeOK'
    <2>1. wire' \in [Ends -> Seq(Cell)]
      BY <1>5, <1>6 DEF TypeOK
    <2>2. buffer' \in [Ends -> Message]
      BY <1>3, <1>4 DEF TypeOK
    <2>3. returned' \in Seq(Result) /\ Len(returned') <= Len(calls')
      BY <1>1, <1>2, <1>4 DEF TypeOK
    <2>4. calls' \in Seq(Kinds) /\ Len(calls') <= MaxCalls
      BY <1>2
    <2> QED BY <1>4, <2>1, <2>2, <2>3, <2>4 DEF TypeOK, ClientLabels
  <1>8. CallIsOpen'
    <2>1. Len(returned) \in Nat /\ Len(returned) <= Len(calls)
      BY DEF TypeOK
    <2> QED BY <1>1, <1>2, <1>4, <2>1 DEF CallIsOpen
  <1>9. RequestsArrive'
    <2>1. \A i \in DOMAIN wire'["server"] : IsRequest(wire'["server"][i].msg)
      <3>1. CASE UNCHANGED wire
        BY <3>1 DEF RequestsArrive
      <3>2. CASE wire' = [wire EXCEPT !["server"] = wire["server"] \o MessageCells(m)]
        <4>1. \A i \in 1..Len(MessageCells(m)) : MessageCells(m)[i].msg = m
          BY <1>3, MessageParts, SessionAssumption
        <4>2. wire'["server"] = wire["server"] \o MessageCells(m)
          BY <3>2 DEF TypeOK, Ends
        <4>3. \A i \in 1..(Len(wire["server"]) + Len(MessageCells(m))) :
                 (wire["server"] \o MessageCells(m))[i] =
                     IF i <= Len(wire["server"]) THEN wire["server"][i]
                     ELSE MessageCells(m)[i - Len(wire["server"])]
          BY <1>6, ConcatProperties
        <4>4. Len(wire["server"]) \in Nat /\ Len(MessageCells(m)) \in Nat
              /\ DOMAIN wire["server"] = 1..Len(wire["server"])
          BY <1>6, EmptyOrNot
        <4>5. ASSUME NEW i \in DOMAIN wire'["server"] PROVE IsRequest(wire'["server"][i].msg)
          <5>1. i \in 1..(Len(wire["server"]) + Len(MessageCells(m)))
            BY <1>6, <4>2
          <5>2. CASE i <= Len(wire["server"])
            BY <4>2, <4>3, <4>4, <5>1, <5>2 DEF RequestsArrive
          <5>3. CASE i > Len(wire["server"])
            <6>1. i - Len(wire["server"]) \in 1..Len(MessageCells(m))
              BY <4>4, <5>1, <5>3
            <6> QED BY <1>3, <4>1, <4>2, <4>3, <4>4, <5>1, <5>3, <6>1
          <5> QED BY <4>4, <5>1, <5>2, <5>3
        <4> QED BY <4>5
      <3> QED BY <1>5, <3>1, <3>2
    <2> QED BY <1>4, <2>1 DEF RequestsArrive
  <1>10. ServerKnowsCall'
    BY <1>4 DEF ServerKnowsCall, TypeOK, Ends
  <1>11. FirstRequest'
    <2>1. buffer'["server"] = buffer["server"]
      BY <1>4 DEF TypeOK, Ends
    <2>2. ASSUME Untouched PROVE Untouched'
      <3>1. CASE server = "dead"
        BY <1>4, <3>1 DEF Untouched
      <3>2. CASE server # "dead"
        <4>1. /\ calls = <<>> /\ wire["server"] = <<>> /\ inbox["server"] = <<>>
              /\ wire["client"] = <<>> /\ inbox["client"] = <<>>
          BY <1>4, <2>2, <3>2 DEF Untouched
        <4>2. /\ wire'["server"] \in {<<>>, MessageCells(m)}
              /\ wire'["client"] = <<>>
          BY <1>5, <1>6, <3>2, <4>1, Writing DEF TypeOK, Ends
        <4>3. Len(calls') = 1 /\ calls' # <<>>
          BY <1>2, <4>1
        <4>4. wire'["server"] # <<>> =>
                /\ Len(wire'["server"]) = BodyCells + 1
                /\ wire'["server"][1].n = BodyCells
          BY <1>3, <4>2, MessageParts
        <4>5. inbox' = inbox /\ Len(inbox["server"]) = 0
          BY <1>4, <4>1
        <4> QED BY <1>4, <2>2, <3>2, <4>1, <4>2, <4>3, <4>4, <4>5, SessionAssumption DEF Untouched
      <3> QED BY <3>1, <3>2
    <2> QED BY <2>1, <2>2 DEF FirstRequest
  <1> QED BY <1>7, <1>8, <1>9, <1>10, <1>11 

\* One read of a stream.
LEMMA ReadTypes ==
  ASSUME TypeOK, NEW e \in Ends, ReadSome(e)
  PROVE  /\ Len(inbox[e]) >= 1
         /\ Head(inbox[e]) = inbox[e][1] /\ inbox[e][1] \in Cell
         /\ Head(inbox[e]).msg \in Message
         /\ Taken(e) \in 0..Len(inbox[e])
         /\ inbox' \in [Ends -> Seq(Cell)]
         /\ len' \in [Ends -> Nat]
         /\ Len(inbox'[e]) = Len(inbox[e]) - Taken(e)
         /\ \A i \in 1..(Len(inbox[e]) - Taken(e)) : inbox'[e][i] = inbox[e][Taken(e) + i]
         /\ \A f \in Ends : f # e => inbox'[f] = inbox[f] /\ len'[f] = len[f]
         /\ len'[e] = IF len[e] + Taken(e) >= want[e] THEN 0 ELSE len[e] + Taken(e)
  <1>1. /\ inbox[e] \in Seq(Cell) /\ Len(inbox[e]) >= 1 /\ Len(inbox[e]) \in Nat
        /\ want[e] \in Nat /\ len[e] \in Nat
    BY StreamTypes DEF ReadSome
  <1>2. Taken(e) \in 0..Len(inbox[e])
    BY <1>1 DEF Taken, Least
  <1>3. Head(inbox[e]) = inbox[e][1] /\ inbox[e][1] \in Cell
    BY <1>1, ReadingOne
  <1>4. Head(inbox[e]).msg \in Message
    BY <1>3 DEF Cell
  <1> DEFINE t == SubSeq(inbox[e], Taken(e) + 1, Len(inbox[e]))
             l == IF len[e] + Taken(e) >= want[e] THEN 0 ELSE len[e] + Taken(e)
  <1>5. inbox' = [inbox EXCEPT ![e] = t]
    BY DEF ReadSome
  <1>6. len' = [len EXCEPT ![e] = l]
    BY DEF ReadSome
  <1>7. l \in Nat
    BY <1>1, <1>2
  <1>8. /\ t \in Seq(Cell)
        /\ Len(t) = Len(inbox[e]) - Taken(e)
        /\ \A i \in 1..(Len(inbox[e]) - Taken(e)) : t[i] = inbox[e][Taken(e) + i]
    BY <1>1, <1>2, Reading
  <1> HIDE DEF t, l
  <1>9. /\ inbox' \in [Ends -> Seq(Cell)] /\ inbox'[e] = t
        /\ \A f \in Ends : f # e => inbox'[f] = inbox[f]
    BY <1>5, <1>8 DEF TypeOK
  <1>10. /\ len' \in [Ends -> Nat] /\ len'[e] = l
         /\ \A f \in Ends : f # e => len'[f] = len[f]
    BY <1>6, <1>7 DEF TypeOK
  <1> QED BY <1>1, <1>2, <1>3, <1>4, <1>8, <1>9, <1>10 DEF l

\* The length word is read.
LEMMA LengthTypes ==
  ASSUME TypeOK, NEW e \in Ends, Len(inbox[e]) > 1,
         inbox' = [inbox EXCEPT ![e] = Tail(@)]
  PROVE  /\ inbox' \in [Ends -> Seq(Cell)]
         /\ Head(inbox[e]) = inbox[e][1] /\ Head(inbox[e]).n \in Nat
         /\ Len(inbox'[e]) = Len(inbox[e]) - 1
         /\ \A i \in 1..(Len(inbox[e]) - 1) : inbox'[e][i] = inbox[e][i + 1]
         /\ \A f \in Ends : f # e => inbox'[f] = inbox[f]
  <1>1. inbox[e] \in Seq(Cell) /\ Len(inbox[e]) >= 1 /\ Len(inbox[e]) \in Nat
    BY StreamTypes
  <1>2. /\ Head(inbox[e]) = inbox[e][1] /\ inbox[e][1] \in Cell
        /\ Tail(inbox[e]) \in Seq(Cell)
        /\ Len(Tail(inbox[e])) = Len(inbox[e]) - 1
        /\ \A i \in 1..(Len(inbox[e]) - 1) : Tail(inbox[e])[i] = inbox[e][i + 1]
    BY <1>1, ReadingOne
  <1>3. /\ inbox' \in [Ends -> Seq(Cell)] /\ inbox'[e] = Tail(inbox[e])
        /\ \A f \in Ends : f # e => inbox'[f] = inbox[f]
    BY <1>2 DEF TypeOK
  <1> QED BY <1>2, <1>3 DEF Cell

\* All that has arrived is thrown away.
LEMMA CloseTypes ==
  ASSUME TypeOK, NEW e \in Ends, inbox' = [inbox EXCEPT ![e] = <<>>]
  PROVE  /\ inbox' \in [Ends -> Seq(Cell)] /\ inbox'[e] = <<>>
         /\ \A f \in Ends : f # e => inbox'[f] = inbox[f]
  <1>1. <<>> \in Seq(Cell)
    OBVIOUS
  <1> QED BY <1>1 DEF TypeOK

\* A result is handed to the application.
LEMMA ResultTypes ==
  ASSUME TypeOK, CallIsOpen, Busy, NEW r \in Result, ReturnResult(r), UNCHANGED calls
  PROVE  /\ returned' \in Seq(Result) /\ Len(returned') <= Len(calls')
         /\ client' \in ClientLabels /\ CallIsOpen'
  <1>1. /\ returned \in Seq(Result) /\ Len(returned) \in Nat /\ Len(calls) \in Nat
        /\ Len(returned) < Len(calls)
    BY DEF TypeOK, CallIsOpen
  <1>2. /\ returned' = Append(returned, r) /\ returned' \in Seq(Result)
        /\ Len(returned') = Len(returned) + 1
    BY <1>1, AppendProperties DEF ReturnResult
  <1>3. client' = "ready"
    BY DEF ReturnResult
  <1> QED BY <1>1, <1>2, <1>3 DEF CallIsOpen, Busy, ClientLabels

\* A failure and an answer are both results.
LEMMA Results ==
  /\ Failure \in Result
  /\ \A m \in Message, n \in 0..MaxCalls : ResultOf(m, n) \in Result
  BY SessionAssumption DEF Failure, Result, ResultOf, Error, Blank, Message

\* ExtractMsg returns a result, or waits for the string of a listing.
LEMMA ExtractedTypes ==
  ASSUME TypeOK, CallIsOpen, Busy, NEW m \in Message, Extracted(m), UNCHANGED calls
  PROVE  /\ returned' \in Seq(Result) /\ Len(returned') <= Len(calls')
         /\ want' \in [Ends -> Nat]
         /\ client' \in ClientLabels /\ CallIsOpen'
  <1>1. CASE m.kind = "list" /\ m.big
    <2>1. /\ client' = "big" /\ want' = [want EXCEPT !["client"] = BigCells]
          /\ UNCHANGED returned
      BY <1>1 DEF Extracted
    <2> QED BY <2>1, SessionAssumption DEF TypeOK, CallIsOpen, Busy, ClientLabels
  <1>2. CASE ~(m.kind = "list" /\ m.big)
    <2> DEFINE r == IF m.kind = "list" THEN Failure ELSE ResultOf(m, 0)
    <2>1. ReturnResult(r) /\ UNCHANGED want
      BY <1>2 DEF Extracted
    <2>2. r \in Result
      BY Results, SessionAssumption
    <2> HIDE DEF r
    <2> QED BY <2>1, <2>2, ResultTypes DEF TypeOK
  <1> QED BY <1>1, <1>2

\* A step of the client that leaves the server's side as it is.
LEMMA ClientLeavesServer ==
  ASSUME TypeInv, server = "dead" \/ IsRequest(buffer["server"]),
         UNCHANGED <<wire, server>>, buffer'["server"] = buffer["server"],
         inbox'["server"] = inbox["server"]
  PROVE  RequestsArrive' /\ ServerKnowsCall' /\ FirstRequest'
  BY DEF TypeInv, RequestsArrive, ServerKnowsCall, FirstRequest, Untouched

\* What a client reads was sent by a server that had read a request.
LEMMA ClientReadsReply ==
  ASSUME TypeInv, inbox["client"] # <<>>
  PROVE  server = "dead" \/ IsRequest(buffer["server"])
  BY DEF TypeInv, FirstRequest, Untouched

\* interCommunicate reads a length word, or fails to.
LEMMA ClientLengthTypes ==
  ASSUME TypeInv, ClientReceivesLength
  PROVE  TypeInv'
  <1>1. /\ client = "header" /\ Busy
        /\ UNCHANGED <<calls, log, server, wire, buffer, len, started, dmsUp, node>>
    BY DEF ClientReceivesLength, Busy, dms
  <1>2. TypeOK /\ CallIsOpen /\ "client" \in Ends /\ "server" \in Ends
    BY DEF TypeInv, Ends
  <1>3. /\ inbox' \in [Ends -> Seq(Cell)] /\ inbox'["server"] = inbox["server"]
        /\ want' \in [Ends -> Nat]
        /\ returned' \in Seq(Result) /\ Len(returned') <= Len(calls')
        /\ client' \in ClientLabels /\ CallIsOpen'
        /\ server = "dead" \/ IsRequest(buffer["server"])
    <2>1. CASE /\ AtEnd("client") \/ OnlyLength("client")
               /\ inbox' = [inbox EXCEPT !["client"] = <<>>]
               /\ ReturnResult(Failure)
               /\ UNCHANGED want
      <3>1. inbox' \in [Ends -> Seq(Cell)] /\ inbox'["server"] = inbox["server"]
        BY <1>2, <2>1, CloseTypes
      <3>2. server = "dead" \/ inbox["client"] # <<>>
        BY <2>1 DEF AtEnd, OnlyLength
      <3>3. /\ returned' \in Seq(Result) /\ Len(returned') <= Len(calls')
            /\ client' \in ClientLabels /\ CallIsOpen'
        BY <1>1, <1>2, <2>1, Results, ResultTypes
      <3> QED BY <1>2, <2>1, <3>1, <3>2, <3>3, ClientReadsReply DEF TypeOK
    <2>2. CASE /\ Last(calls) # "list" /\ BadLength("client")
               /\ inbox' = [inbox EXCEPT !["client"] = Tail(@)]
               /\ Extracted(buffer["client"])
      <3>1. Len(inbox["client"]) > 1 /\ inbox["client"] # <<>>
        BY <1>2, <2>2 DEF BadLength
      <3>2. inbox' \in [Ends -> Seq(Cell)] /\ inbox'["server"] = inbox["server"]
        BY <1>2, <2>2, <3>1, LengthTypes
      <3>3. buffer["client"] \in Message
        BY <1>2, StreamTypes
      <3> QED BY <1>1, <1>2, <2>2, <3>1, <3>2, <3>3, ExtractedTypes, ClientReadsReply
    <2>3. CASE /\ GetRecvLengthForBigMsg("client") \/ GetRecvLength("client")
               /\ client' = "body"
               /\ UNCHANGED returned
      <3>1. /\ Len(inbox["client"]) > 1 /\ inbox["client"] # <<>>
            /\ want' = [want EXCEPT !["client"] = Head(inbox["client"]).n]
            /\ inbox' = [inbox EXCEPT !["client"] = Tail(@)]
        BY <2>3 DEF GetRecvLength, GetRecvLengthForBigMsg
      <3>2. /\ inbox' \in [Ends -> Seq(Cell)] /\ inbox'["server"] = inbox["server"]
            /\ Head(inbox["client"]).n \in Nat
        BY <1>2, <3>1, LengthTypes
      <3>3. want' \in [Ends -> Nat]
        BY <1>2, <3>1, <3>2 DEF TypeOK
      <3> QED BY <1>1, <1>2, <2>3, <3>1, <3>2, <3>3, ClientReadsReply
              DEF TypeOK, CallIsOpen, Busy, ClientLabels
    <2> QED BY <2>1, <2>2, <2>3 DEF ClientReceivesLength
  <1>4. TypeOK'
    BY <1>1, <1>2, <1>3 DEF TypeOK
  <1>5. RequestsArrive' /\ ServerKnowsCall' /\ FirstRequest'
    BY <1>1, <1>3, ClientLeavesServer
  <1> QED BY <1>3, <1>4, <1>5 DEF TypeInv

\* It reads the body that the length word announced.
LEMMA ClientBodyTypes ==
  ASSUME TypeInv, ClientReceivesBody
  PROVE  TypeInv'
  <1> DEFINE m == Head(inbox["client"]).msg
  <1>1. /\ client = "body" /\ Busy /\ ReadSome("client")
        /\ buffer' = [buffer EXCEPT !["client"] = m]
        /\ IF Received("client") THEN Extracted(m)
                                 ELSE UNCHANGED <<client, returned, want>>
        /\ UNCHANGED <<calls, log, server, wire, started, dmsUp, node>>
    BY DEF ClientReceivesBody, Busy, dms
  <1>2. TypeOK /\ CallIsOpen /\ "client" \in Ends /\ "server" \in Ends
    BY DEF TypeInv, Ends
  <1>3. /\ m \in Message /\ inbox["client"] # <<>>
        /\ inbox' \in [Ends -> Seq(Cell)] /\ inbox'["server"] = inbox["server"]
        /\ len' \in [Ends -> Nat]
    <2>1. inbox["client"] # <<>>
      BY <1>1 DEF ReadSome
    <2> QED BY <1>1, <1>2, <2>1, ReadTypes
  <1> HIDE DEF m
  <1>4. buffer' \in [Ends -> Message] /\ buffer'["server"] = buffer["server"]
    BY <1>1, <1>2, <1>3 DEF TypeOK
  <1>5. /\ returned' \in Seq(Result) /\ Len(returned') <= Len(calls')
        /\ want' \in [Ends -> Nat]
        /\ client' \in ClientLabels /\ CallIsOpen'
    <2>1. CASE Received("client")
      BY <1>1, <1>2, <1>3, <2>1, ExtractedTypes
    <2>2. CASE ~Received("client")
      BY <1>1, <1>2, <2>2 DEF TypeOK, CallIsOpen, Busy
    <2> QED BY <2>1, <2>2
  <1>6. TypeOK'
    BY <1>1, <1>2, <1>3, <1>4, <1>5 DEF TypeOK
  <1>7. RequestsArrive' /\ ServerKnowsCall' /\ FirstRequest'
    BY <1>1, <1>3, <1>4, ClientLeavesServer, ClientReadsReply
  <1> QED BY <1>5, <1>6, <1>7 DEF TypeInv

\* It reads the string of a listing.
LEMMA ClientBigTypes ==
  ASSUME TypeInv, ClientReceivesBig
  PROVE  TypeInv'
  <1> DEFINE r == ResultOf(buffer["client"], Head(inbox["client"]).msg.call)
  <1>1. /\ client = "big" /\ Busy /\ ReadSome("client")
        /\ IF Received("client") THEN ReturnResult(r)
                                 ELSE UNCHANGED <<client, returned>>
        /\ UNCHANGED <<calls, log, server, wire, buffer, want, started, dmsUp, node>>
    BY DEF ClientReceivesBig, Busy, dms
  <1>2. TypeOK /\ CallIsOpen /\ "client" \in Ends /\ "server" \in Ends
    BY DEF TypeInv, Ends
  <1>3. /\ Head(inbox["client"]).msg \in Message /\ inbox["client"] # <<>>
        /\ inbox' \in [Ends -> Seq(Cell)] /\ inbox'["server"] = inbox["server"]
        /\ len' \in [Ends -> Nat]
    <2>1. inbox["client"] # <<>>
      BY <1>1 DEF ReadSome
    <2> QED BY <1>1, <1>2, <2>1, ReadTypes
  <1>4. r \in Result
    <2>1. buffer["client"] \in Message
      BY <1>2, StreamTypes
    <2>2. Head(inbox["client"]).msg.call \in 0..MaxCalls
      BY <1>3 DEF Message
    <2> QED BY <2>1, <2>2, Results
  <1> HIDE DEF r
  <1>5. /\ returned' \in Seq(Result) /\ Len(returned') <= Len(calls')
        /\ client' \in ClientLabels /\ CallIsOpen'
    <2>1. CASE Received("client")
      BY <1>1, <1>2, <1>4, <2>1, ResultTypes
    <2>2. CASE ~Received("client")
      BY <1>1, <1>2, <2>2 DEF TypeOK, CallIsOpen, Busy
    <2> QED BY <2>1, <2>2
  <1>6. TypeOK'
    BY <1>1, <1>2, <1>3, <1>5 DEF TypeOK
  <1>7. RequestsArrive' /\ ServerKnowsCall' /\ FirstRequest'
    BY <1>1, <1>3, ClientLeavesServer, ClientReadsReply
  <1> QED BY <1>5, <1>6, <1>7 DEF TypeInv

\* The application ends.
LEMMA ClientGoesTypes ==
  ASSUME TypeInv, ClientGoes
  PROVE  TypeInv'
  <1>1. /\ client' = "gone"
        /\ UNCHANGED <<calls, returned, log, server, wire, inbox, buffer, want,
                       len, started, dmsUp, node>>
    BY DEF ClientGoes, dms, streams
  <1>2. TypeOK' /\ CallIsOpen'
    BY <1>1 DEF TypeInv, TypeOK, CallIsOpen, Busy, ClientLabels
  <1> QED BY <1>1, <1>2 DEF TypeInv, RequestsArrive, ServerKnowsCall, FirstRequest, Untouched

\* A step of a server that has read a request, or that ends.
LEMMA ServerLeavesClient ==
  ASSUME TypeInv, UNCHANGED <<calls, returned, client>>, TypeOK',
         \/ IsRequest(buffer'["server"])
         \/ server' = "dead",
         \A i \in DOMAIN wire'["server"] : IsRequest(wire'["server"][i].msg),
         \A i \in DOMAIN inbox'["server"] : IsRequest(inbox'["server"][i].msg)
  PROVE  TypeInv'
  BY DEF TypeInv, CallIsOpen, Busy, RequestsArrive, ServerKnowsCall, FirstRequest, Untouched

\* The server reads a length word.  What it makes of the buffer it starts with is
\* never executed: before the first request it finds a whole one or waits.
LEMMA ServerLengthTypes ==
  ASSUME TypeInv, ServerReceivesLength
  PROVE  TypeInv'
  <1>1. /\ server = "wait"
        /\ UNCHANGED <<calls, returned, log, client, wire, buffer, len, started, dmsUp, node>>
    BY DEF ServerReceivesLength, dms
  <1>2. TypeOK /\ "client" \in Ends /\ "server" \in Ends
    BY DEF TypeInv, Ends
  <1>3. /\ inbox["server"] \in Seq(Cell) /\ Len(inbox["server"]) \in Nat
        /\ Len(wire["server"]) \in Nat
        /\ DOMAIN inbox["server"] = 1..Len(inbox["server"])
        /\ DOMAIN wire["server"] = 1..Len(wire["server"])
    BY <1>2, StreamTypes
  <1>4. \A i \in DOMAIN wire'["server"] : IsRequest(wire'["server"][i].msg)
    BY <1>1 DEF TypeInv, RequestsArrive
  <1>5. CASE /\ AtEnd("server") \/ OnlyLength("server")
             /\ inbox' = [inbox EXCEPT !["server"] = <<>>]
             /\ server' = "dead"
             /\ UNCHANGED want
    <2>1. inbox' \in [Ends -> Seq(Cell)] /\ inbox'["server"] = <<>>
      BY <1>2, <1>5, CloseTypes
    <2>2. TypeOK'
      BY <1>1, <1>2, <1>5, <2>1 DEF TypeOK, ServerLabels
    <2> QED BY <1>1, <1>4, <1>5, <2>1, <2>2, ServerLeavesClient
  <1>6. ASSUME Len(inbox["server"]) > 1, inbox' = [inbox EXCEPT !["server"] = Tail(@)]
        PROVE  /\ inbox' \in [Ends -> Seq(Cell)]
               /\ Head(inbox["server"]) = inbox["server"][1]
               /\ Head(inbox["server"]).n \in Nat
               /\ Len(inbox'["server"]) = Len(inbox["server"]) - 1
               /\ \A i \in DOMAIN inbox'["server"] : IsRequest(inbox'["server"][i].msg)
               /\ inbox'["client"] = inbox["client"]
    <2>1. /\ inbox' \in [Ends -> Seq(Cell)]
          /\ Head(inbox["server"]) = inbox["server"][1]
          /\ Head(inbox["server"]).n \in Nat
          /\ Len(inbox'["server"]) = Len(inbox["server"]) - 1
          /\ \A i \in 1..(Len(inbox["server"]) - 1) :
                inbox'["server"][i] = inbox["server"][i + 1]
          /\ inbox'["client"] = inbox["client"]
      BY <1>2, <1>6, LengthTypes
    <2>2. DOMAIN inbox'["server"] = 1..(Len(inbox["server"]) - 1)
      <3>1. inbox'["server"] \in Seq(Cell)
        BY <1>2, <2>1
      <3> QED BY <2>1, <3>1, EmptyOrNot
    <2>3. \A i \in 1..(Len(inbox["server"]) - 1) : IsRequest(inbox["server"][i + 1].msg)
      BY <1>3 DEF TypeInv, RequestsArrive
    <2> QED BY <2>1, <2>2, <2>3
  <1>7. CASE /\ BadLength("server")
             /\ inbox' = [inbox EXCEPT !["server"] = Tail(@)]
             /\ server' = "process"
             /\ UNCHANGED want
    <2>1. Len(inbox["server"]) > 1
      BY <1>7 DEF BadLength
    <2>2. TypeOK'
      BY <1>1, <1>2, <1>6, <1>7, <2>1 DEF TypeOK, ServerLabels
    <2>3. IsRequest(buffer["server"])
      <3>1. inbox["server"] # <<>> /\ Len(Tail(inbox["server"])) = Len(inbox["server"]) - 1
            /\ Head(inbox["server"]) = inbox["server"][1]
        BY <1>3, <2>1, ReadingOne
      <3>2. Len(inbox["server"]) - 1 > inbox["server"][1].n
        BY <1>7, <3>1 DEF BadLength
      <3>3. ASSUME Untouched PROVE FALSE
        <4>1. /\ inbox["server"][1].n = BodyCells
              /\ Len(wire["server"]) + Len(inbox["server"]) <= BodyCells + 1
          BY <1>1, <3>1, <3>3 DEF Untouched
        <4>2. Len(inbox["server"]) - 1 > BodyCells
          BY <3>2, <4>1
        <4>3. Len(wire["server"]) + Len(inbox["server"]) <= BodyCells + 1
          BY <4>1
        <4>4. /\ Len(wire["server"]) \in Nat /\ Len(inbox["server"]) \in Nat
              /\ BodyCells \in Nat
          BY <1>3, SessionAssumption
        <4> DEFINE w == Len(wire["server"])
                   a == Len(inbox["server"])
        <4> HIDE DEF w, a
        <4>5. w \in Nat /\ a \in Nat /\ a - 1 > BodyCells /\ w + a <= BodyCells + 1
          BY <4>2, <4>3, <4>4 DEF w, a
        <4> QED BY <4>4, <4>5
      <3> QED BY <3>3 DEF TypeInv, FirstRequest
    <2> QED BY <1>1, <1>4, <1>6, <1>7, <2>1, <2>2, <2>3, ServerLeavesClient
  <1>8. CASE GetRecvLength("server") /\ server' = "body"
    <2>1. /\ Len(inbox["server"]) > 1
          /\ want' = [want EXCEPT !["server"] = Head(inbox["server"]).n]
          /\ inbox' = [inbox EXCEPT !["server"] = Tail(@)]
      BY <1>8 DEF GetRecvLength
    <2>2. TypeOK'
      <3>1. want' \in [Ends -> Nat]
        BY <1>2, <1>6, <2>1 DEF TypeOK
      <3> QED BY <1>1, <1>2, <1>6, <1>8, <2>1, <3>1 DEF TypeOK, ServerLabels
    <2>3. RequestsArrive'
      BY <1>4, <1>6, <2>1 DEF RequestsArrive
    <2>4. FirstRequest'
      <3>1. ASSUME Untouched PROVE Untouched'
        <4>1. inbox'["client"] = inbox["client"]
          BY <1>6, <2>1
        <4>2. calls # <<>>
          <5>1. inbox["server"] # <<>>
            BY <1>3, <2>1, ReadingOne
          <5> QED BY <1>1, <3>1, <5>1 DEF Untouched
        <4> QED BY <1>1, <1>8, <3>1, <4>1, <4>2 DEF Untouched
      <3> QED BY <1>1, <3>1 DEF TypeInv, FirstRequest
    <2> QED BY <1>1, <1>8, <2>2, <2>3, <2>4
            DEF TypeInv, CallIsOpen, Busy, ServerKnowsCall
  <1> QED BY <1>5, <1>7, <1>8 DEF ServerReceivesLength

\* It reads the body of a request.
LEMMA ServerBodyTypes ==
  ASSUME TypeInv, ServerReceivesBody
  PROVE  TypeInv'
  <1> DEFINE m == Head(inbox["server"]).msg
  <1>1. /\ ReadSome("server")
        /\ buffer' = [buffer EXCEPT !["server"] = m]
        /\ server' \in {"body", "process"}
        /\ UNCHANGED <<calls, returned, log, client, wire, want, started, dmsUp, node>>
    BY DEF ServerReceivesBody, dms
  <1>2. TypeOK /\ "client" \in Ends /\ "server" \in Ends
    BY DEF TypeInv, Ends
  <1>3. /\ m \in Message /\ Len(inbox["server"]) >= 1 /\ m = inbox["server"][1].msg
        /\ inbox' \in [Ends -> Seq(Cell)] /\ len' \in [Ends -> Nat]
        /\ Taken("server") \in 0..Len(inbox["server"])
        /\ Len(inbox'["server"]) = Len(inbox["server"]) - Taken("server")
        /\ \A i \in 1..(Len(inbox["server"]) - Taken("server")) :
              inbox'["server"][i] = inbox["server"][Taken("server") + i]
    BY <1>1, <1>2, ReadTypes
  <1>4. \A i \in 1..Len(inbox["server"]) : IsRequest(inbox["server"][i].msg)
    BY <1>2, StreamTypes DEF TypeInv, RequestsArrive
  <1>5. Len(inbox["server"]) \in Nat
    BY <1>2, StreamTypes
  <1>6. IsRequest(m)
    BY <1>3, <1>4, <1>5
  <1> HIDE DEF m
  <1>7. buffer' \in [Ends -> Message] /\ buffer'["server"] = m
    BY <1>1, <1>2, <1>3 DEF TypeOK
  <1>8. TypeOK'
    BY <1>1, <1>2, <1>3, <1>7 DEF TypeOK, ServerLabels
  <1>9. \A i \in DOMAIN inbox'["server"] : IsRequest(inbox'["server"][i].msg)
    <2>1. DOMAIN inbox'["server"] = 1..(Len(inbox["server"]) - Taken("server"))
      <3>1. inbox'["server"] \in Seq(Cell)
        BY <1>2, <1>3
      <3> QED BY <1>3, <3>1, EmptyOrNot
    <2>2. \A i \in 1..(Len(inbox["server"]) - Taken("server")) :
             Taken("server") + i \in 1..Len(inbox["server"])
      BY <1>3, <1>5
    <2> QED BY <1>3, <1>4, <2>1, <2>2
  <1>10. \A i \in DOMAIN wire'["server"] : IsRequest(wire'["server"][i].msg)
    BY <1>1 DEF TypeInv, RequestsArrive
  <1> QED BY <1>1, <1>6, <1>7, <1>8, <1>9, <1>10, ServerLeavesClient

\* What the handlers do to the table of clients and to the message.
LEMMA Handled ==
  ASSUME TypeOK, server = "process", ProcessMsg, IsRequest(buffer["server"])
  PROVE  /\ \E ok, big \in BOOLEAN, t \in 0..MaxCalls :
              buffer' = [buffer EXCEPT !["server"] =
                  [call |-> buffer["server"].call, kind |-> buffer["server"].kind,
                   ok |-> ok, text |-> t, big |-> big]]
         /\ buffer' \in [Ends -> Message]
         /\ buffer'["server"].call = buffer["server"].call
         /\ buffer'["server"].kind = buffer["server"].kind
         /\ node' \in {NoNode} \cup 0..MaxCalls
  <1> DEFINE m == buffer["server"]
             Set(ok, t, big) == [call |-> m.call, kind |-> m.kind,
                                 ok |-> ok, text |-> t, big |-> big]
  <1>1. m \in Message
    BY StreamTypes DEF Ends
  <1>2. MaxCalls \in Nat /\ NoNode \notin Nat
    BY SessionAssumption
  <1>3. /\ m.call \in 0..MaxCalls /\ m.ok \in BOOLEAN /\ m.big \in BOOLEAN
        /\ m.text \in 0..MaxCalls /\ m.kind \in Kinds
    BY <1>1 DEF Message
  <1>4. /\ \A v : [m EXCEPT !.ok = v] = Set(v, m.text, m.big)
        /\ \A v : [m EXCEPT !.big = v] = Set(m.ok, m.text, v)
        /\ \A v : [m EXCEPT !.text = v] = Set(m.ok, v, m.big)
    BY <1>1 DEF Message
  <1>5. \E ok, big \in BOOLEAN, t \in 0..MaxCalls :
           buffer' = [buffer EXCEPT !["server"] = Set(ok, t, big)]
    <2>1. CASE intersInit(m)
      <3>1. buffer' = [buffer EXCEPT !["server"] = Set(node = NoNode, m.text, m.big)]
        BY <1>4, <2>1 DEF intersInit
      <3>2. (node = NoNode) \in BOOLEAN
        OBVIOUS
      <3> HIDE DEF Set, m
      <3> QED BY <1>3, <3>1, <3>2
    <2>2. CASE CellOperation(m)
      <3>1. PICK ok \in BOOLEAN : buffer' = [buffer EXCEPT !["server"] = Set(ok, m.text, m.big)]
        BY <1>4, <2>2 DEF CellOperation
      <3> HIDE DEF Set, m
      <3> QED BY <1>3, <3>1
    <2>3. CASE Listing(m)
      <3>1. PICK big \in BOOLEAN : buffer' = [buffer EXCEPT !["server"] = Set(m.ok, m.text, big)]
        BY <1>4, <2>3 DEF Listing
      <3> HIDE DEF Set, m
      <3> QED BY <1>3, <3>1
    <2>4. CASE report(m)
      <3>1. CASE node = NoNode
        <4>1. buffer' = [buffer EXCEPT !["server"] = Set(FALSE, m.text, m.big)]
          BY <1>4, <2>4, <3>1 DEF report
        <4> HIDE DEF Set, m
        <4> QED BY <1>3, <4>1
      <3>2. CASE node # NoNode
        <4>1. buffer' = [buffer EXCEPT !["server"] = Set(m.ok, node, m.big)]
          BY <1>4, <2>4, <3>2 DEF report
        <4>2. node \in 0..MaxCalls
          BY <3>2 DEF TypeOK
        <4> HIDE DEF Set, m
        <4> QED BY <1>3, <4>1, <4>2
      <3> QED BY <3>1, <3>2
    <2>5. CASE intersExit(m)
      <3>1. buffer' = [buffer EXCEPT !["server"] = Set(node # NoNode, m.text, m.big)]
        BY <1>4, <2>5 DEF intersExit
      <3>2. (node # NoNode) \in BOOLEAN
        OBVIOUS
      <3> HIDE DEF Set, m
      <3> QED BY <1>3, <3>1, <3>2
    <2> QED BY <2>1, <2>2, <2>3, <2>4, <2>5 DEF ProcessMsg
  <1>6. \A ok, big \in BOOLEAN, t \in 0..MaxCalls : Set(ok, t, big) \in Message
    BY <1>3 DEF Message
  <1>7. /\ buffer' \in [Ends -> Message]
        /\ buffer'["server"].call = m.call /\ buffer'["server"].kind = m.kind
    <2>1. PICK ok \in BOOLEAN, big \in BOOLEAN, t \in 0..MaxCalls :
             buffer' = [buffer EXCEPT !["server"] = Set(ok, t, big)]
      BY <1>5
    <2>2. Set(ok, t, big) \in Message /\ Set(ok, t, big).call = m.call
          /\ Set(ok, t, big).kind = m.kind
      BY <1>6
    <2> HIDE DEF Set, m
    <2>3. buffer' \in [Ends -> Message] /\ buffer'["server"] = Set(ok, t, big)
      BY <2>1, <2>2 DEF TypeOK, Ends
    <2> QED BY <2>2, <2>3
  <1>8. node' \in {NoNode} \cup 0..MaxCalls
    <2>1. node \in {NoNode} \cup 0..MaxCalls /\ Blank \in 0..MaxCalls
      BY <1>2 DEF TypeOK, Blank
    <2> QED BY <1>3, <2>1 DEF ProcessMsg, intersInit, CellOperation, Listing, report,
            intersExit, hashSetReportMsg
  <1> QED BY <1>5, <1>7, <1>8

\* A handler executes the request, which is of a call.
LEMMA ProcessTypes ==
  ASSUME TypeInv, ProcessMsg
  PROVE  TypeInv'
  <1>1. /\ server = "process" /\ server' \in {"reply", "init"}
        /\ log' = Append(log, buffer["server"].call)
        /\ UNCHANGED <<calls, returned, client, wire, inbox, want, len, started, dmsUp>>
    BY DEF ProcessMsg, streams
  <1>2. TypeOK /\ IsRequest(buffer["server"])
    BY <1>1 DEF TypeInv, ServerKnowsCall
  <1>3. /\ buffer' \in [Ends -> Message]
        /\ buffer'["server"].call = buffer["server"].call
        /\ node' \in {NoNode} \cup 0..MaxCalls
    BY <1>1, <1>2, Handled
  <1>4. buffer["server"].call \in 1..MaxCalls
    <2>1. buffer["server"] \in Message
      BY <1>2, StreamTypes DEF Ends
    <2> QED BY <1>2, <2>1, SessionAssumption DEF Message, IsRequest
  <1>5. log' \in Seq(1..MaxCalls)
    BY <1>1, <1>2, <1>4, AppendProperties DEF TypeOK
  <1>6. TypeOK'
    BY <1>1, <1>2, <1>3, <1>5 DEF TypeOK, ServerLabels
  <1>7. IsRequest(buffer'["server"])
    BY <1>2, <1>3 DEF IsRequest
  <1> QED BY <1>1, <1>6, <1>7, ServerLeavesClient DEF TypeInv, RequestsArrive

\* The data manager is initialised.
LEMMA InitDMSTypes ==
  ASSUME TypeInv, dmsCPIInitDMS
  PROVE  TypeInv'
  <1>1. /\ server = "init" /\ server' = "reply" /\ started' = TRUE /\ dmsUp' \in BOOLEAN
        /\ hashSetReportMsg(buffer["server"].call)
        /\ UNCHANGED <<calls, returned, log, client, wire, inbox, buffer, want, len>>
    BY DEF dmsCPIInitDMS, streams
  <1>2. TypeOK /\ IsRequest(buffer["server"])
    BY <1>1 DEF TypeInv, ServerKnowsCall
  <1>3. node' \in {NoNode} \cup 0..MaxCalls
    <2>1. buffer["server"] \in Message
      BY <1>2, StreamTypes DEF Ends
    <2> QED BY <1>1, <2>1 DEF Message, hashSetReportMsg
  <1>4. TypeOK'
    BY <1>1, <1>2, <1>3 DEF TypeOK, ServerLabels
  <1> QED BY <1>1, <1>2, <1>4, ServerLeavesClient DEF TypeInv, RequestsArrive

\* The server writes cells to the client.
LEMMA ServerWriteTypes ==
  ASSUME TypeInv, server \in {"reply", "replyBig"}, NEW s \in Seq(Cell),
         UNCHANGED wire \/ Write("client", s), server' \in ServerLabels,
         UNCHANGED <<calls, returned, log, client, inbox, buffer, want, len, started, dmsUp, node>>
  PROVE  TypeInv'
  <1>1. TypeOK /\ IsRequest(buffer["server"]) /\ wire["client"] \in Seq(Cell)
    BY StreamTypes DEF TypeInv, ServerKnowsCall, Ends
  <1>2. wire' \in [Ends -> Seq(Cell)] /\ wire'["server"] = wire["server"]
    <2>1. CASE UNCHANGED wire
      BY <1>1, <2>1 DEF TypeOK
    <2>2. CASE Write("client", s)
      <3>1. wire["client"] \o s \in Seq(Cell)
        BY <1>1, Writing
      <3>2. wire' = [wire EXCEPT !["client"] = wire["client"] \o s]
        BY <2>2 DEF Write
      <3> QED BY <1>1, <3>1, <3>2 DEF TypeOK, Ends
    <2> QED BY <2>1, <2>2
  <1>3. TypeOK'
    BY <1>1, <1>2 DEF TypeOK
  <1> QED BY <1>1, <1>2, <1>3, ServerLeavesClient DEF TypeInv, RequestsArrive

\* A reply is written, or is not for want of a client or of time.
LEMMA SendTypes ==
  ASSUME TypeInv, SendMsg \/ SendBig
  PROVE  TypeInv'
  <1>1. buffer["server"] \in Message /\ BigCells \in Nat
    BY SessionAssumption, StreamTypes DEF TypeInv, Ends
  <1>2. /\ MessageCells(buffer["server"]) \in Seq(Cell)
        /\ CellsOf("big", buffer["server"], BigCells) \in Seq(Cell)
    BY <1>1, MessageParts, Parts
  <1>3. /\ server \in {"reply", "replyBig"} /\ server' \in ServerLabels
        /\ UNCHANGED <<calls, returned, log, client, inbox, buffer, want, len, started, dmsUp, node>>
    BY DEF SendMsg, SendBig, SendFails, WriteTimesOut, ServerLabels, dms
  <1>4. \/ UNCHANGED wire
        \/ Write("client", MessageCells(buffer["server"]))
        \/ Write("client", CellsOf("big", buffer["server"], BigCells))
    BY DEF SendMsg, SendBig, SendFails, WriteTimesOut
  <1> QED BY <1>2, <1>3, <1>4, ServerWriteTypes

\* A signal ends the server.
LEMMA KillTypes ==
  ASSUME TypeInv, terminateHandler
  PROVE  TypeInv'
  <1>1. /\ server' = "dead"
        /\ UNCHANGED <<calls, returned, log, client, wire, inbox, buffer, want,
                       len, started, dmsUp, node>>
    BY DEF terminateHandler, dms, streams
  <1>2. TypeOK'
    BY <1>1 DEF TypeInv, TypeOK, ServerLabels
  <1> QED BY <1>1, <1>2, ServerLeavesClient DEF TypeInv, RequestsArrive

\* What an arrival does to a stream.
LEMMA Arrived ==
  ASSUME TypeOK, NEW e \in Ends, NEW n \in 1..Len(wire[e]),
         inbox' = [inbox EXCEPT ![e] = @ \o SubSeq(wire[e], 1, n)],
         wire' = [wire EXCEPT ![e] = SubSeq(@, n + 1, Len(@))]
  PROVE  /\ inbox' \in [Ends -> Seq(Cell)] /\ wire' \in [Ends -> Seq(Cell)]
         /\ Len(inbox'[e]) = Len(inbox[e]) + n
         /\ Len(wire'[e]) = Len(wire[e]) - n
         /\ \A i \in 1..Len(inbox[e]) : inbox'[e][i] = inbox[e][i]
         /\ \A i \in 1..n : inbox'[e][Len(inbox[e]) + i] = wire[e][i]
         /\ \A i \in 1..(Len(wire[e]) - n) : wire'[e][i] = wire[e][n + i]
         /\ \A f \in Ends : f # e => inbox'[f] = inbox[f] /\ wire'[f] = wire[f]
  <1>1. wire[e] \in Seq(Cell) /\ inbox[e] \in Seq(Cell)
    BY StreamTypes
  <1> DEFINE s == inbox[e] \o SubSeq(wire[e], 1, n)
             w == SubSeq(wire[e], n + 1, Len(wire[e]))
  <1>2. /\ s \in Seq(Cell) /\ w \in Seq(Cell)
        /\ Len(s) = Len(inbox[e]) + n /\ Len(w) = Len(wire[e]) - n
        /\ \A i \in 1..Len(inbox[e]) : s[i] = inbox[e][i]
        /\ \A i \in 1..n : s[Len(inbox[e]) + i] = wire[e][i]
        /\ \A i \in 1..(Len(wire[e]) - n) : w[i] = wire[e][n + i]
    BY <1>1, Moving
  <1>3. inbox' = [inbox EXCEPT ![e] = s] /\ wire' = [wire EXCEPT ![e] = w]
    OBVIOUS
  <1> HIDE DEF s, w
  <1>4. /\ inbox' \in [Ends -> Seq(Cell)] /\ wire' \in [Ends -> Seq(Cell)]
        /\ inbox'[e] = s /\ wire'[e] = w
        /\ \A f \in Ends : f # e => inbox'[f] = inbox[f] /\ wire'[f] = wire[f]
    <2>1. /\ inbox \in [Ends -> Seq(Cell)] /\ wire \in [Ends -> Seq(Cell)]
          /\ s \in Seq(Cell) /\ w \in Seq(Cell)
      BY <1>2 DEF TypeOK
    <2>2. /\ inbox' \in [Ends -> Seq(Cell)] /\ inbox'[e] = s
          /\ \A f \in Ends : f # e => inbox'[f] = inbox[f]
      BY <1>3, <2>1
    <2>3. /\ wire' \in [Ends -> Seq(Cell)] /\ wire'[e] = w
          /\ \A f \in Ends : f # e => wire'[f] = wire[f]
      BY <1>3, <2>1
    <2> QED BY <2>2, <2>3
  <1> QED BY <1>2, <1>4

\* The network delivers, in whatever pieces.
LEMMA ArriveTypes ==
  ASSUME TypeInv, NEW e \in Ends, Arrive(e)
  PROVE  TypeInv'
  <1>1. PICK n \in 1..Len(wire[e]) :
          /\ inbox' = [inbox EXCEPT ![e] = @ \o SubSeq(wire[e], 1, n)]
          /\ wire' = [wire EXCEPT ![e] = SubSeq(@, n + 1, Len(@))]
    BY DEF Arrive
  <1>2. UNCHANGED <<calls, returned, log, client, server, buffer, want, len, started, dmsUp, node>>
    BY DEF Arrive, dms
  <1>3. TypeOK
    BY DEF TypeInv
  <1>4. /\ inbox' \in [Ends -> Seq(Cell)] /\ wire' \in [Ends -> Seq(Cell)]
        /\ Len(inbox'[e]) = Len(inbox[e]) + n
        /\ Len(wire'[e]) = Len(wire[e]) - n
        /\ \A i \in 1..Len(inbox[e]) : inbox'[e][i] = inbox[e][i]
        /\ \A i \in 1..n : inbox'[e][Len(inbox[e]) + i] = wire[e][i]
        /\ \A i \in 1..(Len(wire[e]) - n) : wire'[e][i] = wire[e][n + i]
        /\ \A f \in Ends : f # e => inbox'[f] = inbox[f] /\ wire'[f] = wire[f]
    BY <1>1, <1>3, Arrived
  <1>5. TypeOK'
    BY <1>2, <1>3, <1>4 DEF TypeOK
  <1>6. /\ Len(wire[e]) \in Nat /\ Len(inbox[e]) \in Nat
        /\ DOMAIN wire[e] = 1..Len(wire[e]) /\ DOMAIN inbox[e] = 1..Len(inbox[e])
        /\ wire[e] = <<>> <=> Len(wire[e]) = 0
        /\ inbox[e] = <<>> <=> Len(inbox[e]) = 0
    BY <1>3, StreamTypes
  <1>7. /\ DOMAIN wire'[e] = 1..Len(wire'[e]) /\ DOMAIN inbox'[e] = 1..Len(inbox'[e])
        /\ inbox'[e] # <<>> /\ wire[e] # <<>>
    <2>1. wire'[e] \in Seq(Cell) /\ inbox'[e] \in Seq(Cell)
      BY <1>4
    <2> QED BY <1>4, <1>6, <2>1, EmptyOrNot
  <1>8. CASE e = "client"
    <2>1. wire["client"] # <<>> /\ wire'["server"] = wire["server"]
          /\ inbox'["server"] = inbox["server"]
      BY <1>4, <1>7, <1>8 DEF Ends
    <2>2. server = "dead" \/ IsRequest(buffer["server"])
      BY <2>1 DEF TypeInv, FirstRequest, Untouched
    <2> QED BY <1>2, <1>5, <2>1, <2>2 DEF TypeInv, RequestsArrive, ServerKnowsCall,
            FirstRequest, Untouched, CallIsOpen, Busy
  <1>9. CASE e = "server"
    <2>0. /\ n \in 1..Len(wire["server"])
          /\ Len(inbox'["server"]) = Len(inbox["server"]) + n
          /\ Len(wire'["server"]) = Len(wire["server"]) - n
          /\ \A i \in 1..Len(inbox["server"]) : inbox'["server"][i] = inbox["server"][i]
          /\ \A i \in 1..n : inbox'["server"][Len(inbox["server"]) + i] = wire["server"][i]
          /\ \A i \in 1..(Len(wire["server"]) - n) : wire'["server"][i] = wire["server"][n + i]
          /\ Len(wire["server"]) \in Nat /\ Len(inbox["server"]) \in Nat
          /\ inbox["server"] = <<>> <=> Len(inbox["server"]) = 0
      BY <1>4, <1>6, <1>9
    <2>1. /\ \A i \in 1..Len(wire["server"]) : IsRequest(wire["server"][i].msg)
          /\ \A i \in 1..Len(inbox["server"]) : IsRequest(inbox["server"][i].msg)
      BY <1>6, <1>9 DEF TypeInv, RequestsArrive
    <2>2. \A i \in DOMAIN wire'["server"] : IsRequest(wire'["server"][i].msg)
      <3>1. \A i \in 1..(Len(wire["server"]) - n) : n + i \in 1..Len(wire["server"])
        BY <2>0
      <3> QED BY <1>7, <1>9, <2>0, <2>1, <3>1
    <2>3. \A i \in DOMAIN inbox'["server"] : IsRequest(inbox'["server"][i].msg)
      <3>1. ASSUME NEW i \in 1..(Len(inbox["server"]) + n)
            PROVE  IsRequest(inbox'["server"][i].msg)
        <4>0. i \in Nat /\ i >= 1 /\ i <= Len(inbox["server"]) + n
          BY <2>0
        <4>1. CASE i <= Len(inbox["server"])
          <5>1. i \in 1..Len(inbox["server"])
            BY <2>0, <4>0, <4>1
          <5> QED BY <2>0, <2>1, <5>1
        <4>2. CASE i > Len(inbox["server"])
          <5> DEFINE j == i - Len(inbox["server"])
          <5>1. j \in 1..n /\ i = Len(inbox["server"]) + j
            BY <2>0, <4>0, <4>2
          <5> HIDE DEF j
          <5>2. inbox'["server"][i] = wire["server"][j]
            BY <2>0, <5>1
          <5>3. j \in 1..Len(wire["server"])
            BY <2>0, <5>1
          <5> QED BY <2>1, <5>2, <5>3
        <4> QED BY <2>0, <4>1, <4>2
      <3> QED BY <1>4, <1>7, <1>9, <3>1
    <2>4. FirstRequest'
      <3>1. ASSUME Untouched, server = "wait" PROVE Untouched'
        <4>1. wire'["client"] = wire["client"] /\ inbox'["client"] = inbox["client"]
          BY <1>4, <1>9 DEF Ends
        <4>2. calls # <<>>
          BY <1>7, <1>9, <3>1 DEF Untouched
        <4>3. Len(wire'["server"]) + Len(inbox'["server"]) <= BodyCells + 1
          <5>1. Len(wire["server"]) + Len(inbox["server"]) <= BodyCells + 1
            BY <3>1 DEF Untouched
          <5>2. /\ Len(inbox'["server"]) = Len(inbox["server"]) + n
                /\ Len(wire'["server"]) = Len(wire["server"]) - n
                /\ n \in Nat /\ Len(wire["server"]) \in Nat /\ Len(inbox["server"]) \in Nat
            BY <2>0
          <5> DEFINE w == Len(wire["server"])
                     a == Len(inbox["server"])
          <5>3. w + a <= BodyCells + 1 /\ w \in Nat /\ a \in Nat
            BY <5>1, <5>2
          <5>4. Len(wire'["server"]) + Len(inbox'["server"]) = (w - n) + (a + n)
            BY <5>2
          <5> HIDE DEF w, a
          <5>5. (w - n) + (a + n) = w + a
            BY <5>2, <5>3
          <5> QED BY <5>3, <5>4, <5>5
        <4>4. inbox'["server"][1].n = BodyCells
          <5>1. CASE inbox["server"] # <<>>
            <6>1. inbox'["server"][1] = inbox["server"][1]
              BY <2>0, <5>1
            <6> QED BY <3>1, <5>1, <6>1 DEF Untouched
          <5>2. CASE inbox["server"] = <<>>
            <6>1. inbox'["server"][1] = wire["server"][1]
              BY <2>0, <5>2
            <6> QED BY <1>7, <1>9, <3>1, <5>2, <6>1 DEF Untouched
          <5> QED BY <5>1, <5>2
        <4> QED BY <1>2, <1>7, <1>9, <3>1, <4>1, <4>2, <4>3, <4>4 DEF Untouched
      <3>2. ASSUME Untouched, server # "wait" PROVE Untouched'
        <4>1. wire'["client"] = wire["client"] /\ inbox'["client"] = inbox["client"]
          BY <1>4, <1>9 DEF Ends
        <4>2. server # "dead" => calls # <<>>
          BY <1>7, <1>9, <3>2 DEF Untouched
        <4> QED BY <1>2, <3>2, <4>1, <4>2 DEF Untouched
      <3> QED BY <1>2, <3>1, <3>2 DEF TypeInv, FirstRequest
    <2> QED BY <1>2, <1>5, <2>2, <2>3, <2>4 DEF TypeInv, RequestsArrive, ServerKnowsCall,
            CallIsOpen, Busy
  <1> QED BY <1>8, <1>9 DEF Ends

\* Every step keeps the types.
LEMMA StepTypes == TypeInv /\ [Next]_vars => TypeInv'
  <1> SUFFICES ASSUME TypeInv, [Next]_vars PROVE TypeInv'
    OBVIOUS
  <1>1. CASE UNCHANGED vars
    BY <1>1 DEF vars, TypeInv, TypeOK, CallIsOpen, Busy, RequestsArrive, ServerKnowsCall,
                FirstRequest, Untouched
  <1>2. CASE \E k \in Kinds : interCommunicate(k)
    BY <1>2, CallTypes
  <1>3. CASE ClientStep
    BY <1>3, ClientLengthTypes, ClientBodyTypes, ClientBigTypes DEF ClientStep
  <1>4. CASE ClientGoes
    BY <1>4, ClientGoesTypes
  <1>5. CASE ServerStep
    BY <1>5, ServerLengthTypes, ServerBodyTypes, ProcessTypes, InitDMSTypes, SendTypes
       DEF ServerStep
  <1>6. CASE terminateHandler
    BY <1>6, KillTypes
  <1>7. CASE \E e \in Ends : Arrive(e)
    BY <1>7, ArriveTypes
  <1> QED BY <1>1, <1>2, <1>3, <1>4, <1>5, <1>6, <1>7 DEF Next

\* However the network splits messages and whenever a signal ends the server, a
\* client that waits has a call that has not returned, and what a handler is
\* given is the request of a call, never the empty buffer the server starts with.
THEOREM TypesHold == Spec => []TypeInv
  <1> QED BY InitTypes, StepTypes, PTL DEF Spec

\* Every variable of Session has its type: no read, write or split of a message
\* leads interCommunicate or the server's loop out of its states, and no call
\* returns twice.
THEOREM TypeCorrect == Spec => []TypeOK
  <1>1. TypeInv => TypeOK
    BY DEF TypeInv
  <1> QED BY <1>1, TypesHold, PTL
=============================================================================
