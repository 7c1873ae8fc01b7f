---------------------------- MODULE SessionCalls ----------------------------
(***************************************************************************)
(* The streams of Session hold the parts of one call at a time, in whatever *)
(* pieces the network delivers them: a call returns its own result or an    *)
(* error, and the session implements Rpc.                                   *)
(***************************************************************************)
EXTENDS SessionTypes

-----------------------------------------------------------------------------
(* The invariant behind the calls.                                          *)

\* All of s are parts of m.
Rest(s, m) == \A i \in 1..Len(s) : s[i].msg = m

\* So they are, from its length word on, which never comes alone.
Starts(s, m) ==
    /\ Len(s) >= 2
    /\ s[1].part = "len" /\ s[1].n = BodyCells
    /\ Rest(s, m)

Idle(end) == wire[end] = <<>> /\ inbox[end] = <<>>

\* The call being made, and whether a handler has executed it.
Current == Len(calls)
CurrentRequest == Request(Current, calls[Current])
Done == {log[i] : i \in 1..Len(log)}

\* The call has been made, and no part of a reply has been sent.
Unanswered ==
    /\ Current >= 1 /\ Len(returned) < Current
    /\ client \in {"header", "gone"}
    /\ client = "header" => Idle("client")

\* The last operation before a report is the one whose message it shows.
IsLatest(c, t) ==
    /\ t \in Reporting(c)
    /\ \A d \in Reporting(c) : d <= t

NoExit(c) == \A d \in 1..c : calls[d] # "exit"

\* What a handler makes of the request.
ReplyOf == buffer["server"]

ReplyMade ==
    /\ ReplyOf.call = Current
    /\ ReplyOf.kind = calls[Current]
    /\ ReplyOf.big => ReplyOf.kind = "list"
    /\ ReplyOf.kind = "report" /\ ReplyOf.ok /\ NoExit(Current) =>
           IsLatest(Current, ReplyOf.text)

RequestComes ==
    /\ Len(inbox["server"]) + Len(wire["server"]) = BodyCells + 1
    /\ \/ inbox["server"] = <<>> /\ Starts(wire["server"], CurrentRequest)
       \/ Starts(inbox["server"], CurrentRequest) /\ Rest(wire["server"], CurrentRequest)

\* Where the request is, by what the server does.
ServerWaits ==
    server = "wait" =>
        \/ Idle("server")
        \/ Unanswered /\ Current \notin Done /\ RequestComes

ServerReads ==
    server = "body" =>
        /\ Unanswered /\ Current \notin Done
        /\ Rest(inbox["server"], CurrentRequest) /\ Rest(wire["server"], CurrentRequest)
        /\ len["server"] + Len(inbox["server"]) + Len(wire["server"]) = BodyCells
        /\ want["server"] = BodyCells

ServerProcesses ==
    server = "process" =>
        /\ Unanswered /\ Current \notin Done
        /\ Idle("server")
        /\ buffer["server"] = CurrentRequest

ServerReplies ==
    server \in {"init", "reply"} =>
        /\ Unanswered /\ Current \in Done
        /\ Idle("server")
        /\ ReplyMade

Answered ==
    /\ Current >= 1 /\ Len(returned) < Current
    /\ Current \in Done
    /\ ReplyMade
    /\ server \in {"wait", "replyBig", "dead"}

ServerSends ==
    server = "replyBig" =>
        /\ Idle("server")
        /\ ReplyOf.big
        /\ client \in {"header", "body", "big", "gone"}
        /\ client = "header" => ~Idle("client")

\* How much of a string the client may have been sent.
Sent == IF ReplyOf.big /\ server # "replyBig" THEN BigCells ELSE 0

\* Where the reply is, by what the client does.
ClientRests ==
    client = "ready" =>
        /\ Len(returned) = Current
        /\ Idle("client")
        /\ server \in {"wait", "dead"}
        /\ server = "wait" => Idle("server")

ReplyWaits ==
    /\ inbox["client"] = <<>>
    /\ Starts(wire["client"], ReplyOf)
    /\ Len(wire["client"]) <= BodyCells + 1 + Sent

ReplyArrived ==
    /\ Starts(inbox["client"], ReplyOf)
    /\ Rest(wire["client"], ReplyOf)
    /\ Len(inbox["client"]) + Len(wire["client"]) <= BodyCells + 1 + Sent

ClientWaits ==
    client = "header" =>
        \/ Idle("client")
        \/ Answered /\ (ReplyWaits \/ ReplyArrived)

ClientReads ==
    client = "body" =>
        /\ Answered
        /\ Rest(inbox["client"], ReplyOf)
        /\ Rest(wire["client"], ReplyOf)
        /\ len["client"] + Len(inbox["client"]) + Len(wire["client"]) <= BodyCells + Sent
        /\ want["client"] = BodyCells

ClientReadsString ==
    client = "big" =>
        /\ Answered
        /\ ReplyOf.big /\ buffer["client"] = ReplyOf
        /\ Rest(inbox["client"], ReplyOf)
        /\ Rest(wire["client"], ReplyOf)
        /\ len["client"] + Len(inbox["client"]) + Len(wire["client"]) <= Sent
        /\ want["client"] = BigCells

ServerStreams ==
    /\ ServerWaits /\ ServerReads /\ ServerProcesses /\ ServerReplies /\ ServerSends
    /\ server \notin {"body", "dead"} => len["server"] = 0

ClientStreams ==
    /\ ClientRests /\ ClientWaits /\ ClientReads /\ ClientReadsString
    /\ client \notin {"body", "big", "gone"} => len["client"] = 0

\* One call at a time, and no call is executed before it is made.
History ==
    /\ Current <= Len(returned) + 1
    /\ \A d \in Done : d <= Current
    /\ \A i \in 1..Len(returned) : returned[i].of \in {i, Error}
    /\ \A i \in 1..Len(returned) : returned[i].of # Error => i \in Done
    /\ Current >= 1 => calls[1] = "init"

\* The first message is the first one processed, and the data manager is
\* initialised after it.
FirstIsFirst ==
    server # "dead" =>
        /\ started => 1 \in Done
        /\ 1 \in Done /\ server # "init" => started
        /\ server = "init" => Current = 1 /\ ~started
        /\ Current >= 2 \/ (client = "ready" /\ Current = 1) => 1 \in Done

\* The calls whose message the client's node has held.
Held == {d \in 1..Current : d \in Done /\ (calls[d] = "cell" \/ d = 1)}

NodeHolds ==
    server # "dead" /\ (\A d \in 1..Current : d \in Done => calls[d] # "exit") =>
        IF server = "init" THEN node = Blank
        ELSE IF 1 \in Done THEN node \in Held /\ \A d \in Held : d <= node
        ELSE node = NoNode

\* What the calls returned.
ReturnedParts ==
    \A c \in 1..Len(returned) :
        returned[c].of # Error /\ returned[c].ok =>
            /\ calls[c] = "list" => returned[c].big = c
            /\ calls[c] = "report" /\ NoExit(c) => IsLatest(c, returned[c].text)

CallInv == ServerStreams /\ ClientStreams /\ History /\ FirstIsFirst /\ NodeHolds /\ ReturnedParts
-----------------------------------------------------------------------------
(* What the streams look like when a part arrives, is read or is written.    *)

\* A message that SendMsg writes starts with its length word.
LEMMA MessageStarts ==
  ASSUME NEW m \in Message
  PROVE  /\ Starts(MessageCells(m), m)
         /\ Len(MessageCells(m)) = BodyCells + 1
  <1>1. /\ Len(MessageCells(m)) = BodyCells + 1
        /\ MessageCells(m)[1].part = "len"
        /\ MessageCells(m)[1].n = BodyCells
        /\ \A i \in 1..(BodyCells + 1) : MessageCells(m)[i].msg = m
    BY MessageParts
  <1>2. BodyCells + 1 >= 2
    BY SessionAssumption
  <1> QED BY <1>1, <1>2 DEF Starts, Rest

\* The first part of a message that arrives is more than its length word.
LEMMA StartArrives ==
  ASSUME TypeOK, NEW e \in Ends, Arrive(e), NEW m,
         inbox[e] = <<>>, Starts(wire[e], m)
  PROVE  /\ Starts(inbox'[e], m) /\ Rest(wire'[e], m)
         /\ Len(inbox'[e]) + Len(wire'[e]) = Len(inbox[e]) + Len(wire[e])
  <1>1. PICK n \in 1..Len(wire[e]) :
          /\ wire[e][n].part # "len"
          /\ inbox' = [inbox EXCEPT ![e] = @ \o SubSeq(wire[e], 1, n)]
          /\ wire' = [wire EXCEPT ![e] = SubSeq(@, n + 1, Len(@))]
    BY DEF Arrive
  <1>2. /\ Len(inbox'[e]) = Len(inbox[e]) + n
        /\ Len(wire'[e]) = Len(wire[e]) - n
        /\ \A i \in 1..n : inbox'[e][Len(inbox[e]) + i] = wire[e][i]
        /\ \A i \in 1..(Len(wire[e]) - n) : wire'[e][i] = wire[e][n + i]
    BY <1>1, Arrived
  <1>3. Len(inbox[e]) = 0 /\ Len(wire[e]) \in Nat
    BY StreamTypes
  <1>4. /\ wire[e][1].part = "len" /\ wire[e][1].n = BodyCells
        /\ \A i \in 1..Len(wire[e]) : wire[e][i].msg = m
    BY DEF Starts, Rest
  <1>5. n >= 2
    BY <1>1, <1>3, <1>4
  <1>6. Len(inbox'[e]) = n /\ \A i \in 1..n : inbox'[e][i] = wire[e][i]
    BY <1>2, <1>3
  <1>7. \A i \in 1..n : i \in 1..Len(wire[e])
    BY <1>3
  <1>8. Starts(inbox'[e], m)
    BY <1>3, <1>4, <1>5, <1>6, <1>7 DEF Starts, Rest
  <1>9. Rest(wire'[e], m)
    <2>1. \A i \in 1..(Len(wire[e]) - n) : n + i \in 1..Len(wire[e])
      BY <1>3
    <2>2. \A i \in 1..(Len(wire[e]) - n) : wire'[e][i].msg = m
      BY <1>2, <1>4, <2>1
    <2>3. Len(wire'[e]) = Len(wire[e]) - n
      BY <1>2
    <2> QED BY <2>2, <2>3 DEF Rest
  <1>10. n + (Len(wire[e]) - n) = 0 + Len(wire[e])
    BY <1>3
  <1> QED BY <1>2, <1>3, <1>6, <1>8, <1>9, <1>10

\* Of what follows, any piece may arrive.
LEMMA RestArrives ==
  ASSUME TypeOK, NEW e \in Ends, Arrive(e), NEW m, Rest(wire[e], m)
  PROVE  /\ Rest(wire'[e], m)
         /\ Len(inbox'[e]) + Len(wire'[e]) = Len(inbox[e]) + Len(wire[e])
         /\ Starts(inbox[e], m) => Starts(inbox'[e], m)
         /\ Rest(inbox[e], m) => Rest(inbox'[e], m)
  <1>1. PICK n \in 1..Len(wire[e]) :
          /\ inbox' = [inbox EXCEPT ![e] = @ \o SubSeq(wire[e], 1, n)]
          /\ wire' = [wire EXCEPT ![e] = SubSeq(@, n + 1, Len(@))]
    BY DEF Arrive
  <1>2. /\ Len(inbox'[e]) = Len(inbox[e]) + n
        /\ Len(wire'[e]) = Len(wire[e]) - n
        /\ \A i \in 1..Len(inbox[e]) : inbox'[e][i] = inbox[e][i]
        /\ \A i \in 1..n : inbox'[e][Len(inbox[e]) + i] = wire[e][i]
        /\ \A i \in 1..(Len(wire[e]) - n) : wire'[e][i] = wire[e][n + i]
    BY <1>1, Arrived
  <1> DEFINE a == Len(inbox[e])
             w == Len(wire[e])
  <1>3. a \in Nat /\ w \in Nat /\ n \in 1..w
    BY StreamTypes
  <1>4. \A i \in 1..w : wire[e][i].msg = m
    BY DEF Rest
  <1> HIDE DEF a, w
  <1>5. /\ Len(inbox'[e]) = a + n /\ Len(wire'[e]) = w - n
        /\ \A i \in 1..a : inbox'[e][i] = inbox[e][i]
        /\ \A i \in 1..n : inbox'[e][a + i] = wire[e][i]
        /\ \A i \in 1..(w - n) : wire'[e][i] = wire[e][n + i]
    BY <1>2 DEF a, w
  <1>6. Rest(wire'[e], m)
    <2>1. \A i \in 1..(w - n) : n + i \in 1..w
      BY <1>3
    <2> QED BY <1>4, <1>5, <2>1 DEF Rest
  <1>7. Len(inbox'[e]) + Len(wire'[e]) = a + w
    BY <1>3, <1>5
  <1>8. ASSUME NEW i \in 1..(a + n)
        PROVE  (i \in 1..a /\ inbox'[e][i] = inbox[e][i]) \/ inbox'[e][i].msg = m
    <2>1. CASE i <= a
      BY <1>3, <1>5, <2>1
    <2>2. CASE i > a
      <3> DEFINE j == i - a
      <3>1. j \in 1..n /\ j \in 1..w /\ i = a + j
        BY <1>3, <2>2
      <3> HIDE DEF j
      <3> QED BY <1>4, <1>5, <3>1
    <2> QED BY <1>3, <2>1, <2>2
  <1>9. Rest(inbox[e], m) => Rest(inbox'[e], m)
    <2>1. Rest(inbox[e], m) => \A i \in 1..a : inbox[e][i].msg = m
      BY DEF Rest, a
    <2> QED BY <1>5, <1>8, <2>1 DEF Rest
  <1>10. Starts(inbox[e], m) => Starts(inbox'[e], m)
    <2> SUFFICES ASSUME Starts(inbox[e], m) PROVE Starts(inbox'[e], m)
      OBVIOUS
    <2>1. a >= 2 /\ inbox[e][1].part = "len" /\ inbox[e][1].n = BodyCells /\ Rest(inbox[e], m)
      BY DEF Starts, a
    <2>2. a + n >= 2 /\ 1 \in 1..a
      BY <1>3, <2>1
    <2> QED BY <1>5, <1>9, <2>1, <2>2 DEF Starts
  <1> QED BY <1>6, <1>7, <1>9, <1>10 DEF a, w

\* What arrives is counted once.
LEMMA SameTotal ==
  ASSUME TypeOK, NEW e \in Ends, Arrive(e), UNCHANGED len,
         Len(inbox'[e]) + Len(wire'[e]) = Len(inbox[e]) + Len(wire[e])
  PROVE  len'[e] + Len(inbox'[e]) + Len(wire'[e]) = len[e] + Len(inbox[e]) + Len(wire[e])
  <1> DEFINE a == Len(inbox[e])
             w == Len(wire[e])
             b == Len(inbox'[e])
             v == Len(wire'[e])
             l == len[e]
  <1>1. a \in Nat /\ w \in Nat /\ l \in Nat /\ b + v = a + w /\ len'[e] = l
    BY StreamTypes
  <1>2. b \in Nat /\ v \in Nat
    <2>1. inbox'[e] \in Seq(Cell) /\ wire'[e] \in Seq(Cell)
      BY Arrived DEF Arrive
    <2> QED BY <2>1, LenProperties
  <1> HIDE DEF a, w, b, v, l
  <1>3. l + b + v = l + a + w
    BY <1>1, <1>2
  <1> QED BY <1>1, <1>3 DEF a, w, b, v

\* The length word is taken from a message.
LEMMA LengthOfMessage ==
  ASSUME TypeOK, NEW e \in Ends, NEW m, Starts(inbox[e], m)
  PROVE  /\ inbox[e] # <<>> /\ Len(inbox[e]) > 1 /\ Len(inbox[e]) \in Nat
         /\ Head(inbox[e]).n = BodyCells
         /\ Len(Tail(inbox[e])) = Len(inbox[e]) - 1
         /\ inbox' = [inbox EXCEPT ![e] = Tail(@)] =>
               Rest(inbox'[e], m) /\ Len(inbox'[e]) = Len(inbox[e]) - 1
  <1>1. inbox[e] \in Seq(Cell) /\ Len(inbox[e]) \in Nat
    BY StreamTypes
  <1>2. /\ Len(inbox[e]) >= 2 /\ inbox[e][1].n = BodyCells
        /\ \A i \in 1..Len(inbox[e]) : inbox[e][i].msg = m
    BY DEF Starts, Rest
  <1>3. Len(inbox[e]) > 1 /\ Len(inbox[e]) >= 1
    BY <1>1, <1>2
  <1>4. /\ inbox[e] # <<>> /\ Head(inbox[e]) = inbox[e][1]
        /\ Len(Tail(inbox[e])) = Len(inbox[e]) - 1
        /\ \A i \in 1..(Len(inbox[e]) - 1) : Tail(inbox[e])[i] = inbox[e][i + 1]
    BY <1>1, <1>3, ReadingOne
  <1>5. Rest(Tail(inbox[e]), m)
    <2>1. \A i \in 1..(Len(inbox[e]) - 1) : i + 1 \in 1..Len(inbox[e])
      BY <1>1
    <2> QED BY <1>2, <1>4, <2>1 DEF Rest
  <1>6. inbox' = [inbox EXCEPT ![e] = Tail(@)] => inbox'[e] = Tail(inbox[e])
    BY DEF TypeOK
  <1> QED BY <1>1, <1>2, <1>3, <1>4, <1>5, <1>6

\* A read takes some of what follows, and knows the message by it.
LEMMA RestRead ==
  ASSUME TypeOK, NEW e \in Ends, NEW m, ReadSome(e), Rest(inbox[e], m)
  PROVE  /\ Head(inbox[e]).msg = m
         /\ Rest(inbox'[e], m)
  <1>1. /\ Len(inbox[e]) >= 1
        /\ Head(inbox[e]) = inbox[e][1]
        /\ Taken(e) \in 0..Len(inbox[e])
        /\ Len(inbox'[e]) = Len(inbox[e]) - Taken(e)
        /\ \A i \in 1..(Len(inbox[e]) - Taken(e)) : inbox'[e][i] = inbox[e][Taken(e) + i]
    BY ReadTypes
  <1>2. Len(inbox[e]) \in Nat
    BY StreamTypes
  <1>3. \A i \in 1..Len(inbox[e]) : inbox[e][i].msg = m
    BY DEF Rest
  <1>4. Head(inbox[e]).msg = m
    BY <1>1, <1>2, <1>3
  <1>5. \A i \in 1..(Len(inbox[e]) - Taken(e)) : Taken(e) + i \in 1..Len(inbox[e])
    BY <1>1, <1>2
  <1> QED BY <1>1, <1>3, <1>4, <1>5 DEF Rest

\* What a read leaves of the number of cells a part was to have: at most as much
\* as before, and when the part is complete, what is too much for it.
LEMMA ReadCounts ==
  ASSUME TypeOK, NEW e \in Ends, ReadSome(e), UNCHANGED wire
  PROVE  /\ Len(inbox'[e]) \in Nat /\ Len(wire'[e]) \in Nat /\ Len(wire'[e]) = Len(wire[e])
         /\ ~Received(e) => len'[e] + Len(inbox'[e]) + Len(wire'[e])
                                = len[e] + Len(inbox[e]) + Len(wire[e])
         /\ Received(e) =>
               /\ len'[e] = 0
               /\ want[e] + Len(inbox'[e]) + Len(wire'[e])
                      <= len[e] + Len(inbox[e]) + Len(wire[e])
  <1> DEFINE a == Len(inbox[e])
             w == Len(wire[e])
             l == len[e]
             t == Taken(e)
             k == want[e]
  <1>1. /\ a \in Nat /\ w \in Nat /\ l \in Nat /\ k \in Nat /\ t \in 0..a
        /\ Len(inbox'[e]) = a - t /\ Len(wire'[e]) = w
        /\ len'[e] = IF l + t >= k THEN 0 ELSE l + t
        /\ (Received(e) <=> l + t >= k)
    BY ReadTypes, StreamTypes DEF Received
  <1> HIDE DEF a, w, l, t, k
  <1>2. /\ a - t \in Nat
        /\ (l + t) + (a - t) + w = l + a + w
        /\ l + t >= k => k + (a - t) + w <= l + a + w
    BY <1>1
  <1> QED BY <1>1, <1>2 DEF a, w, l, k

\* The server writes the string of a listing.
LEMMA StringIsRest ==
  ASSUME NEW m \in Message
  PROVE  /\ Rest(CellsOf("big", m, BigCells), m)
         /\ Len(CellsOf("big", m, BigCells)) = BigCells
         /\ CellsOf("big", m, BigCells) \in Seq(Cell)
  <1>1. /\ Len(CellsOf("big", m, BigCells)) = BigCells
        /\ CellsOf("big", m, BigCells) \in Seq(Cell)
        /\ \A i \in 1..BigCells :
              CellsOf("big", m, BigCells)[i] = [part |-> "big", n |-> 0, msg |-> m]
    BY Parts, SessionAssumption
  <1> QED BY <1>1 DEF Rest

\* A string written after a reply, or after a part of it, belongs to it.
LEMMA RestWritten ==
  ASSUME NEW m, NEW s \in Seq(Cell), NEW t \in Seq(Cell), Rest(t, m)
  PROVE  /\ Starts(s, m) => Starts(s \o t, m)
         /\ Rest(s, m) => Rest(s \o t, m)
         /\ Len(s \o t) = Len(s) + Len(t)
  <1> DEFINE a == Len(s)
             b == Len(t)
             u == s \o t
  <1>1. /\ Len(u) = a + b
        /\ \A i \in 1..a : u[i] = s[i]
        /\ \A i \in 1..b : u[a + i] = t[i]
    BY Writing
  <1>2. a \in Nat /\ b \in Nat
    BY LenProperties
  <1>3. \A i \in 1..b : t[i].msg = m
    BY DEF Rest
  <1> HIDE DEF a, b, u
  <1>4. ASSUME NEW i \in 1..(a + b)
        PROVE  (i \in 1..a /\ u[i] = s[i]) \/ u[i].msg = m
    <2>1. CASE i <= a
      BY <1>1, <1>2, <2>1
    <2>2. CASE i > a
      <3> DEFINE j == i - a
      <3>1. j \in 1..b /\ i = a + j
        BY <1>2, <2>2
      <3> HIDE DEF j
      <3> QED BY <1>1, <1>3, <3>1
    <2> QED BY <1>2, <2>1, <2>2
  <1>5. Rest(s, m) => Rest(u, m)
    <2>1. Rest(s, m) => \A i \in 1..a : s[i].msg = m
      BY DEF Rest, a
    <2> QED BY <1>1, <1>4, <2>1 DEF Rest
  <1>6. ASSUME Starts(s, m) PROVE Starts(u, m)
    <2>1. a >= 2 /\ s[1].part = "len" /\ s[1].n = BodyCells /\ Rest(s, m)
      BY <1>6 DEF Starts, a
    <2>2. a + b >= 2 /\ 1 \in 1..a
      BY <1>2, <2>1
    <2> QED BY <1>1, <1>5, <2>1, <2>2 DEF Starts
  <1> QED BY <1>1, <1>5, <1>6 DEF a, b, u

-----------------------------------------------------------------------------
(* Calls.                                                                   *)

\* As long as no call is made and no handler runs, all that is said of the calls
\* stays true.
LEMMA SameCalls ==
  ASSUME UNCHANGED <<calls, log>>
  PROVE  /\ Current' = Current /\ Done' = Done /\ CurrentRequest' = CurrentRequest
         /\ Held' = Held
         /\ ReturnedParts /\ UNCHANGED returned => ReturnedParts'
         /\ History /\ UNCHANGED returned => History'
         /\ ReplyMade /\ buffer'["server"] = buffer["server"] => ReplyMade'
  <1>1. Current' = Current /\ Done' = Done /\ CurrentRequest' = CurrentRequest
    BY DEF Current, Done, CurrentRequest, Request
  <1>2. Held' = Held
    BY <1>1 DEF Held
  <1>3. ReturnedParts /\ UNCHANGED returned => ReturnedParts'
    BY DEF ReturnedParts, NoExit, IsLatest, Reporting, Contains
  <1>4. History /\ UNCHANGED returned => History'
    BY <1>1 DEF History
  <1>5. ReplyMade /\ buffer'["server"] = buffer["server"] => ReplyMade'
    BY <1>1 DEF ReplyMade, ReplyOf, NoExit, IsLatest, Reporting, Contains
  <1> QED BY <1>1, <1>2, <1>3, <1>4, <1>5

\* The calls done are those in the log.
LEMMA DoneIsLogged ==
  ASSUME TypeOK
  PROVE  /\ Done \subseteq 1..MaxCalls
         /\ \A c : Contains(log, c) <=> c \in Done
  <1>1. log \in Seq(1..MaxCalls)
    BY DEF TypeOK
  <1>2. \A i \in 1..Len(log) : log[i] \in 1..MaxCalls
    BY <1>1, ElementOfSeq
  <1> QED BY <1>2 DEF Done, Contains

\* At the start nothing is asked and nothing is on its way.
LEMMA InitCalls == Init => CallInv
  <1> SUFFICES ASSUME Init PROVE CallInv
    OBVIOUS
  <1>1. /\ wire["server"] = <<>> /\ inbox["server"] = <<>>
        /\ wire["client"] = <<>> /\ inbox["client"] = <<>>
        /\ len["server"] = 0 /\ len["client"] = 0
    BY DEF Init, Ends
  <1>2. Current = 0 /\ Done = {} /\ Len(returned) = 0
    BY DEF Init, Current, Done
  <1>3. ServerStreams
    BY <1>1 DEF Init, ServerStreams, ServerWaits, ServerReads, ServerProcesses, ServerReplies,
       ServerSends, Idle
  <1>4. ClientStreams
    BY <1>1, <1>2 DEF Init, ClientStreams, ClientRests, ClientWaits, ClientReads,
       ClientReadsString, Idle
  <1>5. History /\ FirstIsFirst /\ NodeHolds /\ ReturnedParts
    BY <1>2 DEF Init, History, FirstIsFirst, NodeHolds, ReturnedParts
  <1> QED BY <1>3, <1>4, <1>5 DEF CallInv

\* interCommunicate finds both streams empty, and leaves one request.
LEMMA CallKeeps ==
  ASSUME TypeInv, CallInv, NEW k \in Kinds, interCommunicate(k)
  PROVE  CallInv'
  <1> DEFINE m == Request(Current + 1, k)
  <1> USE DEF CallInv
  <1>0. TypeOK /\ Current \in Nat /\ Len(returned) \in Nat
    BY DEF TypeInv, TypeOK, Current
  <1>1. /\ client = "ready" /\ client' = "header"
        /\ calls' = Append(calls, k) /\ Len(calls) < MaxCalls
        /\ calls = <<>> => k = "init"
        /\ buffer' = [buffer EXCEPT !["client"] = m]
        /\ UNCHANGED <<returned, log, server, inbox, want, len, started, dmsUp, node>>
    BY DEF interCommunicate, dms, Current
  <1>2. /\ Current' = Current + 1 /\ Done' = Done
        /\ \A d \in 1..Current : calls'[d] = calls[d]
        /\ calls'[Current + 1] = k
        /\ CurrentRequest' = m
    <2>1. calls \in Seq(Kinds)
      BY <1>0 DEF TypeOK
    <2>2. /\ Len(calls') = Len(calls) + 1
          /\ \A d \in 1..Len(calls) : calls'[d] = calls[d]
          /\ calls'[Len(calls) + 1] = k
      BY <1>1, <2>1, AppendProperties
    <2>3. Done' = Done
      BY <1>1 DEF Done
    <2> QED BY <2>2, <2>3 DEF Current, CurrentRequest
  <1>3. /\ Len(returned) = Current /\ Idle("client") /\ server \in {"wait", "dead"}
        /\ server = "wait" => Idle("server")
    BY <1>1 DEF ClientStreams, ClientRests
  <1>4. Current' \notin Done'
    BY <1>0, <1>2, DoneIsLogged DEF History
  <1>5. m \in Message
    <2>1. Current + 1 \in 0..MaxCalls
      BY <1>0, <1>1, SessionAssumption DEF Current
    <2> QED BY <2>1, SessionAssumption DEF Request, Message, Blank
  <1>6. wire'["client"] = <<>> /\ Idle("client")'
    <2>1. wire["client"] = <<>> /\ inbox["client"] = <<>>
      BY <1>3 DEF Idle
    <2>2. wire'["client"] = wire["client"]
      BY <1>0 DEF interCommunicate, Write, WriteTimesOut, TypeOK, Ends
    <2> QED BY <1>1, <2>1, <2>2 DEF Idle
  <1>7. Unanswered'
    BY <1>0, <1>1, <1>2, <1>3, <1>6 DEF Unanswered
  <1>8. ServerStreams'
    <2>1. CASE server = "dead"
      BY <1>1, <2>1 DEF ServerStreams, ServerWaits, ServerReads, ServerProcesses,
         ServerReplies, ServerSends
    <2>2. CASE server = "wait"
      <3>1. wire["server"] = <<>> /\ inbox["server"] = <<>>
        BY <1>3, <2>2 DEF Idle
      <3>2. \/ UNCHANGED wire
            \/ wire' = [wire EXCEPT !["server"] = wire["server"] \o MessageCells(m)]
        BY <2>2 DEF interCommunicate, Write, WriteTimesOut, Current
      <3>3. /\ MessageCells(m) \in Seq(Cell) /\ Starts(MessageCells(m), m)
            /\ Len(MessageCells(m)) = BodyCells + 1
        BY <1>5, MessageParts, MessageStarts
      <3> HIDE DEF m
      <3>4. wire'["server"] \in {<<>>, MessageCells(m)}
        <4>1. wire["server"] \o MessageCells(m) = MessageCells(m)
          BY <3>1, <3>3, ConcatEmptySeq
        <4> QED BY <1>0, <3>1, <3>2, <4>1 DEF TypeOK, Ends
      <3>5. inbox'["server"] = <<>>
        BY <1>1, <3>1
      <3>6. Idle("server")' \/ RequestComes'
        BY <1>2, <3>3, <3>4, <3>5 DEF Idle, RequestComes
      <3> QED BY <1>1, <1>4, <1>7, <2>2, <3>6 DEF ServerStreams, ServerWaits, ServerReads,
              ServerProcesses, ServerReplies, ServerSends
    <2> QED BY <1>3, <2>1, <2>2
  <1>9. ClientStreams'
    BY <1>1, <1>6 DEF ClientStreams, ClientRests, ClientWaits, ClientReads, ClientReadsString
  <1>10. History'
    <2>1. Current' <= Len(returned') + 1
      BY <1>0, <1>1, <1>2, <1>3
    <2>2. \A d \in Done' : d <= Current'
      <3>1. \A d \in Done : d <= Current /\ d \in Nat
        BY <1>0, DoneIsLogged DEF History
      <3> QED BY <1>0, <1>2, <3>1
    <2>3. calls'[1] = "init"
      <3>1. CASE Current = 0
        <4>1. calls = <<>>
          BY <1>0, <3>1, EmptyOrNot DEF TypeOK, Current
        <4> QED BY <1>1, <1>2, <3>1, <4>1
      <3>2. CASE Current >= 1
        BY <1>0, <1>2, <3>2 DEF History
      <3> QED BY <1>0, <3>1, <3>2
    <2> QED BY <1>1, <1>2, <2>1, <2>2, <2>3 DEF History
  <1>11. FirstIsFirst'
    BY <1>0, <1>1, <1>2, <1>3 DEF FirstIsFirst
  <1>12. NodeHolds'
    <2>1. Held' = Held
      <3>1. \A d \in Done : d <= Current /\ d \in Nat
        BY <1>0, DoneIsLogged DEF History
      <3>2. \A d \in 1..Current' : d \in Done => d \in 1..Current
        BY <1>0, <1>2, <3>1
      <3>3. \A d \in 1..Current : d \in 1..Current'
        BY <1>0, <1>2
      <3>4. \A d : d \in Held' <=> d \in Held
        BY <1>2, <3>2, <3>3 DEF Held
      <3> QED BY <3>4 DEF Held
    <2>2. (\A d \in 1..Current' : d \in Done' => calls'[d] # "exit")
             => (\A d \in 1..Current : d \in Done => calls[d] # "exit")
      <3>1. \A d \in 1..Current : d \in 1..Current'
        BY <1>0, <1>2
      <3> QED BY <1>2, <3>1
    <2> QED BY <1>1, <1>2, <2>1, <2>2 DEF NodeHolds
  <1>13. ReturnedParts'
    <2>1. ASSUME NEW c \in 1..Len(returned)
          PROVE  /\ Reporting(c)' = Reporting(c)
                 /\ NoExit(c)' <=> NoExit(c)
                 /\ calls'[c] = calls[c]
      <3>1. \A d \in 1..c : d \in 1..Current
        BY <1>0, <1>3
      <3>2. \A d \in 1..(c - 1) : d \in 1..Current
        BY <1>0, <1>3
      <3>3. Reporting(c)' = Reporting(c)
        BY <1>1, <1>2, <3>2 DEF Reporting, Contains
      <3> QED BY <1>2, <1>3, <3>1, <3>3 DEF NoExit
    <2> QED BY <1>1, <2>1 DEF ReturnedParts, IsLatest
  <1> QED BY <1>8, <1>9, <1>10, <1>11, <1>12, <1>13

\* The request that has not been answered keeps the client's streams empty.
LEMMA HeaderUnanswered ==
  ASSUME client = "header", inbox["client"] # <<>> \/ wire["client"] # <<>>
  PROVE  ~Unanswered
  BY DEF Unanswered, Idle

\* The history when a call returns.
LEMMA ReturnKeeps ==
  ASSUME TypeOK, History, ReturnedParts, Current >= 1, Len(returned) < Current,
         NEW r \in Result, ReturnResult(r), UNCHANGED <<calls, log>>,
         r.of \in {Current, Error}, r.of # Error => Current \in Done,
         r.of # Error /\ r.ok =>
             /\ calls[Current] = "list" => r.big = Current
             /\ calls[Current] = "report" /\ NoExit(Current) => IsLatest(Current, r.text)
  PROVE  /\ History' /\ ReturnedParts'
         /\ client' = "ready" /\ Len(returned') = Current'
  <1>1. /\ returned \in Seq(Result) /\ Len(returned) \in Nat /\ Current \in Nat
    BY DEF TypeOK, Current
  <1>2. /\ returned' = Append(returned, r) /\ client' = "ready"
        /\ Len(returned') = Len(returned) + 1
        /\ \A i \in 1..Len(returned) : returned'[i] = returned[i]
        /\ returned'[Len(returned) + 1] = r
    BY <1>1, AppendProperties DEF ReturnResult
  <1>3. Len(returned) + 1 = Current
    BY <1>1 DEF History
  <1>4. Current' = Current /\ Done' = Done
    BY SameCalls
  <1>5. \A i \in 1..Len(returned') : i \in 1..Len(returned) \/ i = Current
    BY <1>1, <1>2, <1>3
  <1>6. History'
    BY <1>1, <1>2, <1>3, <1>4, <1>5 DEF History
  <1>7. ReturnedParts'
    <2>1. ASSUME NEW c
          PROVE  /\ Reporting(c)' = Reporting(c)
                 /\ NoExit(c)' <=> NoExit(c)
      BY DEF Reporting, NoExit, Contains
    <2>2. ASSUME NEW c \in 1..Len(returned'), returned'[c].of # Error, returned'[c].ok
          PROVE  /\ calls'[c] = "list" => returned'[c].big = c
                 /\ calls'[c] = "report" /\ NoExit(c) =>
                        /\ returned'[c].text \in Reporting(c)
                        /\ \A d \in Reporting(c) : d <= returned'[c].text
      <3>1. CASE c \in 1..Len(returned)
        BY <1>2, <2>2, <3>1 DEF ReturnedParts, IsLatest
      <3>2. CASE c = Current
        BY <1>2, <1>3, <2>2, <3>2 DEF IsLatest
      <3> QED BY <1>5, <3>1, <3>2
    <2> QED BY <2>1, <2>2 DEF ReturnedParts, IsLatest
  <1> QED BY <1>2, <1>3, <1>4, <1>6, <1>7

\* The client's steps leave the table and the server as they are.
LEMMA ClientLeavesTable ==
  ASSUME FirstIsFirst, NodeHolds, UNCHANGED <<calls, log, server, started, node>>,
         client' = "ready" /\ Current = 1 /\ server # "dead" => 1 \in Done
  PROVE  FirstIsFirst' /\ NodeHolds'
  <1>1. Current' = Current /\ Done' = Done /\ Held' = Held
    BY SameCalls
  <1> QED BY <1>1 DEF FirstIsFirst, NodeHolds

\* The client reads the length word of the reply to its call, or finds that the
\* server has gone.  No reply is longer than it announces unless it is a listing.
LEMMA ClientLengthKeeps ==
  ASSUME TypeInv, CallInv, ClientReceivesLength
  PROVE  CallInv'
  <1> USE DEF CallInv
  <1>0. /\ TypeOK /\ "client" \in Ends /\ Current \in Nat /\ Len(returned) \in Nat
        /\ Len(returned) < Current
    BY DEF TypeInv, TypeOK, Ends, ClientReceivesLength, CallIsOpen, Busy, Current
  <1>1. /\ client = "header" /\ len["client"] = 0
        /\ UNCHANGED <<calls, log, server, wire, buffer, len, started, dmsUp, node>>
    BY DEF ClientReceivesLength, dms, ClientStreams
  <1>2. /\ Current' = Current /\ Done' = Done /\ CurrentRequest' = CurrentRequest
        /\ Sent' = Sent /\ ReplyOf' = ReplyOf
    BY <1>1, SameCalls DEF Sent, ReplyOf
  <1>3. inbox["client"] # <<>> => Answered /\ ReplyArrived
    BY <1>1 DEF ClientStreams, ClientWaits, Idle, ReplyWaits
  <1>4. CASE /\ AtEnd("client") \/ OnlyLength("client")
             /\ inbox' = [inbox EXCEPT !["client"] = <<>>]
             /\ ReturnResult(Failure)
             /\ UNCHANGED want
    <2>1. AtEnd("client")
      <3>1. ASSUME OnlyLength("client") PROVE FALSE
        <4>1. Len(inbox["client"]) = 1
          BY <3>1 DEF OnlyLength
        <4>2. inbox["client"] = <<>> <=> Len(inbox["client"]) = 0
          BY <1>0, StreamTypes
        <4>3. Starts(inbox["client"], ReplyOf)
          BY <1>3, <4>1, <4>2 DEF ReplyArrived
        <4>4. Len(inbox["client"]) > 1
          BY <1>0, <4>3, LengthOfMessage
        <4> QED BY <4>1, <4>4
      <3> QED BY <1>4, <3>1
    <2>2. server = "dead" /\ wire["client"] = <<>> /\ inbox'["client"] = <<>>
      BY <1>0, <1>4, <2>1 DEF AtEnd, TypeOK
    <2>3. /\ History' /\ ReturnedParts'
          /\ client' = "ready" /\ Len(returned') = Current'
      <3>1. Failure \in Result /\ Failure.of = Error
        BY Results DEF Failure
      <3>2. Current >= 1
        BY <1>0
      <3> QED BY <1>0, <1>1, <1>4, <3>1, <3>2, ReturnKeeps
    <2>4. ServerStreams'
      BY <1>1, <2>2 DEF ServerStreams, ServerWaits, ServerReads, ServerProcesses,
         ServerReplies, ServerSends
    <2>5. ClientStreams'
      BY <1>1, <2>2, <2>3 DEF ClientStreams, ClientRests, ClientWaits, ClientReads,
         ClientReadsString, Idle
    <2>6. FirstIsFirst' /\ NodeHolds'
      BY <1>1, <2>2, ClientLeavesTable
    <2> QED BY <2>3, <2>4, <2>5, <2>6
  <1>5. CASE Len(inbox["client"]) > 1
    <2>1. inbox["client"] # <<>>
      BY <1>0, <1>5, StreamTypes
    <2>2. Answered /\ ReplyArrived /\ ~Unanswered
      BY <1>1, <1>3, <2>1, HeaderUnanswered
    <2>3. /\ Len(inbox["client"]) \in Nat /\ Head(inbox["client"]).n = BodyCells
          /\ Len(Tail(inbox["client"])) = Len(inbox["client"]) - 1
      BY <1>0, <2>2, LengthOfMessage DEF ReplyArrived
    <2>4. Last(calls) # "list" => ~BadLength("client")
      <3> SUFFICES ASSUME Last(calls) # "list" PROVE ~BadLength("client")
        OBVIOUS
      <3>1. ~ReplyOf.big
        BY <2>2 DEF Answered, ReplyMade, Current, Last
      <3>2. Sent = 0
        BY <3>1 DEF Sent
      <3> DEFINE a == Len(inbox["client"])
                 w == Len(wire["client"])
      <3>3. a + w <= BodyCells + 1 + Sent
        BY <2>2 DEF ReplyArrived
      <3>4. a \in Nat /\ w \in Nat /\ BodyCells \in Nat
        BY <1>0, StreamTypes, SessionAssumption
      <3>5. Len(Tail(inbox["client"])) = a - 1
        BY <2>3
      <3> HIDE DEF a, w
      <3>6. ~(a - 1 > BodyCells)
        BY <3>2, <3>3, <3>4
      <3> QED BY <2>3, <3>5, <3>6 DEF BadLength
    <2>5. /\ GetRecvLengthForBigMsg("client") \/ GetRecvLength("client")
          /\ client' = "body" /\ UNCHANGED returned
      <3>1. ~AtEnd("client")
        BY <2>1 DEF AtEnd
      <3>2. ~OnlyLength("client")
        <4> DEFINE a == Len(inbox["client"])
        <4>1. a > 1 /\ (OnlyLength("client") <=> a = 1)
          BY <1>5 DEF OnlyLength
        <4> HIDE DEF a
        <4> QED BY <4>1
      <3> QED BY <2>4, <3>1, <3>2 DEF ClientReceivesLength
    <2>6. /\ want' = [want EXCEPT !["client"] = BodyCells]
          /\ inbox' = [inbox EXCEPT !["client"] = Tail(@)]
      BY <2>3, <2>5 DEF GetRecvLength, GetRecvLengthForBigMsg
    <2>7. /\ Rest(inbox'["client"], ReplyOf)
          /\ Len(inbox'["client"]) = Len(inbox["client"]) - 1
      BY <1>0, <2>2, <2>6, LengthOfMessage DEF ReplyArrived
    <2>8. /\ want'["client"] = BodyCells /\ want'["server"] = want["server"]
          /\ inbox'["server"] = inbox["server"] /\ wire' = wire
      BY <1>0, <1>1, <2>6 DEF TypeOK, Ends
    <2>9. Answered'
      BY <1>1, <1>2, <2>2, <2>5, SameCalls DEF Answered
    <2>10. len'["client"] + Len(inbox'["client"]) + Len(wire'["client"]) <= BodyCells + Sent
      <3> DEFINE a == Len(inbox["client"])
                 w == Len(wire["client"])
      <3>1. /\ a \in Nat /\ w \in Nat /\ BodyCells \in Nat /\ Sent \in Nat
            /\ a + w <= BodyCells + 1 + Sent
        BY <1>0, <2>2, StreamTypes, SessionAssumption DEF ReplyArrived, Sent
      <3>2. Len(inbox'["client"]) = a - 1 /\ Len(wire'["client"]) = w
        BY <2>7, <2>8
      <3> HIDE DEF a, w
      <3>3. 0 + (a - 1) + w <= BodyCells + Sent
        BY <3>1
      <3> QED BY <1>1, <3>2, <3>3
    <2>11. ClientReads'
      BY <1>2, <2>2, <2>7, <2>8, <2>9, <2>10 DEF ClientReads, ReplyArrived
    <2>12. ClientStreams'
      BY <1>1, <2>5, <2>11 DEF ClientStreams, ClientRests, ClientWaits, ClientReadsString
    <2>13. ServerStreams'
      <3>1. server \in {"wait", "replyBig", "dead"}
        BY <2>2 DEF Answered
      <3>2. server = "wait" => Idle("server")
        BY <2>2 DEF ServerStreams, ServerWaits
      <3>3. Idle("server") => Idle("server")'
        BY <2>8 DEF Idle
      <3> QED BY <1>1, <1>2, <2>5, <3>1, <3>2, <3>3 DEF ServerStreams, ServerWaits, ServerReads,
              ServerProcesses, ServerReplies, ServerSends
    <2>14. History' /\ ReturnedParts'
      BY <1>1, <2>5, SameCalls
    <2>15. FirstIsFirst' /\ NodeHolds'
      BY <1>1, <2>5, ClientLeavesTable
    <2> QED BY <2>12, <2>13, <2>14, <2>15
  <1> QED BY <1>4, <1>5 DEF ClientReceivesLength, BadLength, GetRecvLength, GetRecvLengthForBigMsg

\* The body is read in the pieces it comes in, perhaps with the beginning of the
\* string; the call returns unless a string follows.
LEMMA ClientBodyKeeps ==
  ASSUME TypeInv, CallInv, ClientReceivesBody
  PROVE  CallInv'
  <1> USE DEF CallInv
  <1> DEFINE m == Head(inbox["client"]).msg
  <1>0. /\ TypeOK /\ "client" \in Ends /\ Current \in Nat /\ Len(returned) \in Nat
        /\ Len(returned) < Current
    BY DEF TypeInv, TypeOK, Ends, ClientReceivesBody, CallIsOpen, Busy, Current
  <1>1. /\ client = "body" /\ ReadSome("client")
        /\ buffer' = [buffer EXCEPT !["client"] = m]
        /\ IF Received("client") THEN Extracted(m)
                                 ELSE UNCHANGED <<client, returned, want>>
        /\ UNCHANGED <<calls, log, server, wire, started, dmsUp, node>>
    BY DEF ClientReceivesBody, dms
  <1>2. /\ Answered /\ ~Unanswered
        /\ Rest(inbox["client"], ReplyOf)
        /\ Rest(wire["client"], ReplyOf)
        /\ len["client"] + Len(inbox["client"]) + Len(wire["client"]) <= BodyCells + Sent
        /\ want["client"] = BodyCells
    BY <1>1 DEF ClientStreams, ClientReads, Unanswered
  <1>3. m = ReplyOf /\ Rest(inbox'["client"], ReplyOf)
    BY <1>0, <1>1, <1>2, RestRead
  <1>4. /\ inbox' \in [Ends -> Seq(Cell)] /\ inbox'["server"] = inbox["server"]
        /\ len'["server"] = len["server"]
    BY <1>0, <1>1, ReadTypes DEF Ends
  <1> HIDE DEF m
  <1>5. buffer'["client"] = ReplyOf /\ buffer'["server"] = buffer["server"]
    BY <1>0, <1>1, <1>3 DEF TypeOK, Ends
  <1>6. IF Received("client") THEN Extracted(ReplyOf)
                            ELSE UNCHANGED <<client, returned, want>>
    BY <1>1, <1>3
  <1>7. /\ Current' = Current /\ Done' = Done /\ CurrentRequest' = CurrentRequest
        /\ Sent' = Sent /\ ReplyOf' = ReplyOf /\ ReplyMade'
    BY <1>1, <1>2, <1>5, SameCalls DEF Sent, ReplyOf, Answered
  <1>8. /\ ~Received("client") =>
              len'["client"] + Len(inbox'["client"]) + Len(wire'["client"]) <= BodyCells + Sent
        /\ Received("client") =>
              /\ len'["client"] = 0
              /\ len'["client"] + Len(inbox'["client"]) + Len(wire'["client"]) <= Sent
    <2> DEFINE a == Len(inbox["client"])
               w == Len(wire["client"])
               l == len["client"]
               b == Len(inbox'["client"])
               v == Len(wire'["client"])
               k == len'["client"]
    <2>1. /\ b \in Nat /\ v \in Nat
          /\ ~Received("client") => k + b + v = l + a + w
          /\ Received("client") => k = 0 /\ BodyCells + b + v <= l + a + w
      BY <1>0, <1>1, <1>2, ReadCounts
    <2>2. /\ a \in Nat /\ w \in Nat /\ l \in Nat /\ BodyCells \in Nat /\ Sent \in Nat
          /\ l + a + w <= BodyCells + Sent
      BY <1>0, <1>2, StreamTypes, SessionAssumption DEF Sent
    <2> HIDE DEF a, w, l, b, v, k
    <2>3. /\ ~Received("client") => k + b + v <= BodyCells + Sent
          /\ Received("client") => k = 0 /\ k + b + v <= Sent
      BY <2>1, <2>2
    <2> QED BY <2>3 DEF b, v, k
  <1>9. /\ server \in {"wait", "replyBig", "dead"}
        /\ server = "wait" => Idle("server")
        /\ Idle("server") => Idle("server")'
    <2>1. server \in {"wait", "replyBig", "dead"}
      BY <1>2 DEF Answered
    <2>2. server = "wait" => Idle("server")
      BY <1>2 DEF ServerStreams, ServerWaits
    <2>3. Idle("server") => Idle("server")'
      BY <1>1, <1>4 DEF Idle
    <2> QED BY <2>1, <2>2, <2>3
  <1>10. ReplyOf \in Message /\ ReplyOf.call = Current /\ ReplyOf.kind = calls[Current]
         /\ (ReplyOf.big => ReplyOf.kind = "list")
    BY <1>0, <1>2, StreamTypes DEF Answered, ReplyMade, ReplyOf, Ends
  <1>11. CASE ~Received("client")
    <2>1. UNCHANGED <<client, returned, want>>
      BY <1>6, <1>11
    <2>2. Answered'
      BY <1>1, <1>2, <1>7, <2>1 DEF Answered
    <2>3. ClientStreams'
      BY <1>1, <1>2, <1>3, <1>7, <1>8, <1>11, <2>1, <2>2
         DEF ClientStreams, ClientRests, ClientWaits, ClientReads, ClientReadsString
    <2>4. ServerStreams'
      BY <1>1, <1>4, <1>7, <1>9, <2>1 DEF ServerStreams, ServerWaits, ServerReads,
              ServerProcesses, ServerReplies, ServerSends
    <2>5. History' /\ ReturnedParts'
      BY <1>1, <2>1, SameCalls
    <2>6. FirstIsFirst' /\ NodeHolds'
      BY <1>1, <2>1, ClientLeavesTable
    <2> QED BY <2>3, <2>4, <2>5, <2>6
  <1>12. CASE Received("client") /\ ReplyOf.kind = "list" /\ ReplyOf.big
    <2>1. /\ client' = "big" /\ want' = [want EXCEPT !["client"] = BigCells]
          /\ UNCHANGED returned
      BY <1>6, <1>12 DEF Extracted
    <2>2. want'["client"] = BigCells /\ want'["server"] = want["server"]
      BY <1>0, <2>1 DEF TypeOK, Ends
    <2>3. Answered'
      BY <1>1, <1>2, <1>7, <2>1 DEF Answered
    <2>4. ClientStreams'
      BY <1>1, <1>2, <1>3, <1>5, <1>7, <1>8, <1>12, <2>1, <2>2, <2>3
         DEF ClientStreams, ClientRests, ClientWaits, ClientReads, ClientReadsString
    <2>5. ServerStreams'
      BY <1>1, <1>4, <1>7, <1>9, <2>1 DEF ServerStreams, ServerWaits, ServerReads,
              ServerProcesses, ServerReplies, ServerSends
    <2>6. History' /\ ReturnedParts'
      BY <1>1, <2>1, SameCalls
    <2>7. FirstIsFirst' /\ NodeHolds'
      BY <1>1, <2>1, ClientLeavesTable
    <2> QED BY <2>4, <2>5, <2>6, <2>7
  <1>13. CASE Received("client") /\ ~(ReplyOf.kind = "list" /\ ReplyOf.big)
    <2> DEFINE r == IF ReplyOf.kind = "list" THEN Failure ELSE ResultOf(ReplyOf, 0)
    <2>1. ReturnResult(r) /\ UNCHANGED want
      BY <1>6, <1>13 DEF Extracted
    <2>2. /\ r \in Result /\ r.of \in {Current, Error}
          /\ r.of # Error /\ r.ok =>
               /\ calls[Current] = "list" => r.big = Current
               /\ calls[Current] = "report" /\ NoExit(Current) => IsLatest(Current, r.text)
      <3>1. CASE ReplyOf.kind = "list"
        BY <3>1, Results DEF Failure
      <3>2. CASE ReplyOf.kind # "list"
        <4>1. r = ResultOf(ReplyOf, 0)
          BY <3>2
        <4>2. /\ r.of = Current /\ r.ok = ReplyOf.ok /\ r.text = ReplyOf.text
          BY <1>10, <4>1 DEF ResultOf
        <4>3. r \in Result
          BY <1>10, <4>1, Results, SessionAssumption
        <4> HIDE DEF r
        <4> QED BY <1>2, <1>10, <3>2, <4>2, <4>3 DEF Answered, ReplyMade
      <3> QED BY <3>1, <3>2
    <2> HIDE DEF r
    <2>3. /\ History' /\ ReturnedParts'
          /\ client' = "ready" /\ Len(returned') = Current'
      <3>1. Current >= 1 /\ Current \in Done
        BY <1>2 DEF Answered
      <3> QED BY <1>0, <1>1, <2>1, <2>2, <3>1, ReturnKeeps
    <2>4. Idle("client")' /\ server \in {"wait", "dead"}
      <3>1. ~ReplyOf.big
        BY <1>10, <1>13
      <3>2. Sent = 0
        BY <3>1 DEF Sent
      <3>3. Len(inbox'["client"]) = 0 /\ Len(wire'["client"]) = 0
        <4> DEFINE a == Len(inbox'["client"])
                   w == Len(wire'["client"])
        <4>1. a \in Nat /\ w \in Nat
          <5>1. inbox'["client"] \in Seq(Cell) /\ wire'["client"] \in Seq(Cell)
            BY <1>0, <1>1, <1>4 DEF TypeOK
          <5> QED BY <5>1, LenProperties
        <4>2. 0 + a + w <= 0
          BY <1>8, <1>13, <3>2
        <4> HIDE DEF a, w
        <4>3. a = 0 /\ w = 0
          BY <4>1, <4>2
        <4> QED BY <4>3 DEF a, w
      <3>4. inbox'["client"] = <<>> /\ wire'["client"] = <<>>
        <4>1. inbox'["client"] \in Seq(Cell) /\ wire'["client"] \in Seq(Cell)
          BY <1>0, <1>1, <1>4 DEF TypeOK
        <4> QED BY <3>3, <4>1, EmptyOrNot
      <3>5. server # "replyBig"
        BY <3>1 DEF ServerStreams, ServerSends
      <3> QED BY <1>9, <3>4, <3>5 DEF Idle
    <2>5. ClientStreams'
      BY <1>1, <1>8, <1>9, <1>13, <2>3, <2>4
         DEF ClientStreams, ClientRests, ClientWaits, ClientReads, ClientReadsString
    <2>6. ServerStreams'
      BY <1>1, <1>4, <1>7, <1>9, <2>4 DEF ServerStreams, ServerWaits, ServerReads,
              ServerProcesses, ServerReplies, ServerSends
    <2>7. FirstIsFirst' /\ NodeHolds'
      <3>1. Current = 1 => 1 \in Done
        BY <1>2 DEF Answered
      <3> QED BY <1>1, <3>1, ClientLeavesTable
    <2> QED BY <2>3, <2>5, <2>6, <2>7
  <1> QED BY <1>11, <1>12, <1>13

\* The string is read in the pieces it comes in, and no more than the string.
LEMMA ClientBigKeeps ==
  ASSUME TypeInv, CallInv, ClientReceivesBig
  PROVE  CallInv'
  <1> USE DEF CallInv
  <1> DEFINE r == ResultOf(buffer["client"], Head(inbox["client"]).msg.call)
  <1>0. /\ TypeOK /\ "client" \in Ends /\ Current \in Nat /\ Len(returned) \in Nat
        /\ Len(returned) < Current
    BY DEF TypeInv, TypeOK, Ends, ClientReceivesBig, CallIsOpen, Busy, Current
  <1>1. /\ client = "big" /\ ReadSome("client")
        /\ IF Received("client") THEN ReturnResult(r)
                                 ELSE UNCHANGED <<client, returned>>
        /\ UNCHANGED <<calls, log, server, wire, buffer, want, started, dmsUp, node>>
    BY DEF ClientReceivesBig, dms
  <1>2. /\ Answered /\ ~Unanswered
        /\ ReplyOf.big /\ buffer["client"] = ReplyOf
        /\ Rest(inbox["client"], ReplyOf)
        /\ Rest(wire["client"], ReplyOf)
        /\ len["client"] + Len(inbox["client"]) + Len(wire["client"]) <= Sent
        /\ want["client"] = BigCells
    BY <1>1 DEF ClientStreams, ClientReadsString, Unanswered
  <1>3. /\ Head(inbox["client"]).msg = ReplyOf
        /\ Rest(inbox'["client"], ReplyOf)
    BY <1>0, <1>1, <1>2, RestRead
  <1>4. /\ inbox' \in [Ends -> Seq(Cell)] /\ inbox'["server"] = inbox["server"]
        /\ len'["server"] = len["server"]
        /\ Taken("client") \in 0..Len(inbox["client"])
        /\ Len(inbox'["client"]) = Len(inbox["client"]) - Taken("client")
        /\ len'["client"] = IF len["client"] + Taken("client") >= want["client"]
                            THEN 0 ELSE len["client"] + Taken("client")
    BY <1>0, <1>1, ReadTypes DEF Ends
  <1>5. ReplyOf \in Message /\ ReplyOf.call = Current /\ ReplyOf.kind = calls[Current]
        /\ ReplyOf.kind = "list"
    BY <1>0, <1>2, StreamTypes DEF Answered, ReplyMade, ReplyOf, Ends
  <1>6. r = ResultOf(ReplyOf, Current)
    BY <1>2, <1>3, <1>5
  <1> HIDE DEF r
  <1>7. /\ Current' = Current /\ Done' = Done /\ CurrentRequest' = CurrentRequest
        /\ Sent' = Sent /\ ReplyOf' = ReplyOf /\ ReplyMade'
    BY <1>1, <1>2, SameCalls DEF Sent, ReplyOf, Answered
  <1>8. /\ server \in {"wait", "replyBig", "dead"}
        /\ server = "wait" => Idle("server")
        /\ Idle("server") => Idle("server")'
    <2>1. server \in {"wait", "replyBig", "dead"}
      BY <1>2 DEF Answered
    <2>2. server = "wait" => Idle("server")
      BY <1>2 DEF ServerStreams, ServerWaits
    <2>3. Idle("server") => Idle("server")'
      BY <1>1, <1>4 DEF Idle
    <2> QED BY <2>1, <2>2, <2>3
  <1> DEFINE a == Len(inbox["client"])
             w == Len(wire["client"])
             l == len["client"]
             t == Taken("client")
  <1>9. /\ a \in Nat /\ w \in Nat /\ l \in Nat /\ t \in 0..a
        /\ BigCells \in Nat \ {0} /\ Sent \in {0, BigCells}
        /\ l + a + w <= Sent
        /\ Len(inbox'["client"]) = a - t /\ Len(wire'["client"]) = w
        /\ len'["client"] = IF l + t >= BigCells THEN 0 ELSE l + t
        /\ (Received("client") <=> l + t >= BigCells)
    <2>1. a \in Nat /\ w \in Nat /\ l \in Nat
      BY <1>0, StreamTypes
    <2>2. BigCells \in Nat \ {0} /\ Sent \in {0, BigCells}
      BY SessionAssumption DEF Sent
    <2> QED BY <1>1, <1>2, <1>4, <2>1, <2>2 DEF Received
  <1> HIDE DEF a, w, l, t
  <1>10. CASE ~Received("client")
    <2>1. UNCHANGED <<client, returned>>
      BY <1>1, <1>10
    <2>2. len'["client"] + Len(inbox'["client"]) + Len(wire'["client"]) <= Sent
      <3>1. (l + t) + (a - t) + w <= Sent
        BY <1>9
      <3> QED BY <1>9, <1>10, <3>1
    <2>3. Answered'
      BY <1>1, <1>2, <1>7, <2>1 DEF Answered
    <2>4. ClientStreams'
      BY <1>1, <1>2, <1>3, <1>7, <2>1, <2>2, <2>3
         DEF ClientStreams, ClientRests, ClientWaits, ClientReads, ClientReadsString
    <2>5. ServerStreams'
      BY <1>1, <1>4, <1>7, <1>8, <2>1 DEF ServerStreams, ServerWaits, ServerReads,
              ServerProcesses, ServerReplies, ServerSends
    <2>6. History' /\ ReturnedParts'
      BY <1>1, <2>1, SameCalls
    <2>7. FirstIsFirst' /\ NodeHolds'
      BY <1>1, <2>1, ClientLeavesTable
    <2> QED BY <2>4, <2>5, <2>6, <2>7
  <1>11. CASE Received("client")
    <2>1. ReturnResult(r)
      BY <1>1, <1>11
    <2>2. /\ r \in Result /\ r.of = Current /\ r.big = Current
      <3>1. Current \in 0..MaxCalls
        BY <1>0 DEF TypeOK, Current
      <3> QED BY <1>5, <1>6, <3>1, Results DEF ResultOf
    <2>3. /\ History' /\ ReturnedParts'
          /\ client' = "ready" /\ Len(returned') = Current'
      <3>1. Current >= 1 /\ Current \in Done /\ calls[Current] = "list"
        BY <1>2, <1>5 DEF Answered
      <3> QED BY <1>0, <1>1, <2>1, <2>2, <3>1, ReturnKeeps
    <2>4. Sent = BigCells /\ len'["client"] = 0 /\ a - t = 0 /\ w = 0
      BY <1>9, <1>11
    <2>5. server # "replyBig"
      <3>1. Sent # 0
        BY <1>9, <2>4
      <3> QED BY <3>1 DEF Sent
    <2>6. Idle("client")'
      <3>1. inbox'["client"] \in Seq(Cell) /\ wire'["client"] \in Seq(Cell)
        BY <1>0, <1>1, <1>4 DEF TypeOK
      <3>2. Len(inbox'["client"]) = 0 /\ Len(wire'["client"]) = 0
        BY <1>9, <2>4
      <3> QED BY <3>1, <3>2, EmptyOrNot DEF Idle
    <2>7. ClientStreams'
      BY <1>1, <1>8, <2>3, <2>4, <2>5, <2>6
         DEF ClientStreams, ClientRests, ClientWaits, ClientReads, ClientReadsString
    <2>8. ServerStreams'
      BY <1>1, <1>4, <1>7, <1>8, <2>5 DEF ServerStreams, ServerWaits, ServerReads,
              ServerProcesses, ServerReplies, ServerSends
    <2>9. FirstIsFirst' /\ NodeHolds'
      <3>1. Current = 1 => 1 \in Done
        BY <1>2 DEF Answered
      <3> QED BY <1>1, <3>1, ClientLeavesTable
    <2> QED BY <2>3, <2>7, <2>8, <2>9
  <1> QED BY <1>10, <1>11

\* The application ends with its call unanswered, or with none.
LEMMA ClientGoesKeeps ==
  ASSUME CallInv, ClientGoes
  PROVE  CallInv'
  <1> USE DEF CallInv
  <1>1. /\ client' = "gone"
        /\ UNCHANGED <<calls, returned, log, server, wire, inbox, buffer, want,
                       len, started, dmsUp, node>>
    BY DEF ClientGoes, dms, streams
  <1>2. /\ Current' = Current /\ Done' = Done /\ CurrentRequest' = CurrentRequest
        /\ ReplyOf' = ReplyOf /\ (ReplyMade => ReplyMade') /\ History' /\ ReturnedParts'
    BY <1>1, SameCalls DEF ReplyOf
  <1>3. /\ Unanswered => Unanswered'
        /\ Idle("server") => Idle("server")'
        /\ RequestComes => RequestComes'
    BY <1>1, <1>2 DEF Unanswered, Idle, RequestComes
  <1>4. ServerStreams'
    BY <1>1, <1>2, <1>3 DEF ServerStreams, ServerWaits, ServerReads, ServerProcesses,
       ServerReplies, ServerSends
  <1>5. ClientStreams'
    BY <1>1 DEF ClientStreams, ClientRests, ClientWaits, ClientReads, ClientReadsString
  <1>6. FirstIsFirst' /\ NodeHolds'
    BY <1>1, ClientLeavesTable
  <1> QED BY <1>2, <1>4, <1>5, <1>6

\* Of a server that waits, either nothing is on its way to it or one request, of
\* a call no handler has executed.
LEMMA ServerLengthKeeps ==
  ASSUME TypeInv, CallInv, ServerReceivesLength
  PROVE  CallInv'
  <1> USE DEF CallInv
  <1>0. TypeOK /\ "server" \in Ends /\ Current \in Nat
    BY DEF TypeInv, TypeOK, Ends, Current
  <1>1. /\ server = "wait" /\ len["server"] = 0
        /\ UNCHANGED <<calls, returned, log, client, wire, buffer, len, started, dmsUp, node>>
    BY DEF ServerReceivesLength, dms, ServerStreams
  <1>2. /\ Current' = Current /\ Done' = Done /\ CurrentRequest' = CurrentRequest
        /\ ReplyOf' = ReplyOf /\ (ReplyMade => ReplyMade') /\ History' /\ ReturnedParts'
    BY <1>1, SameCalls DEF ReplyOf
  <1>3. CASE /\ AtEnd("server") \/ OnlyLength("server")
             /\ inbox' = [inbox EXCEPT !["server"] = <<>>]
             /\ server' = "dead"
             /\ UNCHANGED want
    <2>1. inbox'["client"] = inbox["client"]
      BY <1>0, <1>3 DEF TypeOK, Ends
    <2>2. ServerStreams' /\ FirstIsFirst' /\ NodeHolds'
      BY <1>3 DEF ServerStreams, ServerWaits, ServerReads, ServerProcesses, ServerReplies,
         ServerSends, FirstIsFirst, NodeHolds
    <2>3. Sent' = Sent /\ (Answered => Answered') /\ (Idle("client") => Idle("client")')
          /\ (ReplyArrived => ReplyArrived') /\ (ReplyWaits => ReplyWaits')
      BY <1>1, <1>2, <1>3, <2>1 DEF Sent, Answered, Idle, ReplyArrived, ReplyWaits
    <2>4. ClientStreams'
      BY <1>1, <1>2, <1>3, <2>1, <2>3 DEF ClientStreams, ClientRests, ClientWaits, ClientReads,
         ClientReadsString
    <2> QED BY <1>2, <2>2, <2>4
  <1>4. CASE Len(inbox["server"]) > 1
    <2>1. inbox["server"] # <<>>
      BY <1>0, <1>4, StreamTypes
    <2>2. /\ Unanswered /\ Current \notin Done
          /\ Starts(inbox["server"], CurrentRequest) /\ Rest(wire["server"], CurrentRequest)
          /\ Len(inbox["server"]) + Len(wire["server"]) = BodyCells + 1
      BY <1>1, <2>1 DEF ServerStreams, ServerWaits, Idle, RequestComes
    <2>3. /\ Head(inbox["server"]).n = BodyCells
          /\ Len(Tail(inbox["server"])) = Len(inbox["server"]) - 1
          /\ inbox' = [inbox EXCEPT !["server"] = Tail(@)] =>
                 /\ Rest(inbox'["server"], CurrentRequest)
                 /\ Len(inbox'["server"]) = Len(inbox["server"]) - 1
      BY <1>0, <2>2, LengthOfMessage
    <2>4. /\ Len(inbox["server"]) - 1 <= BodyCells
          /\ 0 + (Len(inbox["server"]) - 1) + Len(wire["server"]) = BodyCells
      <3> DEFINE a == Len(inbox["server"])
                 w == Len(wire["server"])
      <3>1. a \in Nat /\ w \in Nat /\ BodyCells \in Nat /\ a + w = BodyCells + 1
        BY <1>0, <2>2, StreamTypes, SessionAssumption
      <3> HIDE DEF a, w
      <3>2. a - 1 <= BodyCells /\ 0 + (a - 1) + w = BodyCells
        BY <3>1
      <3> QED BY <3>2 DEF a, w
    <2>5. ~BadLength("server")
      <3> DEFINE b == Len(inbox["server"]) - 1
      <3>1. b <= BodyCells /\ b \in Int /\ BodyCells \in Nat
        BY <1>0, <2>4, StreamTypes, SessionAssumption
      <3>2. Len(Tail(inbox["server"])) = b
        BY <2>3
      <3> HIDE DEF b
      <3>3. ~(b > BodyCells)
        BY <3>1
      <3> QED BY <2>3, <3>2, <3>3 DEF BadLength
    <2>6. ~AtEnd("server") /\ ~OnlyLength("server")
      <3> DEFINE a == Len(inbox["server"])
      <3>1. a > 1 /\ (OnlyLength("server") <=> a = 1)
        BY <1>4 DEF OnlyLength
      <3> HIDE DEF a
      <3>2. ~OnlyLength("server")
        BY <3>1
      <3> QED BY <2>1, <3>2 DEF AtEnd
    <2>7. GetRecvLength("server") /\ server' = "body"
      BY <2>5, <2>6 DEF ServerReceivesLength
    <2>8. /\ want' = [want EXCEPT !["server"] = BodyCells]
          /\ inbox' = [inbox EXCEPT !["server"] = Tail(@)]
      BY <2>3, <2>7 DEF GetRecvLength
    <2>9. /\ want'["server"] = BodyCells /\ want'["client"] = want["client"]
          /\ inbox'["client"] = inbox["client"]
          /\ Rest(inbox'["server"], CurrentRequest) /\ Rest(wire'["server"], CurrentRequest)
          /\ len'["server"] + Len(inbox'["server"]) + Len(wire'["server"]) = BodyCells
      BY <1>0, <1>1, <2>2, <2>3, <2>4, <2>8 DEF TypeOK, Ends
    <2>10. Unanswered'
      BY <1>1, <1>2, <2>2, <2>9 DEF Unanswered, Idle
    <2>11. ServerStreams'
      BY <1>1, <1>2, <2>2, <2>7, <2>9, <2>10 DEF ServerStreams, ServerWaits, ServerReads,
         ServerProcesses, ServerReplies, ServerSends
    <2>12. ClientStreams'
      BY <1>1, <2>2, <2>9 DEF ClientStreams, ClientRests, ClientWaits, ClientReads,
         ClientReadsString, Unanswered, Idle
    <2>13. FirstIsFirst' /\ NodeHolds'
      <3>1. Held' = Held
        BY <1>1, SameCalls
      <3> QED BY <1>1, <1>2, <2>7, <3>1 DEF FirstIsFirst, NodeHolds
    <2> QED BY <1>2, <2>11, <2>12, <2>13
  <1> QED BY <1>3, <1>4 DEF ServerReceivesLength, BadLength, GetRecvLength

\* The server reads the request in the pieces it comes in.
LEMMA ServerBodyKeeps ==
  ASSUME TypeInv, CallInv, ServerReceivesBody
  PROVE  CallInv'
  <1> USE DEF CallInv
  <1> DEFINE m == Head(inbox["server"]).msg
  <1>0. TypeOK /\ "server" \in Ends /\ Current \in Nat /\ BodyCells \in Nat
    BY SessionAssumption DEF TypeInv, TypeOK, Ends, Current
  <1>1. /\ server = "body" /\ ReadSome("server")
        /\ buffer' = [buffer EXCEPT !["server"] = m]
        /\ server' = IF Received("server") THEN "process" ELSE "body"
        /\ UNCHANGED <<calls, returned, log, client, wire, want, started, dmsUp, node>>
    BY DEF ServerReceivesBody, dms
  <1>2. /\ Unanswered /\ Current \notin Done
        /\ Rest(inbox["server"], CurrentRequest) /\ Rest(wire["server"], CurrentRequest)
        /\ len["server"] + Len(inbox["server"]) + Len(wire["server"]) = BodyCells
        /\ want["server"] = BodyCells
    BY <1>1 DEF ServerStreams, ServerReads
  <1>3. m = CurrentRequest /\ Rest(inbox'["server"], CurrentRequest)
    BY <1>0, <1>1, <1>2, RestRead
  <1>4. /\ inbox' \in [Ends -> Seq(Cell)] /\ inbox'["client"] = inbox["client"]
        /\ len'["client"] = len["client"]
    BY <1>0, <1>1, ReadTypes DEF Ends
  <1> HIDE DEF m
  <1>5. buffer'["server"] = CurrentRequest
    BY <1>0, <1>1, <1>3 DEF TypeOK
  <1>6. /\ ~Received("server") =>
              len'["server"] + Len(inbox'["server"]) + Len(wire'["server"]) = BodyCells
        /\ Received("server") => len'["server"] = 0 /\ Idle("server")'
    <2> DEFINE b == Len(inbox'["server"])
               v == Len(wire'["server"])
    <2>1. /\ b \in Nat /\ v \in Nat
          /\ ~Received("server") => len'["server"] + b + v = BodyCells
          /\ Received("server") => len'["server"] = 0 /\ BodyCells + b + v <= BodyCells
      BY <1>0, <1>1, <1>2, ReadCounts
    <2> HIDE DEF b, v
    <2>2. Received("server") => b = 0 /\ v = 0
      BY <1>0, <2>1
    <2>3. inbox'["server"] \in Seq(Cell) /\ wire'["server"] \in Seq(Cell)
      BY <1>0, <1>1, <1>4 DEF TypeOK
    <2>4. Received("server") => Idle("server")'
      BY <2>2, <2>3, EmptyOrNot DEF Idle, b, v
    <2> QED BY <2>1, <2>4 DEF b, v
  <1>7. /\ Current' = Current /\ Done' = Done /\ CurrentRequest' = CurrentRequest
        /\ Held' = Held /\ History' /\ ReturnedParts'
    BY <1>1, SameCalls
  <1>8. Unanswered'
    BY <1>1, <1>2, <1>4, <1>7 DEF Unanswered, Idle
  <1>9. ServerStreams'
    BY <1>1, <1>2, <1>3, <1>5, <1>6, <1>7, <1>8 DEF ServerStreams, ServerWaits, ServerReads,
       ServerProcesses, ServerReplies, ServerSends
  <1>10. ClientStreams'
    BY <1>1, <1>2, <1>4 DEF ClientStreams, ClientRests, ClientWaits, ClientReads,
       ClientReadsString, Unanswered, Idle
  <1>11. FirstIsFirst' /\ NodeHolds'
    BY <1>1, <1>7 DEF FirstIsFirst, NodeHolds
  <1> QED BY <1>7, <1>9, <1>10, <1>11

\* The calls executed, and those whose message a report may show, when a
\* handler has executed the current one.
LEMMA ProcessLogs ==
  ASSUME TypeOK, History, Current >= 1, buffer["server"] = CurrentRequest,
         log' = Append(log, buffer["server"].call), UNCHANGED calls
  PROVE  /\ Current' = Current /\ Done' = Done \cup {Current}
         /\ \A d : Contains(log', d) <=> Contains(log, d) \/ d = Current
         /\ \A d \in Done : d \in 1..Current
  <1>1. /\ log \in Seq(1..MaxCalls) /\ Len(log) \in Nat /\ Current \in Nat
        /\ MaxCalls \in Nat /\ Current \in 1..MaxCalls
    BY SessionAssumption DEF TypeOK, Current
  <1>2. buffer["server"].call = Current
    BY DEF CurrentRequest, Request
  <1>3. /\ Len(log') = Len(log) + 1
        /\ \A i \in 1..Len(log) : log'[i] = log[i]
        /\ log'[Len(log) + 1] = Current
    BY <1>1, <1>2, AppendProperties
  <1>4. \A i : i \in 1..Len(log') <=> i \in 1..Len(log) \/ i = Len(log) + 1
    BY <1>1, <1>3
  <1>5. Done' = Done \cup {Current}
    <2>1. \A d : d \in Done' <=> \E i \in 1..Len(log') : log'[i] = d
      BY DEF Done
    <2>2. \A d : d \in Done <=> \E i \in 1..Len(log) : log[i] = d
      BY DEF Done
    <2>3. \A d : d \in Done' <=> d \in Done \/ d = Current
      BY <1>3, <1>4, <2>1, <2>2
    <2> QED BY <2>3 DEF Done
  <1>6. \A d : Contains(log', d) <=> Contains(log, d) \/ d = Current
    BY <1>3, <1>4 DEF Contains
  <1>7. \A d \in Done : d \in 1..Current
    <2>1. \A d \in Done : d <= Current /\ d \in 1..MaxCalls
      BY DoneIsLogged DEF History
    <2> QED BY <1>1, <2>1
  <1>8. Current' = Current
    BY DEF Current
  <1> QED BY <1>5, <1>6, <1>7, <1>8

\* A handler makes the reply to the current call: the report message it shows or
\* sets is that of the last operation.
LEMMA ProcessKeeps ==
  ASSUME TypeInv, CallInv, ProcessMsg
  PROVE  CallInv'
  <1> USE DEF CallInv
  <1> DEFINE m == buffer["server"]
  <1>0. /\ TypeOK /\ "server" \in Ends /\ Current \in Nat /\ Len(returned) \in Nat
        /\ NoNode \notin Nat
    BY SessionAssumption DEF TypeInv, TypeOK, Ends, Current
  <1>1. /\ server = "process" /\ len["server"] = 0
        /\ log' = Append(log, m.call)
        /\ server' = IF started THEN "reply" ELSE "init"
        /\ UNCHANGED <<calls, returned, client, wire, inbox, want, len, started, dmsUp>>
    BY DEF ProcessMsg, streams, ServerStreams
  <1>2. /\ Unanswered /\ Current \notin Done /\ Idle("server") /\ m = CurrentRequest
        /\ Current >= 1 /\ Len(returned) < Current
    BY <1>1 DEF ServerStreams, ServerProcesses, Unanswered
  <1>3. /\ m.call = Current /\ m.kind = calls[Current] /\ m.ok = TRUE
        /\ m.text = Blank /\ m.big = FALSE
    BY <1>2 DEF CurrentRequest, Request
  <1>4. m \in Message /\ IsRequest(m)
    BY <1>0, <1>1, StreamTypes DEF TypeInv, ServerKnowsCall
  <1>5. /\ buffer' \in [Ends -> Message]
        /\ buffer'["server"].call = m.call
        /\ buffer'["server"].kind = m.kind
    BY <1>0, <1>1, <1>4, Handled
  <1>6. /\ Current' = Current /\ Done' = Done \cup {Current}
        /\ \A d : Contains(log', d) <=> Contains(log, d) \/ d = Current
        /\ \A d \in Done : d \in 1..Current
    BY <1>0, <1>1, <1>2, ProcessLogs
  <1>7. \A c \in 1..Current : Reporting(c)' = Reporting(c)
    <2>1. ASSUME NEW c \in 1..Current PROVE Reporting(c)' = Reporting(c)
      <3>1. \A d \in 1..(c - 1) : d # Current
        BY <1>0
      <3>2. \A d \in 1..(c - 1) : Contains(log', d) <=> Contains(log, d)
        BY <1>6, <3>1
      <3> QED BY <1>1, <3>2 DEF Reporting
    <2> QED BY <2>1
  <1>8. Reporting(Current) = Held
    <2>1. \A d : d \in 1..(Current - 1) /\ Contains(log, d) <=> d \in 1..Current /\ d \in Done
      <3>1. \A d : Contains(log, d) <=> d \in Done
        BY <1>0, DoneIsLogged
      <3>2. \A d \in 1..Current : d # Current <=> d \in 1..(Current - 1)
        BY <1>0
      <3>3. \A d \in 1..(Current - 1) : d \in 1..Current
        BY <1>0
      <3> QED BY <1>2, <3>1, <3>2, <3>3
    <2> QED BY <2>1 DEF Reporting, Held
  \* What the node holds before the call, when no exit has been executed.
  <1>9. ASSUME \A d \in 1..Current : d \in Done => calls[d] # "exit"
        PROVE  IF 1 \in Done THEN node \in Held /\ \A d \in Held : d <= node
                             ELSE node = NoNode
    BY <1>1, <1>9 DEF NodeHolds
  <1>10. Current = 1 <=> 1 \notin Done
    <2>1. Current >= 2 => 1 \in Done
      BY <1>1 DEF FirstIsFirst
    <2>2. Current = 1 \/ Current >= 2
      BY <1>0, <1>2
    <2> QED BY <1>2, <2>1, <2>2
  <1>11. started <=> 1 \in Done
    BY <1>1 DEF FirstIsFirst
  <1>12. \/ m.kind = "init" /\ intersInit(m)
         \/ m.kind = "cell" /\ CellOperation(m)
         \/ m.kind = "list" /\ Listing(m)
         \/ m.kind = "report" /\ report(m)
         \/ m.kind = "exit" /\ intersExit(m)
    BY DEF ProcessMsg
  <1>13. Current = 1 => m.kind = "init"
    BY <1>3 DEF History
  <1>14. ReplyMade'
    <2>1. buffer'["server"].big => buffer'["server"].kind = "list"
      <3>1. CASE Listing(m) /\ m.kind = "list"
        BY <1>5, <3>1
      <3>2. CASE ~(Listing(m) /\ m.kind = "list")
        <4>1. \/ \E ok \in BOOLEAN : buffer' = [buffer EXCEPT !["server"] = [m EXCEPT !.ok = ok]]
              \/ buffer' = [buffer EXCEPT !["server"] = [m EXCEPT !.text = node]]
          <5>1. CASE intersInit(m)
            BY <5>1 DEF intersInit
          <5>2. CASE CellOperation(m)
            BY <5>2 DEF CellOperation
          <5>3. CASE report(m)
            BY <5>3 DEF report
          <5>4. CASE intersExit(m)
            BY <5>4 DEF intersExit
          <5> QED BY <1>12, <3>2, <5>1, <5>2, <5>3, <5>4
        <4>2. buffer'["server"].big = m.big
          BY <1>0, <1>4, <4>1 DEF TypeOK, Message
        <4> QED BY <1>3, <4>2
      <3> QED BY <3>1, <3>2
    <2>2. ASSUME buffer'["server"].kind = "report", buffer'["server"].ok, NoExit(Current)
          PROVE  buffer'["server"].text \in Held
                 /\ \A d \in Held : d <= buffer'["server"].text
      <3>1. m.kind = "report" /\ report(m)
        BY <1>5, <1>12, <2>2
      <3>2. node # NoNode
        <4>1. ASSUME node = NoNode PROVE FALSE
          <5>1. buffer' = [buffer EXCEPT !["server"] = [m EXCEPT !.ok = FALSE]]
            BY <3>1, <4>1 DEF report
          <5>2. buffer'["server"].ok = FALSE
            BY <1>0, <1>4, <5>1 DEF TypeOK, Message
          <5> QED BY <2>2, <5>2
        <4> QED BY <4>1
      <3>3. buffer'["server"].text = node
        <4>1. buffer' = [buffer EXCEPT !["server"] = [m EXCEPT !.text = node]]
          BY <3>1, <3>2 DEF report
        <4> QED BY <1>0, <1>4, <4>1 DEF TypeOK, Message
      <3>4. Current # 1
        BY <1>13, <3>1
      <3>5. \A d \in 1..Current : d \in Done => calls[d] # "exit"
        BY <2>2 DEF NoExit
      <3> QED BY <1>9, <1>10, <3>3, <3>4, <3>5
    <2>3. Reporting(Current)' = Held
      <3>1. Current \in 1..Current
        BY <1>0, <1>2
      <3>2. PICK c \in 1..Current : c = Current
        BY <3>1
      <3>3. Reporting(c)' = Reporting(c)
        BY <1>7
      <3>4. Reporting(Current)' = Reporting(c)'
        BY <1>6, <3>2 DEF Reporting
      <3>5. Reporting(Current) = Reporting(c)
        BY <3>2
      <3> QED BY <1>8, <3>3, <3>4, <3>5
    <2>4. NoExit(Current)' <=> NoExit(Current)
      BY <1>1, <1>6 DEF NoExit
    <2> QED BY <1>1, <1>3, <1>5, <1>6, <2>1, <2>2, <2>3, <2>4
        DEF ReplyMade, ReplyOf, IsLatest, NoExit
  <1>15. Unanswered' /\ Current' \in Done' /\ Idle("server")'
    BY <1>1, <1>2, <1>6 DEF Unanswered, Idle
  <1>16. ServerStreams'
    BY <1>1, <1>14, <1>15 DEF ServerStreams, ServerWaits, ServerReads, ServerProcesses,
       ServerReplies, ServerSends
  <1>17. ClientStreams'
    BY <1>1, <1>2 DEF ClientStreams, ClientRests, ClientWaits, ClientReads,
       ClientReadsString, Unanswered, Idle
  <1>18. History'
    <2>1. \A d \in Done' : d <= Current'
      BY <1>0, <1>6
    <2> QED BY <1>1, <1>6, <2>1 DEF History
  <1>19. FirstIsFirst'
    <2>1. CASE Current = 1
      <3>1. ~started /\ server' = "init" /\ 1 \in Done'
        BY <1>1, <1>6, <1>10, <1>11, <2>1
      <3> QED BY <1>1, <1>6, <2>1, <3>1 DEF FirstIsFirst
    <2>2. CASE Current # 1
      <3>1. started /\ server' = "reply" /\ 1 \in Done'
        BY <1>1, <1>6, <1>10, <1>11, <2>2
      <3> QED BY <1>1, <3>1 DEF FirstIsFirst
    <2> QED BY <2>1, <2>2
  <1>20. NodeHolds'
    <2> SUFFICES ASSUME \A d \in 1..Current' : d \in Done' => calls'[d] # "exit"
                 PROVE  IF server' = "init" THEN node' = Blank
                        ELSE IF 1 \in Done' THEN node' \in Held' /\ \A d \in Held' : d <= node'
                        ELSE node' = NoNode
      BY DEF NodeHolds
    <2>1. \A d \in 1..Current : d \in Done => calls[d] # "exit"
      BY <1>1, <1>6
    <2>2. m.kind # "exit"
      <3>1. Current \in 1..Current' /\ Current \in Done'
        BY <1>0, <1>2, <1>6
      <3> QED BY <1>1, <1>3, <3>1
    <2>3. CASE Current = 1
      <3>1. node = NoNode /\ ~started
        BY <1>9, <1>10, <1>11, <2>1, <2>3
      <3>2. intersInit(m)
        BY <1>12, <1>13, <2>3
      <3> QED BY <1>1, <3>1, <3>2 DEF intersInit
    <2>4. CASE Current # 1
      <3>1. node \in Held /\ (\A d \in Held : d <= node) /\ 1 \in Done'
        BY <1>6, <1>9, <1>10, <2>1, <2>4
      <3>2. node # NoNode
        <4>1. node \in Nat
          BY <1>0, <3>1 DEF Held
        <4> QED BY <1>0, <4>1
      <3>3. server' = "reply"
        BY <1>1, <1>10, <1>11, <2>4
      <3>4. \A d : d \in Held' <=> d \in Held \/ (d = Current /\ m.kind = "cell")
        <4>1. \A d : d \in 1..Current /\ d \in Done' <=> d \in 1..Current /\ (d \in Done \/ d = Current)
          BY <1>6
        <4>2. Current \in 1..Current
          BY <1>0, <1>2
        <4>3. \A d : d \in Held' <=> d \in 1..Current /\ d \in Done' /\ (calls[d] = "cell" \/ d = 1)
          BY <1>1, <1>6 DEF Held
        <4>4. \A d : d \in Held <=> d \in 1..Current /\ d \in Done /\ (calls[d] = "cell" \/ d = 1)
          BY DEF Held
        <4>5. calls[Current] = m.kind
          BY <1>3
        <4> QED BY <2>4, <4>1, <4>2, <4>3, <4>4, <4>5
      <3>5. CASE m.kind = "cell"
        <4>1. node' = Current
          BY <1>3, <1>12, <3>2, <3>5 DEF CellOperation, hashSetReportMsg
        <4>2. \A d \in Held' : d <= Current
          BY <1>0, <3>4 DEF Held
        <4> QED BY <3>1, <3>3, <3>4, <3>5, <4>1, <4>2
      <3>6. CASE m.kind # "cell"
        <4>1. node' = node
          BY <1>12, <2>2, <3>2, <3>6 DEF intersInit, Listing, report
        <4>2. \A d : d \in Held' <=> d \in Held
          BY <3>4, <3>6
        <4>3. node' \in Held' /\ \A d \in Held' : d <= node'
          BY <3>1, <4>1, <4>2
        <4> QED BY <3>1, <3>3, <4>3
      <3> QED BY <3>5, <3>6
    <2> QED BY <2>3, <2>4
  <1>21. ReturnedParts'
    <2>1. ASSUME NEW c \in 1..Len(returned)
          PROVE  /\ Reporting(c)' = Reporting(c)
                 /\ NoExit(c)' <=> NoExit(c)
      <3>1. c \in 1..Current
        BY <1>0, <1>2
      <3> QED BY <1>1, <1>7, <3>1 DEF NoExit
    <2> QED BY <1>1, <2>1 DEF ReturnedParts, IsLatest
  <1> QED BY <1>16, <1>17, <1>18, <1>19, <1>20, <1>21

\* The data manager is initialised between the first message and its reply.
LEMMA InitDMSKeeps ==
  ASSUME TypeInv, CallInv, dmsCPIInitDMS
  PROVE  CallInv'
  <1> USE DEF CallInv
  <1>0. NoNode \notin Nat /\ Blank \in Nat
    BY SessionAssumption DEF Blank
  <1>1. /\ server = "init" /\ server' = "reply" /\ started' = TRUE
        /\ hashSetReportMsg(buffer["server"].call)
        /\ UNCHANGED <<calls, returned, log, client, wire, inbox, buffer, want, len>>
    BY DEF dmsCPIInitDMS, streams
  <1>2. /\ Unanswered /\ Current \in Done /\ Idle("server") /\ ReplyMade
        /\ Current = 1 /\ buffer["server"].call = 1
    BY <1>1 DEF ServerStreams, ServerReplies, FirstIsFirst, ReplyMade, ReplyOf
  <1>3. /\ Current' = Current /\ Done' = Done /\ CurrentRequest' = CurrentRequest
        /\ Held' = Held /\ ReplyMade' /\ History' /\ ReturnedParts'
    BY <1>1, <1>2, SameCalls
  <1>4. Unanswered' /\ Idle("server")'
    BY <1>1, <1>2, <1>3 DEF Unanswered, Idle
  <1>5. ServerStreams'
    BY <1>1, <1>2, <1>3, <1>4 DEF ServerStreams, ServerWaits, ServerReads, ServerProcesses,
       ServerReplies, ServerSends
  <1>6. ClientStreams'
    BY <1>1, <1>2 DEF ClientStreams, ClientRests, ClientWaits, ClientReads,
       ClientReadsString, Unanswered, Idle
  <1>7. FirstIsFirst'
    BY <1>1, <1>2, <1>3 DEF FirstIsFirst
  <1>8. NodeHolds'
    <2> SUFFICES ASSUME \A d \in 1..Current' : d \in Done' => calls'[d] # "exit"
                 PROVE  node' \in Held' /\ \A d \in Held' : d <= node'
      BY <1>1, <1>2, <1>3 DEF NodeHolds
    <2>1. node = Blank
      BY <1>1, <1>3 DEF NodeHolds
    <2>2. node' = 1
      BY <1>0, <1>1, <1>2, <2>1 DEF hashSetReportMsg
    <2>3. Held = {1}
      BY <1>2 DEF Held
    <2> QED BY <1>3, <2>2, <2>3
  <1> QED BY <1>3, <1>5, <1>6, <1>7, <1>8

\* A write to a client that has gone, or that takes nothing for too long.
LEMMA SendFailsKeeps ==
  ASSUME CallInv, server \in {"reply", "replyBig"}, Idle("server"),
         server = "replyBig" => client = "gone",
         server' \in {"wait", "dead"}, UNCHANGED wire,
         UNCHANGED <<calls, returned, log, client, inbox, buffer, want, len, started, dmsUp, node>>
  PROVE  CallInv'
  <1> USE DEF CallInv
  <1>1. /\ client \in {"header", "gone"}
        /\ client = "header" => Idle("client")
    BY DEF ServerStreams, ServerReplies, Unanswered
  <1>2. /\ Current' = Current /\ Done' = Done /\ Held' = Held /\ History' /\ ReturnedParts'
        /\ len["server"] = 0 /\ Idle("server")' /\ (Idle("client") => Idle("client")')
    BY <1>1, SameCalls DEF Idle, ServerStreams
  <1>3. ServerStreams'
    BY <1>1, <1>2 DEF ServerStreams, ServerWaits, ServerReads, ServerProcesses,
       ServerReplies, ServerSends
  <1>4. ClientStreams'
    BY <1>1, <1>2 DEF ClientStreams, ClientRests, ClientWaits, ClientReads, ClientReadsString
  <1>5. FirstIsFirst' /\ NodeHolds'
    BY <1>1, <1>2 DEF FirstIsFirst, NodeHolds
  <1> QED BY <1>2, <1>3, <1>4, <1>5

\* The reply is all there is on its way to the client.
LEMMA SendKeeps ==
  ASSUME TypeInv, CallInv, SendMsg
  PROVE  CallInv'
  <1> USE DEF CallInv
  <1> DEFINE m == buffer["server"]
  <1>0. TypeOK /\ m \in Message /\ BodyCells \in Nat \ {0} /\ BigCells \in Nat
    BY SessionAssumption, StreamTypes DEF TypeInv, Ends
  <1>1. /\ server = "reply"
        /\ UNCHANGED <<calls, returned, log, client, inbox, buffer, want, len, started, dmsUp, node>>
    BY DEF SendMsg, dms
  <1>2. /\ Unanswered /\ Current \in Done /\ Idle("server") /\ ReplyMade
        /\ len["server"] = 0 /\ m = ReplyOf
    BY <1>1 DEF ServerStreams, ServerReplies, ReplyOf
  <1>3. CASE SendFails \/ (WriteTimesOut /\ server' = "wait")
    BY <1>1, <1>2, <1>3, SendFailsKeeps DEF SendFails, WriteTimesOut
  <1>4. CASE /\ client # "gone"
             /\ Write("client", MessageCells(m))
             /\ server' = IF m.big THEN "replyBig" ELSE "wait"
    <2>1. client = "header" /\ wire["client"] = <<>> /\ inbox["client"] = <<>>
      BY <1>2, <1>4 DEF Unanswered, Idle
    <2>2. /\ MessageCells(m) \in Seq(Cell) /\ Starts(MessageCells(m), m)
          /\ Len(MessageCells(m)) = BodyCells + 1
      BY <1>0, MessageParts, MessageStarts
    <2>3. wire' = [wire EXCEPT !["client"] = wire["client"] \o MessageCells(m)]
      BY <1>4 DEF Write
    <2> HIDE DEF m
    <2>4. wire'["client"] = MessageCells(m) /\ wire'["server"] = wire["server"]
      <3>1. wire["client"] \o MessageCells(m) = MessageCells(m)
        BY <2>1, <2>2, ConcatEmptySeq
      <3> QED BY <1>0, <2>3, <3>1 DEF TypeOK, Ends
    <2>5. /\ Current' = Current /\ Done' = Done /\ Held' = Held /\ ReplyOf' = m
          /\ ReplyMade' /\ History' /\ ReturnedParts'
      BY <1>1, <1>2, SameCalls DEF ReplyOf
    <2>6. ReplyWaits'
      <3>1. Sent' \in Nat
        BY <1>0 DEF Sent
      <3>2. Len(wire'["client"]) <= BodyCells + 1 + Sent'
        BY <1>0, <2>2, <2>4, <3>1
      <3> QED BY <1>1, <2>1, <2>2, <2>4, <2>5, <3>2 DEF ReplyWaits
    <2>7. wire'["client"] # <<>>
      BY <1>0, <2>2, <2>4, EmptyOrNot
    <2>8. Answered'
      BY <1>1, <1>2, <1>4, <2>5 DEF Answered, Unanswered
    <2>9. ClientStreams'
      BY <1>1, <2>1, <2>6, <2>8 DEF ClientStreams, ClientRests, ClientWaits, ClientReads,
         ClientReadsString
    <2>10. ServerStreams'
      <3>1. Idle("server")'
        BY <1>1, <1>2, <2>4 DEF Idle
      <3>2. ~Idle("client")'
        BY <2>7 DEF Idle
      <3> QED BY <1>1, <1>2, <1>4, <2>1, <2>5, <3>1, <3>2 DEF ServerStreams, ServerWaits,
              ServerReads, ServerProcesses, ServerReplies, ServerSends
    <2>11. FirstIsFirst' /\ NodeHolds'
      BY <1>1, <1>4, <2>5 DEF FirstIsFirst, NodeHolds
    <2> QED BY <2>5, <2>9, <2>10, <2>11
  <1> QED BY <1>3, <1>4 DEF SendMsg

\* The string is written behind the reply, or behind nothing once the reply was
\* read.
LEMMA SendBigKeeps ==
  ASSUME TypeInv, CallInv, SendBig
  PROVE  CallInv'
  <1> USE DEF CallInv
  <1> DEFINE m == buffer["server"]
             t == CellsOf("big", m, BigCells)
  <1>0. /\ TypeOK /\ m \in Message /\ BodyCells \in Nat \ {0} /\ BigCells \in Nat \ {0}
        /\ inbox["client"] \in Seq(Cell) /\ wire["client"] \in Seq(Cell)
        /\ len["client"] \in Nat
    BY SessionAssumption, StreamTypes DEF TypeInv, Ends
  <1>1. /\ server = "replyBig"
        /\ UNCHANGED <<calls, returned, log, client, inbox, buffer, want, len, started, dmsUp, node>>
    BY DEF SendBig, dms
  <1>2. /\ Idle("server") /\ ReplyOf.big /\ len["server"] = 0 /\ m = ReplyOf
        /\ client \in {"header", "body", "big", "gone"}
        /\ client = "header" => ~Idle("client")
        /\ Sent = 0
    BY <1>1 DEF ServerStreams, ServerSends, ReplyOf, Sent
  <1>3. CASE SendFails
    BY <1>1, <1>2, <1>3, SendFailsKeeps DEF SendFails
  <1>4. CASE client # "gone" /\ Write("client", t) /\ server' = "wait"
    <2>1. Rest(t, m) /\ Len(t) = BigCells /\ t \in Seq(Cell)
      BY <1>0, StringIsRest
    <2> DEFINE u == wire["client"] \o t
    <2>2. wire' = [wire EXCEPT !["client"] = u]
      BY <1>4 DEF Write
    <2>3. /\ Starts(wire["client"], m) => Starts(u, m)
          /\ Rest(wire["client"], m) => Rest(u, m)
          /\ Len(u) = Len(wire["client"]) + BigCells
          /\ u \in Seq(Cell)
      <3>1. u \in Seq(Cell) /\ Len(u) = Len(wire["client"]) + Len(t)
        BY <1>0, <2>1, Writing
      <3>2. /\ Starts(wire["client"], m) => Starts(u, m)
            /\ Rest(wire["client"], m) => Rest(u, m)
        BY <1>0, <2>1, RestWritten
      <3> QED BY <2>1, <3>1, <3>2
    <2> HIDE DEF m, t, u
    <2>4. wire'["client"] = u /\ wire'["server"] = wire["server"]
      BY <1>0, <2>2 DEF TypeOK, Ends
    <2>5. /\ Current' = Current /\ Done' = Done /\ Held' = Held /\ ReplyOf' = ReplyOf
          /\ ReplyMade => ReplyMade'
          /\ History' /\ ReturnedParts'
      BY <1>1, SameCalls DEF ReplyOf
    <2>6. Sent' = BigCells
      BY <1>2, <1>4, <2>5 DEF Sent
    <2>7. Answered => Answered'
      BY <1>1, <1>4, <2>5 DEF Answered
    <2>8. ServerStreams'
      <3>1. Idle("server")'
        BY <1>1, <1>2, <2>4 DEF Idle
      <3> QED BY <1>1, <1>2, <1>4, <3>1 DEF ServerStreams, ServerWaits,
              ServerReads, ServerProcesses, ServerReplies, ServerSends
    <2> DEFINE a == Len(inbox["client"])
               w == Len(wire["client"])
               l == len["client"]
    <2>9. a \in Nat /\ w \in Nat /\ l \in Nat
      BY <1>0, LenProperties
    <2>10. Len(inbox'["client"]) = a /\ Len(wire'["client"]) = w + BigCells /\ len'["client"] = l
      BY <1>1, <2>3, <2>4
    <2>11. /\ client = "header" => Answered /\ (ReplyWaits \/ ReplyArrived)
           /\ client = "body" => Answered /\ l + a + w <= BodyCells + Sent
           /\ client = "big" => Answered /\ l + a + w <= Sent
      BY <1>2 DEF ClientStreams, ClientWaits, ClientReads, ClientReadsString
    <2>12. /\ ReplyWaits => w <= BodyCells + 1 + Sent
           /\ ReplyArrived => a + w <= BodyCells + 1 + Sent
      BY DEF ReplyWaits, ReplyArrived
    <2> HIDE DEF a, w, l
    <2>13. /\ ReplyWaits => w + BigCells <= BodyCells + 1 + BigCells
           /\ ReplyArrived => a + (w + BigCells) <= BodyCells + 1 + BigCells
           /\ client = "body" => l + a + (w + BigCells) <= BodyCells + BigCells
           /\ client = "big" => l + a + (w + BigCells) <= BigCells
      BY <1>0, <1>2, <2>9, <2>11, <2>12
    <2>14. ReplyWaits => ReplyWaits'
      BY <1>1, <1>2, <2>3, <2>4, <2>5, <2>6, <2>10, <2>13 DEF ReplyWaits
    <2>15. ReplyArrived => ReplyArrived'
      BY <1>1, <1>2, <2>3, <2>4, <2>5, <2>6, <2>10, <2>13 DEF ReplyArrived
    <2>16. ClientReads'
      BY <1>1, <1>2, <2>3, <2>4, <2>5, <2>6, <2>7, <2>10, <2>13 DEF ClientReads, ClientStreams
    <2>17. ClientReadsString'
      BY <1>1, <1>2, <2>3, <2>4, <2>5, <2>6, <2>7, <2>10, <2>13
         DEF ClientReadsString, ClientStreams
    <2>18. ClientStreams'
      BY <1>1, <1>2, <2>7, <2>11, <2>14, <2>15, <2>16, <2>17
         DEF ClientStreams, ClientRests, ClientWaits
    <2>19. FirstIsFirst' /\ NodeHolds'
      BY <1>1, <1>4, <2>5 DEF FirstIsFirst, NodeHolds
    <2> QED BY <2>5, <2>8, <2>18, <2>19
  <1> QED BY <1>3, <1>4 DEF SendBig

\* What was sent before the signal is still read.
LEMMA KillKeeps ==
  ASSUME TypeInv, CallInv, terminateHandler
  PROVE  CallInv'
  <1> USE DEF CallInv
  <1>1. /\ server' = "dead"
        /\ UNCHANGED <<calls, returned, log, client, wire, inbox, buffer, want,
                       len, started, dmsUp, node>>
    BY DEF terminateHandler, dms, streams
  <1>2. /\ Current' = Current /\ Done' = Done /\ ReplyOf' = ReplyOf
        /\ ReplyMade => ReplyMade'
        /\ History' /\ ReturnedParts'
    BY <1>1, SameCalls DEF ReplyOf
  <1>3. ServerStreams' /\ FirstIsFirst' /\ NodeHolds'
    BY <1>1 DEF ServerStreams, ServerWaits, ServerReads, ServerProcesses, ServerReplies,
       ServerSends, FirstIsFirst, NodeHolds
  <1>4. Sent \in Nat /\ Sent' \in Nat /\ Sent <= Sent'
    BY <1>1, <1>2, SessionAssumption DEF Sent
  <1> DEFINE a == Len(inbox["client"])
             w == Len(wire["client"])
             l == len["client"]
  <1>5. a \in Nat /\ w \in Nat /\ l \in Nat /\ BodyCells \in Nat
    BY StreamTypes, SessionAssumption DEF TypeInv, Ends
  <1>6. Len(inbox'["client"]) = a /\ Len(wire'["client"]) = w /\ len'["client"] = l
    BY <1>1
  <1>7. Answered => Answered'
    BY <1>1, <1>2 DEF Answered
  <1>8. ReplyWaits => w <= BodyCells + 1 + Sent
    BY DEF ReplyWaits
  <1>9. ReplyArrived => a + w <= BodyCells + 1 + Sent
    BY DEF ReplyArrived
  <1>10. /\ client = "body" => l + a + w <= BodyCells + Sent
         /\ client = "big" => l + a + w <= Sent
    BY DEF ClientStreams, ClientReads, ClientReadsString
  <1> HIDE DEF a, w, l
  <1>11. /\ ReplyWaits => w <= BodyCells + 1 + Sent'
         /\ ReplyArrived => a + w <= BodyCells + 1 + Sent'
         /\ client = "body" => l + a + w <= BodyCells + Sent'
         /\ client = "big" => l + a + w <= Sent'
    <2> DEFINE s == Sent
               z == Sent'
    <2>1. s \in Nat /\ z \in Nat /\ s <= z
      BY <1>4
    <2>2. /\ ReplyWaits => w <= BodyCells + 1 + s
          /\ ReplyArrived => a + w <= BodyCells + 1 + s
          /\ client = "body" => l + a + w <= BodyCells + s
          /\ client = "big" => l + a + w <= s
      BY <1>8, <1>9, <1>10
    <2> HIDE DEF s, z
    <2>3. /\ ReplyWaits => w <= BodyCells + 1 + z
          /\ ReplyArrived => a + w <= BodyCells + 1 + z
          /\ client = "body" => l + a + w <= BodyCells + z
          /\ client = "big" => l + a + w <= z
      BY <1>5, <2>1, <2>2
    <2> QED BY <2>3 DEF z
  <1>12. (ReplyWaits => ReplyWaits') /\ (ReplyArrived => ReplyArrived')
    BY <1>1, <1>2, <1>6, <1>11 DEF ReplyWaits, ReplyArrived
  <1>13. ClientReads' /\ ClientReadsString'
    BY <1>1, <1>2, <1>6, <1>7, <1>11 DEF ClientReads, ClientReadsString, ClientStreams
  <1>14. ClientStreams'
    BY <1>1, <1>2, <1>7, <1>12, <1>13 DEF ClientStreams, ClientRests, ClientWaits, Idle
  <1> QED BY <1>2, <1>3, <1>14

\* What arrives is a piece of the message that is on its way.
LEMMA ArriveKeeps ==
  ASSUME TypeInv, CallInv, NEW e \in Ends, Arrive(e)
  PROVE  CallInv'
  <1> USE DEF CallInv
  <1>0. TypeOK /\ BodyCells \in Nat \ {0} /\ wire[e] # <<>>
    <2>1. TypeOK
      BY DEF TypeInv
    <2>2. Len(wire[e]) # 0
      BY <2>1, StreamTypes DEF Arrive
    <2> QED BY <2>1, <2>2, StreamTypes, SessionAssumption
  <1>1. UNCHANGED <<calls, returned, log, client, server, buffer, want, len, started, dmsUp, node>>
    BY DEF Arrive, dms
  <1>2. \A f \in Ends : f # e => inbox'[f] = inbox[f] /\ wire'[f] = wire[f]
    BY <1>0, Arrived DEF Arrive
  <1>3. /\ Current' = Current /\ Done' = Done /\ Held' = Held /\ ReplyOf' = ReplyOf
        /\ CurrentRequest' = CurrentRequest /\ Sent' = Sent
        /\ ReplyMade => ReplyMade'
        /\ History' /\ ReturnedParts'
    BY <1>1, SameCalls DEF ReplyOf, Sent
  <1>4. FirstIsFirst' /\ NodeHolds'
    BY <1>1, <1>3 DEF FirstIsFirst, NodeHolds
  <1>5. CASE e = "client"
    <2>1. inbox'["server"] = inbox["server"] /\ wire'["server"] = wire["server"]
      BY <1>2, <1>5 DEF Ends
    <2>2. wire["client"] # <<>> /\ Arrive("client") /\ "client" \in Ends
      BY <1>0, <1>5
    <2>3. client # "gone" => ~Unanswered
      BY <2>2 DEF Unanswered, Idle
    <2>4. (Answered => Answered') /\ (Idle("server") => Idle("server")')
          /\ (RequestComes => RequestComes') /\ (client = "gone" /\ Unanswered => Unanswered')
      BY <1>1, <1>3, <2>1 DEF Answered, Idle, RequestComes, Unanswered
    <2>5. ServerStreams'
      <3>1. client = "header" => ~Idle("client")'
        <4>1. PICK n \in 1..Len(wire["client"]) :
                inbox' = [inbox EXCEPT !["client"] = @ \o SubSeq(wire["client"], 1, n)]
                /\ wire' = [wire EXCEPT !["client"] = SubSeq(@, n + 1, Len(@))]
          BY <2>2 DEF Arrive
        <4>2. Len(inbox'["client"]) = Len(inbox["client"]) + n /\ inbox'["client"] \in Seq(Cell)
          BY <1>0, <2>2, <4>1, Arrived
        <4>3. Len(inbox["client"]) \in Nat /\ Len(wire["client"]) \in Nat
          BY <1>0, <2>2, StreamTypes
        <4>4. Len(inbox["client"]) + n # 0
          BY <4>3
        <4>5. Len(inbox'["client"]) # 0
          BY <4>2, <4>4
        <4>6. inbox'["client"] # <<>>
          BY <4>2, <4>5, EmptyOrNot
        <4> QED BY <4>6 DEF Idle
      <3> QED BY <1>1, <1>3, <2>1, <2>3, <2>4, <3>1 DEF ServerStreams, ServerWaits,
              ServerReads, ServerProcesses, ServerReplies, ServerSends
    <2>6. ClientStreams'
      <3>1. client # "ready"
        BY <2>2 DEF ClientStreams, ClientRests, Idle
      <3>2. CASE client = "header"
        <4>1. Answered /\ (ReplyWaits \/ ReplyArrived)
          BY <2>2, <3>2 DEF ClientStreams, ClientWaits, Idle
        <4>2. CASE ReplyWaits
          <5>1. /\ inbox["client"] = <<>> /\ Starts(wire["client"], ReplyOf)
                /\ Len(wire["client"]) <= BodyCells + 1 + Sent
            BY <4>2 DEF ReplyWaits
          <5>2. /\ Starts(inbox'["client"], ReplyOf) /\ Rest(wire'["client"], ReplyOf)
                /\ Len(inbox'["client"]) + Len(wire'["client"])
                      = Len(inbox["client"]) + Len(wire["client"])
            BY <1>0, <2>2, <5>1, StartArrives
          <5>3. Len(inbox'["client"]) + Len(wire'["client"]) = Len(wire["client"])
            <6>1. Len(inbox["client"]) = 0 /\ Len(wire["client"]) \in Nat
              BY <1>0, <2>2, <5>1, StreamTypes
            <6> DEFINE w == Len(wire["client"])
            <6>2. 0 + w = w
              <7>1. w \in Nat
                BY <6>1
              <7> HIDE DEF w
              <7> QED BY <7>1
            <6> QED BY <5>2, <6>1, <6>2
          <5>4. ReplyArrived'
            BY <1>3, <5>1, <5>2, <5>3 DEF ReplyArrived
          <5> QED BY <1>1, <2>4, <3>2, <4>1, <5>4 DEF ClientStreams, ClientRests, ClientWaits,
                  ClientReads, ClientReadsString
        <4>3. CASE ReplyArrived
          <5>1. /\ Starts(inbox["client"], ReplyOf) /\ Rest(wire["client"], ReplyOf)
                /\ Len(inbox["client"]) + Len(wire["client"]) <= BodyCells + 1 + Sent
            BY <4>3 DEF ReplyArrived
          <5>2. /\ Starts(inbox'["client"], ReplyOf) /\ Rest(wire'["client"], ReplyOf)
                /\ Len(inbox'["client"]) + Len(wire'["client"])
                      = Len(inbox["client"]) + Len(wire["client"])
            BY <1>0, <2>2, <5>1, RestArrives
          <5>3. ReplyArrived'
            BY <1>3, <5>1, <5>2 DEF ReplyArrived
          <5> QED BY <1>1, <2>4, <3>2, <4>1, <5>3 DEF ClientStreams, ClientRests, ClientWaits,
                  ClientReads, ClientReadsString
        <4> QED BY <4>1, <4>2, <4>3
      <3>3. CASE client \in {"body", "big"}
        <4>1. /\ Answered
              /\ Rest(inbox["client"], ReplyOf) /\ Rest(wire["client"], ReplyOf)
              /\ client = "body" =>
                     /\ len["client"] + Len(inbox["client"]) + Len(wire["client"])
                            <= BodyCells + Sent
                     /\ want["client"] = BodyCells
              /\ client = "big" =>
                     /\ ReplyOf.big /\ buffer["client"] = ReplyOf
                     /\ len["client"] + Len(inbox["client"]) + Len(wire["client"]) <= Sent
                     /\ want["client"] = BigCells
          BY <3>3 DEF ClientStreams, ClientReads, ClientReadsString
        <4>2. /\ Rest(inbox'["client"], ReplyOf) /\ Rest(wire'["client"], ReplyOf)
              /\ Len(inbox'["client"]) + Len(wire'["client"])
                      = Len(inbox["client"]) + Len(wire["client"])
          BY <1>0, <2>2, <4>1, RestArrives
        <4>3. len'["client"] + Len(inbox'["client"]) + Len(wire'["client"])
                  = len["client"] + Len(inbox["client"]) + Len(wire["client"])
          BY <1>0, <1>1, <2>2, <4>2, SameTotal
        <4>4. ClientReads'
          BY <1>1, <1>3, <2>4, <4>1, <4>2, <4>3 DEF ClientReads
        <4>5. ClientReadsString'
          BY <1>1, <1>3, <2>4, <4>1, <4>2, <4>3 DEF ClientReadsString
        <4> QED BY <1>1, <3>3, <4>4, <4>5 DEF ClientStreams, ClientRests, ClientWaits
      <3>4. CASE client = "gone"
        BY <1>1, <3>4 DEF ClientStreams, ClientRests, ClientWaits, ClientReads,
           ClientReadsString
      <3> QED BY <1>0, <3>1, <3>2, <3>3, <3>4 DEF TypeOK, ClientLabels
    <2> QED BY <1>3, <1>4, <2>5, <2>6
  <1>6. CASE e = "server"
    <2>1. inbox'["client"] = inbox["client"] /\ wire'["client"] = wire["client"]
      BY <1>2, <1>6 DEF Ends
    <2>2. wire["server"] # <<>> /\ Arrive("server") /\ "server" \in Ends
      BY <1>0, <1>6
    <2>3. /\ Answered => Answered'
          /\ Idle("client") => Idle("client")'
          /\ Idle("client")' => Idle("client")
          /\ ReplyWaits => ReplyWaits'
          /\ ReplyArrived => ReplyArrived'
          /\ Unanswered => Unanswered'
      BY <1>1, <1>3, <2>1 DEF Answered, Idle, ReplyWaits, ReplyArrived, Unanswered
    <2>4. ClientStreams'
      <3>1. client = "ready" => server = "dead"
        BY <2>2 DEF ClientStreams, ClientRests, Idle
      <3> QED BY <1>1, <1>3, <2>1, <2>3, <3>1 DEF ClientStreams, ClientRests, ClientWaits,
              ClientReads, ClientReadsString
    <2>5. ServerStreams'
      <3>1. server \in {"wait", "body", "dead"}
        BY <1>0, <2>2 DEF ServerStreams, ServerProcesses, ServerReplies, ServerSends,
           Idle, TypeOK, ServerLabels
      <3>2. CASE server = "dead"
        BY <1>1, <3>2 DEF ServerStreams, ServerWaits, ServerReads, ServerProcesses,
           ServerReplies, ServerSends
      <3>3. CASE server = "wait"
        <4>1. Unanswered /\ Current \notin Done /\ RequestComes
          BY <2>2, <3>3 DEF ServerStreams, ServerWaits, Idle
        <4>2. /\ Starts(inbox'["server"], CurrentRequest) /\ Rest(wire'["server"], CurrentRequest)
              /\ Len(inbox'["server"]) + Len(wire'["server"])
                      = Len(inbox["server"]) + Len(wire["server"])
          BY <1>0, <2>2, <4>1, StartArrives, RestArrives DEF RequestComes
        <4>3. RequestComes'
          BY <1>3, <4>1, <4>2 DEF RequestComes
        <4> QED BY <1>1, <1>3, <2>3, <3>3, <4>1, <4>3 DEF ServerStreams, ServerWaits,
                ServerReads, ServerProcesses, ServerReplies, ServerSends
      <3>4. CASE server = "body"
        <4>1. /\ Unanswered /\ Current \notin Done
              /\ Rest(inbox["server"], CurrentRequest) /\ Rest(wire["server"], CurrentRequest)
              /\ len["server"] + Len(inbox["server"]) + Len(wire["server"]) = BodyCells
              /\ want["server"] = BodyCells
          BY <3>4 DEF ServerStreams, ServerReads
        <4>2. /\ Rest(inbox'["server"], CurrentRequest) /\ Rest(wire'["server"], CurrentRequest)
              /\ Len(inbox'["server"]) + Len(wire'["server"])
                      = Len(inbox["server"]) + Len(wire["server"])
          BY <1>0, <2>2, <4>1, RestArrives
        <4>3. len'["server"] + Len(inbox'["server"]) + Len(wire'["server"]) = BodyCells
          BY <1>0, <1>1, <2>2, <4>1, <4>2, SameTotal
        <4> QED BY <1>1, <1>3, <2>3, <3>4, <4>1, <4>2, <4>3 DEF ServerStreams, ServerWaits,
                ServerReads, ServerProcesses, ServerReplies, ServerSends
      <3> QED BY <3>1, <3>2, <3>3, <3>4
    <2> QED BY <1>3, <1>4, <2>4, <2>5
  <1> QED BY <1>5, <1>6 DEF Ends

\* Every step keeps the streams of the calls.
LEMMA StepCalls == TypeInv /\ CallInv /\ [Next]_vars => CallInv'
  <1> SUFFICES ASSUME TypeInv, CallInv, [Next]_vars PROVE CallInv'
    OBVIOUS
  <1>1. CASE UNCHANGED vars
    <2>1. UNCHANGED <<calls, returned, log, client, server, wire, inbox, buffer, want,
                      len, started, dmsUp, node>>
      BY <1>1 DEF vars
    <2>2. /\ Current' = Current /\ Done' = Done /\ Held' = Held /\ ReplyOf' = ReplyOf
          /\ CurrentRequest' = CurrentRequest /\ Sent' = Sent
          /\ ReplyMade => ReplyMade'
          /\ History' /\ ReturnedParts'
      BY <2>1, SameCalls DEF ReplyOf, Sent, CallInv
    <2>3. /\ Unanswered => Unanswered'
          /\ Answered => Answered'
          /\ RequestComes => RequestComes'
          /\ ReplyWaits => ReplyWaits'
          /\ ReplyArrived => ReplyArrived'
          /\ \A e : Idle(e)' <=> Idle(e)
      BY <2>1, <2>2 DEF Unanswered, Answered, RequestComes, ReplyWaits, ReplyArrived, Idle
    <2>4. ServerStreams'
      BY <2>1, <2>2, <2>3 DEF CallInv, ServerStreams, ServerWaits, ServerReads, ServerProcesses,
         ServerReplies, ServerSends
    <2>5. ClientStreams'
      BY <2>1, <2>2, <2>3 DEF CallInv, ClientStreams, ClientRests, ClientWaits, ClientReads,
         ClientReadsString
    <2>6. FirstIsFirst' /\ NodeHolds'
      BY <2>1, <2>2 DEF CallInv, FirstIsFirst, NodeHolds
    <2> QED BY <2>2, <2>4, <2>5, <2>6 DEF CallInv
  <1>2. CASE \E k \in Kinds : interCommunicate(k)
    BY <1>2, CallKeeps
  <1>3. CASE ClientStep
    BY <1>3, ClientLengthKeeps, ClientBodyKeeps, ClientBigKeeps DEF ClientStep
  <1>4. CASE ClientGoes
    BY <1>4, ClientGoesKeeps
  <1>5. CASE ServerStep
    BY <1>5, ServerLengthKeeps, ServerBodyKeeps, ProcessKeeps, InitDMSKeeps, SendKeeps,
       SendBigKeeps DEF ServerStep
  <1>6. CASE terminateHandler
    BY <1>6, KillKeeps
  <1>7. CASE \E e \in Ends : Arrive(e)
    BY <1>7, ArriveKeeps
  <1> QED BY <1>1, <1>2, <1>3, <1>4, <1>5, <1>6, <1>7 DEF Next

\* However the network splits the messages, the streams hold nothing but parts
\* of the request of the call being made or of the reply to it: what the client
\* reads is the reply its request was given, whatever signal ends the server.
THEOREM CallsKeepTheirStreams == Spec => []CallInv
  <1> QED BY TypesHold, InitCalls, StepCalls, PTL DEF Spec

\* A listing's string is its own, and a report shows the message of the last
\* operation before it.
THEOREM PartsCorrect == Spec => []PartsBelongTogether
  <1>1. TypeOK /\ CallInv => PartsBelongTogether
    <2> SUFFICES ASSUME TypeOK, CallInv, NEW c \in DOMAIN returned,
                        returned[c].of # Error, returned[c].ok
                 PROVE  /\ calls[c] = "list" => returned[c].big = c
                        /\ calls[c] = "report" /\ (\A d \in 1..c : calls[d] # "exit") =>
                               returned[c].text = Latest(Reporting(c))
      BY DEF PartsBelongTogether
    <2>1. c \in 1..Len(returned)
      <3>1. returned \in Seq(Result)
        BY DEF TypeOK
      <3> QED BY <3>1, EmptyOrNot
    <2>2. /\ calls[c] = "list" => returned[c].big = c
          /\ calls[c] = "report" /\ NoExit(c) => IsLatest(c, returned[c].text)
      BY <2>1 DEF CallInv, ReturnedParts
    <2>3. ASSUME NEW t, IsLatest(c, t) PROVE t = Latest(Reporting(c))
      <3>1. Reporting(c) \subseteq Nat
        <4>1. c \in Nat
          BY <2>1
        <4> QED BY <4>1 DEF Reporting
      <3>2. \A d \in Reporting(c) : (\A e \in Reporting(c) : e <= d) => d = t
        BY <2>3, <3>1 DEF IsLatest
      <3> QED BY <2>3, <3>1, <3>2 DEF IsLatest, Latest
    <2> QED BY <2>2, <2>3 DEF NoExit
  <1> QED BY <1>1, TypeCorrect, CallsKeepTheirStreams, PTL

-----------------------------------------------------------------------------
(* The session implements remote calls.                                     *)

Answers == [i \in DOMAIN returned |-> returned[i].of]

\* Whose result each call got, for Rpc.
LEMMA AnswersGrow ==
  ASSUME TypeOK
  PROVE  /\ Answers \in Seq(0..MaxCalls) /\ Len(Answers) = Len(returned)
         /\ \A r \in Result : returned' = Append(returned, r) =>
               Answers' = Append(Answers, r.of)
  <1>1. returned \in Seq(Result) /\ Len(returned) \in Nat /\ DOMAIN returned = 1..Len(returned)
        /\ \A i \in 1..Len(returned) : returned[i] \in Result
    <2>1. returned \in Seq(Result)
      BY DEF TypeOK
    <2> QED BY <2>1, EmptyOrNot
  <1>2. \A i \in 1..Len(returned) : returned[i].of \in 0..MaxCalls
    BY <1>1 DEF Result
  <1>3. Answers = [i \in 1..Len(returned) |-> returned[i].of]
    BY <1>1 DEF Answers
  <1>4. Answers \in [1..Len(returned) -> 0..MaxCalls]
    BY <1>2, <1>3
  <1>5. Answers \in Seq(0..MaxCalls) /\ Len(Answers) = Len(returned)
    <2>1. Answers \in Seq(0..MaxCalls)
      <3> DEFINE k == Len(returned)
                 T == 0..MaxCalls
      <3>1. k \in Nat /\ Answers \in [1..k -> T]
        BY <1>1, <1>4
      <3> HIDE DEF k, T
      <3>2. Answers \in Seq(T)
        BY <3>1, SeqDef
      <3> QED BY <3>2 DEF T
    <2>2. DOMAIN Answers = 1..Len(returned)
      BY <1>3
    <2> QED BY <1>1, <2>1, <2>2, LenProperties
  <1>6. ASSUME NEW r \in Result, returned' = Append(returned, r)
        PROVE  Answers' = Append(Answers, r.of)
    <2>1. /\ returned' \in Seq(Result) /\ Len(returned') = Len(returned) + 1
          /\ \A i \in 1..Len(returned) : returned'[i] = returned[i]
          /\ returned'[Len(returned) + 1] = r
      BY <1>1, <1>6, AppendProperties
    <2>2. DOMAIN returned' = 1..(Len(returned) + 1)
      BY <2>1, EmptyOrNot
    <2>3. Answers' = [i \in 1..(Len(returned) + 1) |-> returned'[i].of]
      BY <2>2 DEF Answers
    <2>4. r.of \in 0..MaxCalls
      BY DEF Result
    <2>5. /\ Append(Answers, r.of) \in Seq(0..MaxCalls)
          /\ Len(Append(Answers, r.of)) = Len(returned) + 1
          /\ \A i \in 1..Len(returned) : Append(Answers, r.of)[i] = Answers[i]
          /\ Append(Answers, r.of)[Len(returned) + 1] = r.of
      BY <1>5, <2>4, AppendProperties
    <2>6. \A i \in 1..(Len(returned) + 1) : Answers'[i] = Append(Answers, r.of)[i]
      <3>1. \A i \in 1..(Len(returned) + 1) : i \in 1..Len(returned) \/ i = Len(returned) + 1
        BY <1>1
      <3>2. \A i \in 1..Len(returned) : Answers'[i] = returned[i].of /\ Answers[i] = returned[i].of
        BY <1>1, <1>3, <2>1, <2>3
      <3>3. Answers'[Len(returned) + 1] = r.of
        BY <1>1, <2>1, <2>3
      <3> QED BY <2>5, <3>1, <3>2, <3>3
    <2>7. Answers' \in Seq(0..MaxCalls) /\ Len(Answers') = Len(returned) + 1
      <3>1. \A i \in 1..(Len(returned) + 1) : Answers'[i] \in 0..MaxCalls
        <4>1. \A i \in 1..(Len(returned) + 1) : returned'[i] \in Result
          BY <2>1, ElementOfSeq
        <4> QED BY <2>3, <4>1 DEF Result
      <3>2. Answers' \in [1..(Len(returned) + 1) -> 0..MaxCalls]
        BY <2>3, <3>1
      <3>3. Len(returned) + 1 \in Nat
        BY <1>1
      <3>4. Answers' \in Seq(0..MaxCalls)
        BY <3>2, <3>3, SeqDef
      <3> QED BY <3>2, <3>3, <3>4
    <2> QED BY <2>5, <2>6, <2>7, SeqEqual
  <1> QED BY <1>5, <1>6

\* A step of the client: a call returns, or nothing is seen of it.
LEMMA ClientReturns ==
  ASSUME TypeInv, ClientStep
  PROVE  /\ UNCHANGED <<calls, log>> /\ Len(returned) < Len(calls)
         /\ UNCHANGED returned \/ \E r \in Result : returned' = Append(returned, r)
  <1>1. TypeOK /\ "client" \in Ends /\ Busy
    BY DEF TypeInv, Ends, Busy, ClientStep, ClientReceivesLength, ClientReceivesBody,
       ClientReceivesBig
  <1>2. UNCHANGED <<calls, log>> /\ Len(returned) < Len(calls)
    BY <1>1 DEF TypeInv, CallIsOpen, ClientStep, ClientReceivesLength, ClientReceivesBody,
       ClientReceivesBig
  <1>3. ASSUME NEW m \in Message, Extracted(m)
        PROVE  UNCHANGED returned \/ \E r \in Result : returned' = Append(returned, r)
    BY <1>3, Results, SessionAssumption DEF Extracted, ReturnResult
  <1>4. buffer["client"] \in Message
    BY <1>1, StreamTypes
  <1>5. ReadSome("client") => Head(inbox["client"]).msg \in Message
    <2>1. ASSUME ReadSome("client") PROVE Head(inbox["client"]) \in Cell
      <3>1. inbox["client"] \in Seq(Cell) /\ inbox["client"] # <<>>
        BY <1>1, <2>1 DEF TypeOK, ReadSome
      <3>2. Len(inbox["client"]) >= 1
        BY <3>1, EmptyOrNot
      <3> QED BY <3>1, <3>2, ReadingOne
    <2> QED BY <2>1 DEF Cell
  <1>6. CASE ClientReceivesLength
    <2>1. ReturnResult(Failure) \/ Extracted(buffer["client"]) \/ UNCHANGED returned
      BY <1>6 DEF ClientReceivesLength
    <2>2. CASE ReturnResult(Failure)
      BY <1>2, <2>2, Results DEF ReturnResult
    <2>3. CASE Extracted(buffer["client"])
      BY <1>2, <1>3, <1>4, <2>3
    <2> QED BY <1>2, <2>1, <2>2, <2>3
  <1>7. CASE ClientReceivesBody
    <2> DEFINE m == Head(inbox["client"]).msg
    <2>1. ReadSome("client") /\ (Extracted(m) \/ UNCHANGED returned)
      BY <1>7 DEF ClientReceivesBody
    <2>2. m \in Message
      BY <1>5, <2>1
    <2> HIDE DEF m
    <2> QED BY <1>2, <1>3, <2>1, <2>2
  <1>8. CASE ClientReceivesBig
    <2> DEFINE r == ResultOf(buffer["client"], Head(inbox["client"]).msg.call)
    <2>1. Head(inbox["client"]).msg.call \in 0..MaxCalls
      BY <1>5, <1>8 DEF ClientReceivesBig, Message
    <2>2. r \in Result
      BY <1>4, <2>1, Results
    <2>3. ReturnResult(r) \/ UNCHANGED returned
      BY <1>8 DEF ClientReceivesBig
    <2> HIDE DEF r
    <2> QED BY <1>2, <2>2, <2>3 DEF ReturnResult
  <1> QED BY <1>2, <1>6, <1>7, <1>8 DEF ClientStep

\* A call asked for, a handler's run and a result are steps of Rpc; the rest of
\* what the two processes do is not seen in it.
LEMMA StepIsRemote ==
  ASSUME TypeInv, CallInv, TypeInv', CallInv', [Next]_vars
  PROVE  [Remote!Next]_(Remote!vars)
  <1> DEFINE asked == Len(calls)
  <1>1. /\ TypeOK /\ TypeOK' /\ History /\ History'
        /\ Current \in Nat /\ Len(returned) \in Nat /\ Error = 0
    BY DEF TypeInv, TypeOK, CallInv, Current, Error
  <1>2. Answers \in Seq(0..MaxCalls) /\ Len(Answers) = Len(returned)
    BY <1>1, AnswersGrow
  <1>3. /\ UNCHANGED returned => UNCHANGED Answers
        /\ UNCHANGED calls => UNCHANGED Current
        /\ UNCHANGED log => UNCHANGED Done
    BY DEF Answers, Current, Done
  <1>4. UNCHANGED <<calls, log, returned>> => UNCHANGED Remote!vars
    BY DEF Remote!vars
  <1>5. ASSUME NEW k \in Kinds, interCommunicate(k)
        PROVE  Remote!Ask
    <2>1. Len(returned) = Current /\ UNCHANGED <<returned, log>>
      BY <1>5 DEF interCommunicate, CallInv, ClientStreams, ClientRests
    <2>2. Len(calls') = Len(calls) + 1
      BY <1>1, <1>5, AppendProperties DEF interCommunicate, TypeOK
    <2>3. Len(Answers) = Len(calls) /\ UNCHANGED Answers
      BY <1>2, <1>3, <2>1 DEF Current
    <2> QED BY <1>1, <2>1, <2>2, <2>3 DEF Remote!Ask, Remote!Waiting, Answers, Current
  <1>6. ASSUME ProcessMsg
        PROVE  Remote!Execute
    <2>1. /\ Unanswered /\ Current \notin Done /\ buffer["server"] = CurrentRequest
          /\ log' = Append(log, buffer["server"].call) /\ UNCHANGED <<calls, returned>>
      BY <1>6 DEF ProcessMsg, CallInv, ServerStreams, ServerProcesses
    <2>2. buffer["server"].call = Current
      BY <2>1 DEF CurrentRequest, Request
    <2>3. ~Contains(log, Current) /\ Len(Answers) < Current
      BY <1>1, <1>2, <2>1, DoneIsLogged DEF Unanswered
    <2> QED BY <1>3, <2>1, <2>2, <2>3 DEF Remote!Execute, Remote!Waiting, Answers, Current,
            Contains, Remote!Contains
  <1>7. ASSUME ClientStep, NEW r \in Result, returned' = Append(returned, r)
        PROVE  Remote!Return
    <2>1. UNCHANGED <<calls, log>> /\ Len(returned) < Current
      BY <1>7, ClientReturns DEF Current
    <2>2. Len(returned) + 1 = Current /\ Current' = Current /\ Done' = Done
      BY <1>1, <1>3, <2>1 DEF History
    <2>3. Len(returned') = Current /\ returned'[Current] = r
      BY <1>1, <1>7, <2>2, AppendProperties DEF TypeOK
    <2>4. r.of \in {Current, Error} /\ (r.of # Error => Current \in Done)
      <3>1. Current \in 1..Len(returned')
        BY <1>1, <2>2, <2>3
      <3> QED BY <1>1, <2>2, <2>3, <3>1 DEF History
    <2>5. r.of # Error => Contains(log, r.of)
      BY <1>1, <2>4, DoneIsLogged
    <2>6. Answers' = Append(Answers, r.of)
      BY <1>1, <1>7, AnswersGrow
    <2>7. Len(Answers) < Current
      BY <1>2, <2>1
    <2> QED BY <2>1, <2>4, <2>5, <2>6, <2>7 DEF Remote!Return, Remote!Waiting, Answers,
            Current, Contains, Remote!Contains
  <1>8. CASE ClientStep
    <2>1. UNCHANGED <<calls, log>>
      BY <1>8, ClientReturns
    <2>2. UNCHANGED returned \/ \E r \in Result : returned' = Append(returned, r)
      BY <1>8, ClientReturns
    <2> QED BY <1>4, <1>7, <1>8, <2>1, <2>2 DEF Remote!Next
  <1>9. CASE ClientGoes \/ terminateHandler \/ \E e \in Ends : Arrive(e)
    <2>1. UNCHANGED <<calls, log, returned>>
      BY <1>9 DEF ClientGoes, terminateHandler, Arrive
    <2> QED BY <1>4, <2>1
  <1>10. CASE ServerStep
    <2>1. ProcessMsg \/ UNCHANGED <<calls, log, returned>>
      BY <1>10 DEF ServerStep, ServerReceivesLength, ServerReceivesBody, dmsCPIInitDMS,
         SendMsg, SendBig
    <2> QED BY <1>4, <1>6, <2>1 DEF Remote!Next
  <1>11. CASE UNCHANGED vars
    <2>1. UNCHANGED <<calls, log, returned>>
      BY <1>11 DEF vars
    <2> QED BY <1>4, <2>1
  <1> QED BY <1>5, <1>8, <1>9, <1>10, <1>11 DEF Next, Remote!Next

\* A session is remote calls: one at a time, each executed at most once and
\* while its caller waits, and each returning its own result or an error, though
\* no message carries a number, the network splits messages, writes time out and a
\* signal may end the server anywhere.
THEOREM Implements == Spec => ImplementsRpc
  <1>1. Init => Remote!Init
    BY DEF Init, Remote!Init
  <1>2. TypeInv /\ CallInv /\ TypeInv' /\ CallInv' /\ [Next]_vars
        => [Remote!Next]_(Remote!vars)
    BY StepIsRemote
  <1> QED BY <1>1, <1>2, TypesHold, CallsKeepTheirStreams, PTL
          DEF Spec, ImplementsRpc, Remote!Spec
=============================================================================
