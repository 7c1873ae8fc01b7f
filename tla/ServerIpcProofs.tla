-------------------------- MODULE ServerIpcProofs --------------------------
(* What holds of ServerIpc for any number of applications and calls.          *)
EXTENDS ServerIpc, SequenceTheorems, TLAPS

\* Strings and expressions are what the sockets and pipes carry.
LEMMA Carried ==
    /\ Ack \in Strings
    /\ \A n \in Calls : String(n) \in Strings /\ Part(n) \in Strings
    /\ Bye \in Message
    /\ Expression \subseteq Message
  BY ClientAssumption DEF Ack, Strings, String, Part, Calls, Bye, Message, Expression

\* The variables have their types at the start.
LEMMA InitType == Init => TypeOK
  <1> SUFFICES ASSUME Init PROVE TypeOK
    OBVIOUS
  <1>1. Nothing \in (0..MaxCalls) \X Strings
    BY Carried, ClientAssumption DEF Nothing
  <1>2. got \in [Clients -> (0..MaxCalls) \X Strings]
    BY <1>1 DEF Init
  <1>3. calls \in 0..MaxCalls /\ asked \in [Clients -> 0..MaxCalls]
    BY ClientAssumption DEF Init
  <1>4. /\ toServer \in [Clients -> Seq(Message)]
        /\ toClient \in [Clients -> Seq(Strings)]
    <2>1. <<>> \in Seq(Message) /\ <<>> \in Seq(Strings)
      OBVIOUS
    <2>2. toServer = [c \in Clients |-> <<>>] /\ toClient = [c \in Clients |-> <<>>]
      BY DEF Init
    <2>3. toServer \in [Clients -> Seq(Message)]
      BY <2>1, <2>2, Zenon
    <2>4. toClient \in [Clients -> Seq(Strings)]
      BY <2>1, <2>2, Zenon
    <2> QED BY <2>3, <2>4
  <1>5. stdout \in Seq(Expression)
    <2>1. <<>> \in Seq(Expression)
      OBVIOUS
    <2> QED BY <2>1, Zenon DEF Init
  <1>6. stdin \in Seq(Strings) /\ stdio \in Seq(Strings)
    BY DEF Init
  <1>7. /\ csock \in Clients \cup {NOCLIENT}
        /\ csock = NOCLIENT <=> srv = "accept"
        /\ srv \in {"accept", "flush", "loop"}
        /\ dataRead \in BOOLEAN /\ givenUp \in BOOLEAN
        /\ state \in [Clients -> {"out", "idle", "ack", "value", "gone"}]
    BY DEF Init
  <1>8. parts \in 0..MaxParts
    BY ClientAssumption DEF Init
  <1> QED BY <1>2, <1>3, <1>4, <1>5, <1>6, <1>7, <1>8, Zenon DEF TypeOK

\* A line is a value, and the rest of what there is to read are values.
LEMMA FgetsType ==
    ASSUME stdin \in Seq(Strings), stdio \in Seq(Strings), stdin # <<>>
    PROVE  /\ Line \in Strings
           /\ fgets => stdin' \in Seq(Strings) /\ stdio' \in Seq(Strings)
  <1>1. Head(stdin) \in Strings /\ Tail(stdin) \in Seq(Strings)
    OBVIOUS
  <1>2. stdio # <<>> => Head(stdio) \in Strings /\ Tail(stdio) \in Seq(Strings)
    OBVIOUS
  <1>3. Line \in Strings
    BY <1>1, <1>2 DEF Line
  <1>4. fgets => stdin' \in Seq(Strings) /\ stdio' \in Seq(Strings)
    BY <1>1, <1>2 DEF fgets
  <1> QED BY <1>3, <1>4

\* What Process changes.
ServerTypes ==
    /\ toClient \in [Clients -> Seq(Strings)]
    /\ stdout \in Seq(Expression)
    /\ srv \in {"accept", "flush", "loop"}
    /\ csock \in Clients \cup {NOCLIENT}
    /\ csock = NOCLIENT <=> srv = "accept"

\* A string that is processed leaves what the server works with well typed.
LEMMA ProcessType ==
    ASSUME TypeOK, csock \in Clients, NEW m \in Message, Process(m)
    PROVE  ServerTypes'
  <1>1. m.kind # "bye" => m \in Expression
    BY DEF Message, Bye
  <1>2. CASE m.kind = "bye" /\ ProcessBye
    BY <1>2 DEF TypeOK, ServerTypes, ProcessBye, LeaveLoop
  <1>3. CASE m.kind \in {"eval", "rest"} /\ evalSkillString_sipc(m)
    BY <1>1, <1>3, Carried DEF TypeOK, ServerTypes, evalSkillString_sipc
  <1>4. CASE m.kind = "value" /\ evalSkillWithReturn_sipc(m)
    BY <1>1, <1>4 DEF TypeOK, ServerTypes, evalSkillWithReturn_sipc
  <1> QED BY <1>2, <1>3, <1>4 DEF Process

\* Every step keeps the types.
LEMMA StepType == TypeOK /\ [Next]_vars => TypeOK'
  <1> USE DEF sockets, pipes, server, client, Becomes
  <1>1. TypeOK /\ UNCHANGED vars => TypeOK'
    BY DEF TypeOK, vars
  <1>2. ASSUME NEW c \in Clients PROVE TypeOK /\ connect_ipc(c) => TypeOK'
    BY DEF TypeOK, connect_ipc
  <1>3. ASSUME NEW c \in Clients, NEW s \in {"ack", "value"}
        PROVE  TypeOK /\ Call(c, s) => TypeOK'
    <2> SUFFICES ASSUME TypeOK, Call(c, s) PROVE TypeOK'
      OBVIOUS
    <2>1. calls' \in 0..MaxCalls /\ calls' \in Calls
      BY ClientAssumption DEF TypeOK, Call, Calls
    <2>2. [n |-> calls + 1, kind |-> IF s = "ack" THEN "eval" ELSE "value"] \in Message
      BY <2>1 DEF Call, Message, Expression
    <2>3. toServer' \in [Clients -> Seq(Message)]
      BY <2>2 DEF TypeOK, Call, SendToServer
    <2> QED BY <2>1, <2>3 DEF TypeOK, Call
  <1>4. ASSUME NEW c \in Clients PROVE TypeOK /\ ReadAck(c) => TypeOK'
    <2> SUFFICES ASSUME TypeOK, ReadAck(c) PROVE TypeOK'
      OBVIOUS
    <2>1. toClient[c] \in Seq(Strings) /\ toClient[c] # <<>>
      BY DEF TypeOK, ReadAck
    <2>2. Head(toClient[c]) \in Strings /\ Tail(toClient[c]) \in Seq(Strings)
      BY <2>1
    <2>3. [Head(toClient[c]) EXCEPT !.whole = FALSE] \in Strings
      BY <2>2 DEF Strings
    <2>4. <<[Head(toClient[c]) EXCEPT !.whole = FALSE]>> \o Tail(toClient[c])
            \in Seq(Strings)
      BY <2>2, <2>3
    <2>5. toClient' \in [Clients -> Seq(Strings)]
      BY <2>2, <2>4 DEF TypeOK, ReadAck
    <2> QED BY <2>5 DEF TypeOK, ReadAck
  <1>5. ASSUME NEW c \in Clients PROVE TypeOK /\ ReadValue(c) => TypeOK'
    BY DEF TypeOK, ReadValue
  <1>6. ASSUME NEW c \in Clients PROVE TypeOK /\ TimeOut(c) => TypeOK'
    BY ClientAssumption, Carried DEF TypeOK, TimeOut, Nothing
  <1>7. ASSUME NEW c \in Clients PROVE TypeOK /\ disconnect_ipc(c) => TypeOK'
    BY Carried DEF TypeOK, disconnect_ipc, SendToServer
  <1>8. ASSUME NEW c \in Clients PROVE TypeOK /\ Die(c) => TypeOK'
    BY DEF TypeOK, Die
  <1>9. TypeOK /\ WaitForConnection => TypeOK'
    BY ClientAssumption DEF TypeOK, WaitForConnection
  <1>10. TypeOK /\ Flush => TypeOK'
    <2> SUFFICES ASSUME TypeOK, Flush PROVE TypeOK'
      OBVIOUS
    <2>1. CASE stdin # <<>>
      <3>1. fgets /\ UNCHANGED srv
        BY <2>1 DEF Flush
      <3>2. stdin' \in Seq(Strings) /\ stdio' \in Seq(Strings)
        BY <2>1, <3>1, FgetsType DEF TypeOK
      <3> QED BY <3>1, <3>2 DEF TypeOK, Flush
    <2>2. CASE stdin = <<>>
      BY <2>2 DEF TypeOK, Flush
    <2> QED BY <2>1, <2>2
  <1>11. TypeOK /\ ProcessInput => TypeOK'
    <2> SUFFICES ASSUME TypeOK, ProcessInput PROVE TypeOK'
      OBVIOUS
    <2> DEFINE m == Head(toServer[csock])
    <2>1. csock \in Clients
      BY DEF TypeOK, ProcessInput
    <2>2. m \in Message
      BY <2>1 DEF TypeOK, ProcessInput
    <2>3. toServer' \in [Clients -> Seq(Message)]
      BY <2>1 DEF TypeOK, ProcessInput
    <2>4. ServerTypes'
      BY <2>1, <2>2, ProcessType DEF TypeOK, ProcessInput
    <2> QED BY <2>3, <2>4 DEF TypeOK, ServerTypes, ProcessInput
  <1>15. TypeOK /\ ProcessPart => TypeOK'
    <2> SUFFICES ASSUME TypeOK, ProcessPart PROVE TypeOK'
      OBVIOUS
    <2> DEFINE m == Head(toServer[csock])
               r == [m EXCEPT !.kind = "rest"]
    <2>1. csock \in Clients
      BY DEF TypeOK, ProcessPart
    <2>2. m \in Message /\ Tail(toServer[csock]) \in Seq(Message)
      BY <2>1 DEF TypeOK, ProcessPart
    <2>3. r \in Message
      BY <2>2 DEF ProcessPart, Message, Expression
    <2>4. <<r>> \o Tail(toServer[csock]) \in Seq(Message)
      BY <2>2, <2>3
    <2>5. toServer' \in [Clients -> Seq(Message)]
      BY <2>1, <2>4 DEF TypeOK, ProcessPart
    <2>6. parts' \in 0..MaxParts
      BY ClientAssumption DEF TypeOK, ProcessPart
    <2>7. ServerTypes'
      BY <2>1, <2>2, ProcessType DEF TypeOK, ProcessPart
    <2> QED BY <2>5, <2>6, <2>7 DEF TypeOK, ServerTypes, ProcessPart
  <1>12. TypeOK /\ ReadEnd => TypeOK'
    BY DEF TypeOK, ReadEnd, LeaveLoop
  <1>13. TypeOK /\ evalSkillReturnHandler_sipc => TypeOK'
    <2> SUFFICES ASSUME TypeOK, evalSkillReturnHandler_sipc PROVE TypeOK'
      OBVIOUS
    <2>1. csock \in Clients
      BY DEF TypeOK, evalSkillReturnHandler_sipc
    <2>2. Line \in Strings /\ stdin' \in Seq(Strings) /\ stdio' \in Seq(Strings)
      BY FgetsType DEF TypeOK, evalSkillReturnHandler_sipc
    <2>3. toClient' \in [Clients -> Seq(Strings)]
      BY <2>1, <2>2, Carried DEF TypeOK, evalSkillReturnHandler_sipc
    <2> QED BY <2>2, <2>3 DEF TypeOK, evalSkillReturnHandler_sipc
  <1>14. TypeOK /\ Evaluate => TypeOK'
    <2> SUFFICES ASSUME TypeOK, Evaluate PROVE TypeOK'
      OBVIOUS
    <2>1. stdout \in Seq(Expression) /\ stdout # <<>> /\ stdout' = Tail(stdout)
      BY DEF TypeOK, Evaluate, Expression
    <2>2. Head(stdout) \in Expression /\ stdout' \in Seq(Expression)
      BY <2>1
    <2> DEFINE n == Head(stdout).n
    <2>3. String(n) \in Strings /\ Part(n) \in Strings
      BY <2>2, Carried DEF Expression
    <2>4. /\ Append(stdin, String(n)) \in Seq(Strings)
          /\ stdin \o <<Part(n), Part(n)>> \in Seq(Strings)
      BY <2>3 DEF TypeOK
    <2>5. stdin' \in Seq(Strings)
      BY <2>4 DEF TypeOK, Evaluate
    <2>6. parts' = parts \/ (parts < MaxParts /\ parts' = parts + 1)
      BY DEF Evaluate
    <2>7. parts' \in 0..MaxParts
      BY <2>6, ClientAssumption DEF TypeOK
    <2> QED BY <2>2, <2>5, <2>7 DEF TypeOK, Evaluate
  <1> QED BY <1>1, <1>2, <1>3, <1>4, <1>5, <1>6, <1>7, <1>8, <1>9, <1>10,
             <1>11, <1>12, <1>13, <1>14, <1>15 DEF Next, ClientStep, ServerStep

\* Whatever is asked, lost or late, the variables keep their types; the server has a
\* client whenever it does not wait for one.
THEOREM TypeCorrect == Spec => []TypeOK
  BY InitType, StepType, PTL DEF Spec
-----------------------------------------------------------------------------
(* Values that come late.                                                    *)

\* A client that has asked for nothing has nothing on its way to it, and the server
\* has read nothing from it.
Unasked(c) ==
    asked[c] = 0 =>
        /\ toClient[c] = <<>>
        /\ toServer[c] \in {<<>>, <<Bye>>}
        /\ state[c] # "gone" => toServer[c] = <<>>
        /\ csock = c => ~dataRead

\* Unasked is kept by every step.
LEMMA StepUnasked ==
    ASSUME TypeOK, [Next]_vars, \A c \in Clients : Unasked(c)
    PROVE  \A c \in Clients : Unasked(c)'
  <1> USE DEF sockets, pipes, server, client, Becomes
  <1> SUFFICES ASSUME NEW d \in Clients PROVE Unasked(d)'
    OBVIOUS
  <1>a. Unasked(d)
    OBVIOUS
  <1>t. /\ asked \in [Clients -> 0..MaxCalls] /\ calls \in Nat
        /\ state \in [Clients -> {"out", "idle", "ack", "value", "gone"}]
        /\ DOMAIN toServer = Clients /\ DOMAIN toClient = Clients
        /\ toServer = [c \in Clients |-> toServer[c]]
        /\ toClient = [c \in Clients |-> toClient[c]]
        /\ csock \in Clients \cup {NOCLIENT}
        /\ csock = NOCLIENT <=> srv = "accept"
        /\ NOCLIENT \notin Clients
    BY ClientAssumption DEF TypeOK
  <1>1. UNCHANGED vars => Unasked(d)'
    BY <1>a DEF Unasked, vars
  <1>2. ASSUME NEW c \in Clients, connect_ipc(c) PROVE Unasked(d)'
    BY <1>a, <1>t, <1>2 DEF Unasked, connect_ipc
  <1>3. ASSUME NEW c \in Clients, NEW s \in {"ack", "value"}, Call(c, s)
        PROVE  Unasked(d)'
    BY <1>a, <1>t, <1>3 DEF Unasked, Call, SendToServer
  <1>4. ASSUME NEW c \in Clients, ReadAck(c) PROVE Unasked(d)'
    BY <1>a, <1>t, <1>4 DEF Unasked, ReadAck
  <1>5. ASSUME NEW c \in Clients, ReadValue(c) PROVE Unasked(d)'
    BY <1>a, <1>t, <1>5 DEF Unasked, ReadValue
  <1>6. ASSUME NEW c \in Clients, TimeOut(c) PROVE Unasked(d)'
    BY <1>a, <1>t, <1>6 DEF Unasked, TimeOut
  <1>7. ASSUME NEW c \in Clients, disconnect_ipc(c) PROVE Unasked(d)'
    <2>1. CASE d = c
      <3>1. Append(<<>>, Bye) = <<Bye>>
        OBVIOUS
      <3> QED BY <1>a, <1>t, <1>7, <2>1, <3>1 DEF Unasked, disconnect_ipc, SendToServer
    <2>2. CASE d # c
      BY <1>a, <1>t, <1>7, <2>2 DEF Unasked, disconnect_ipc, SendToServer
    <2> QED BY <2>1, <2>2
  <1>8. ASSUME NEW c \in Clients, Die(c) PROVE Unasked(d)'
    BY <1>a, <1>t, <1>8 DEF Unasked, Die
  <1>9. ASSUME WaitForConnection PROVE Unasked(d)'
    BY <1>a, <1>9 DEF Unasked, WaitForConnection
  <1>10. ASSUME Flush PROVE Unasked(d)'
    BY <1>a, <1>10 DEF Unasked, Flush
  <1>11. ASSUME ProcessInput PROVE Unasked(d)'
    <2>1. CASE csock = d /\ asked[d] = 0
      <3>1. toServer[d] = <<Bye>>
        BY <1>a, <1>11, <2>1 DEF Unasked, ProcessInput
      <3>2. Head(toServer[d]) = Bye /\ Bye.kind = "bye"
        BY <3>1 DEF Bye
      <3>3. ProcessBye
        BY <1>11, <2>1, <3>2 DEF ProcessInput, Process
      <3> QED
        BY <1>a, <1>t, <1>11, <2>1, <3>3
        DEF Unasked, ProcessInput, ProcessBye, LeaveLoop
    <2>2. CASE csock = d /\ asked[d] # 0
      BY <1>11, <2>2 DEF Unasked, ProcessInput
    <2>3. CASE csock # d
      BY <1>a, <1>t, <1>11, <2>3
      DEF Unasked, ProcessInput, Process, ProcessBye, LeaveLoop, evalSkillString_sipc,
          evalSkillWithReturn_sipc
    <2> QED BY <2>1, <2>2, <2>3
  <1>15. ASSUME ProcessPart PROVE Unasked(d)'
    <2>1. CASE csock = d
      <3>1. Head(<<Bye>>) = Bye /\ Bye.kind = "bye"
        BY DEF Bye
      <3>2. asked[d] # 0
        BY <1>a, <1>15, <2>1, <3>1 DEF Unasked, ProcessPart
      <3> QED BY <1>15, <3>2 DEF Unasked, ProcessPart
    <2>2. CASE csock # d
      BY <1>a, <1>t, <1>15, <2>2
      DEF Unasked, ProcessPart, Process, ProcessBye, LeaveLoop, evalSkillString_sipc,
          evalSkillWithReturn_sipc
    <2> QED BY <2>1, <2>2
  <1>12. ASSUME ReadEnd PROVE Unasked(d)'
    BY <1>a, <1>t, <1>12 DEF Unasked, ReadEnd, LeaveLoop
  <1>13. ASSUME evalSkillReturnHandler_sipc PROVE Unasked(d)'
    BY <1>a, <1>t, <1>13 DEF Unasked, evalSkillReturnHandler_sipc
  <1>14. ASSUME Evaluate PROVE Unasked(d)'
    BY <1>a, <1>14 DEF Unasked, Evaluate
  <1> QED BY <1>1, <1>2, <1>3, <1>4, <1>5, <1>6, <1>7, <1>8, <1>9, <1>10,
             <1>11, <1>12, <1>13, <1>14, <1>15 DEF Next, ClientStep, ServerStep

\* A value that one application did not wait for never reaches the next before that
\* has asked for something itself, whoever times out or is killed.
THEOREM NothingIsUnasked == Spec => []NothingUnasked
  <1>1. Init => \A c \in Clients : Unasked(c)
    BY ClientAssumption DEF Init, Unasked
  <1>2. TypeOK /\ (\A c \in Clients : Unasked(c)) /\ [Next]_vars
            => (\A c \in Clients : Unasked(c))'
    BY StepUnasked
  <1>3. (\A c \in Clients : Unasked(c)) => NothingUnasked
    BY DEF Unasked, NothingUnasked
  <1> QED BY <1>1, <1>2, <1>3, TypeCorrect, PTL DEF Spec

-----------------------------------------------------------------------------
(* Patient clients.                                                          *)

Request(c, kind) == <<[n |-> asked[c], kind |-> kind]>>

\* No value is asked for or on its way back.
NoValue ==
    /\ stdin = <<>>
    /\ \A i \in 1..Len(stdout) : stdout[i].kind = "eval"

\* The value of call n is the last that is asked for, or is on its way back.
OneValue(n) ==
    \/ /\ stdin = <<String(n)>>
       /\ \A i \in 1..Len(stdout) : stdout[i].kind = "eval"
    \/ /\ stdin = <<>>
       /\ stdout # <<>> /\ stdout[Len(stdout)] = [n |-> n, kind |-> "value"]
       /\ \A i \in 1..(Len(stdout) - 1) : stdout[i].kind = "eval"

\* Client c's value is with Cadence.
Served(c) ==
    /\ csock = c /\ state[c] = "value"
    /\ toServer[c] = <<>> /\ toClient[c] = <<>>

\* A client's call is in one place: its socket to the server, Cadence, or its socket
\* from the server.
OnePlace(c) ==
    /\ state[c] \in {"out", "idle"} => toServer[c] = <<>> /\ toClient[c] = <<>>
    /\ state[c] = "gone" => toServer[c] \in {<<>>, <<Bye>>} /\ toClient[c] = <<>>
    /\ state[c] = "ack" =>
        \/ toServer[c] = Request(c, "eval") /\ toClient[c] = <<>>
        \/ toServer[c] = <<>> /\ toClient[c] = <<Ack>>
    /\ state[c] = "value" =>
        \/ toServer[c] = Request(c, "value") /\ toClient[c] = <<>>
        \/ toServer[c] = <<>> /\ toClient[c] = <<String(asked[c])>>
        \/ Served(c) /\ srv = "loop" /\ dataRead /\ OneValue(asked[c])

NoneElsewhere == NoValue \/ \E c \in Clients : Served(c)

\* What patience amounts to.
Paired ==
    /\ stdio = <<>>
    /\ \A c \in Clients : OnePlace(c)
    /\ NoneElsewhere
    /\ ReturnsEvalResult

Patient == ~givenUp /\ parts = 0 => Paired

\* The types that the steps below need.
Types ==
    /\ state \in [Clients -> {"out", "idle", "ack", "value", "gone"}]
    /\ asked \in [Clients -> 0..MaxCalls]
    /\ got = [c \in Clients |-> got[c]]
    /\ toServer \in [Clients -> Seq(Message)]
    /\ toClient = [c \in Clients |-> toClient[c]]
    /\ stdout \in Seq(Expression)
    /\ csock \in Clients \cup {NOCLIENT}
    /\ csock = NOCLIENT <=> srv = "accept"
    /\ NOCLIENT \notin Clients
    /\ parts \in Nat

\* They are types.
LEMMA TypesHold == TypeOK => Types
  BY ClientAssumption DEF TypeOK, Types, Expression

\* A step that leaves a client and what it waits for alone leaves its call in place.
LEMMA OthersKeep ==
    ASSUME NEW d \in Clients, OnePlace(d),
           UNCHANGED <<state[d], asked[d], toServer[d], toClient[d]>>,
           ~Served(d) \/ UNCHANGED <<csock, srv, dataRead, stdin, stdout>>
    PROVE  OnePlace(d)'
  <1>1. (asked[d])' = asked[d] /\ (state[d])' = state[d]
        /\ (toServer[d])' = toServer[d] /\ (toClient[d])' = toClient[d]
    OBVIOUS
  <1>2. CASE ~Served(d)
    BY <1>1, <1>2 DEF OnePlace, Request
  <1>3. CASE UNCHANGED <<csock, srv, dataRead, stdin, stdout>>
    BY <1>1, <1>3 DEF OnePlace, Request, Served, OneValue
  <1> QED BY <1>2, <1>3

\* Cadence answers in one line, or evaluates what needs no answer.
LEMMA EvaluateMoves ==
    ASSUME stdout \in Seq(Expression), Evaluate, parts \in Nat, parts' = 0,
           NEW n \in Nat
    PROVE  /\ NoValue => NoValue'
           /\ OneValue(n) => OneValue(n)'
  <1> DEFINE L == Len(stdout)
  <1>1. /\ L \in Nat \ {0} /\ stdout # <<>>
        /\ Head(stdout) = stdout[1]
        /\ Len(Tail(stdout)) = L - 1
        /\ \A i \in 1..(L - 1) : Tail(stdout)[i] = stdout[i + 1]
        /\ Tail(stdout) \in Seq(Expression)
    BY EmptySeq, HeadTailProperties DEF Evaluate
  <1>2. /\ stdout' = Tail(stdout)
        /\ stdout[1].kind # "value" => stdin' = stdin
        /\ stdout[1].kind = "value" => stdin' = Append(stdin, String(stdout[1].n))
    BY <1>1 DEF Evaluate
  <1>3. ASSUME \A i \in 1..L : stdout[i].kind = "eval"
        PROVE  /\ stdin' = stdin
               /\ \A i \in 1..Len(stdout') : stdout'[i].kind = "eval"
    <2>1. stdin' = stdin
      BY <1>1, <1>2, <1>3
    <2>2. ASSUME NEW i \in 1..(L - 1) PROVE Tail(stdout)[i].kind = "eval"
      <3>1. i + 1 \in 1..L /\ Tail(stdout)[i] = stdout[i + 1]
        BY <1>1
      <3> QED BY <3>1, <1>3
    <2> QED BY <1>1, <1>2, <2>1, <2>2
  <1>4. NoValue => NoValue'
    BY <1>3 DEF NoValue
  <1>5. ASSUME OneValue(n) PROVE OneValue(n)'
    <2>1. CASE stdin = <<String(n)>> /\ \A i \in 1..L : stdout[i].kind = "eval"
      BY <1>3, <2>1 DEF OneValue
    <2>2. CASE /\ stdin = <<>>
               /\ stdout[L] = [n |-> n, kind |-> "value"]
               /\ \A i \in 1..(L - 1) : stdout[i].kind = "eval"
      <3>1. CASE L = 1
        <4>1. stdout' = <<>> /\ Len(stdout') = 0
          BY <1>1, <1>2, <3>1
        <4>2. stdin' = <<String(n)>>
          <5>1. Append(<<>>, String(n)) = <<String(n)>>
            OBVIOUS
          <5> QED BY <1>2, <2>2, <3>1, <5>1
        <4> QED BY <4>1, <4>2 DEF OneValue
      <3>2. CASE L # 1
        <4>1. L - 1 \in Nat \ {0} /\ 1 \in 1..(L - 1)
          BY <1>1, <3>2
        <4>2. stdin' = <<>>
          BY <1>2, <2>2, <4>1
        <4>3. Len(stdout') = L - 1 /\ stdout' # <<>>
          BY <1>1, <1>2, <4>1
        <4>4. stdout'[Len(stdout')] = [n |-> n, kind |-> "value"]
          <5>1. L - 1 \in 1..(L - 1) /\ (L - 1) + 1 = L
            BY <4>1
          <5>2. Tail(stdout)[L - 1] = stdout[L]
            BY <5>1, <1>1
          <5> QED BY <5>2, <4>3, <1>2, <2>2
        <4>5. ASSUME NEW i \in 1..(Len(stdout') - 1) PROVE stdout'[i].kind = "eval"
          <5>1. i \in 1..(L - 1) /\ i + 1 \in 1..(L - 1)
            BY <4>3, <1>1
          <5>2. Tail(stdout)[i] = stdout[i + 1]
            BY <5>1, <1>1
          <5> QED BY <5>1, <5>2, <1>2, <2>2
        <4> QED BY <4>2, <4>3, <4>4, <4>5 DEF OneValue
      <3> QED BY <3>1, <3>2
    <2> QED BY <1>5, <2>1, <2>2 DEF OneValue
  <1> QED BY <1>4, <1>5

\* The server forwards an expression to a Cadence that owes no value.
LEMMA ForwardMoves ==
    ASSUME stdout \in Seq(Expression), NEW m \in Expression, NoValue,
           stdout' = Append(stdout, m), stdin' = stdin
    PROVE  /\ m.kind = "eval" => NoValue'
           /\ m.kind = "value" => OneValue(m.n)'
  <1> DEFINE L == Len(stdout)
  <1>1. /\ L \in Nat /\ Len(stdout') = L + 1 /\ stdout' # <<>>
        /\ stdout'[L + 1] = m
        /\ \A i \in 1..L : stdout'[i] = stdout[i]
    BY AppendProperties
  <1>2. stdin' = <<>> /\ \A i \in 1..L : stdout'[i].kind = "eval"
    BY <1>1 DEF NoValue
  <1>3. ASSUME m.kind = "eval" PROVE NoValue'
    <2>1. ASSUME NEW i \in 1..(L + 1) PROVE stdout'[i].kind = "eval"
      BY <1>1, <1>2, <1>3
    <2> QED BY <1>1, <1>2, <2>1 DEF NoValue
  <1>4. ASSUME m.kind = "value" PROVE OneValue(m.n)'
    <2>1. m = [n |-> m.n, kind |-> "value"]
      BY <1>4 DEF Expression
    <2>2. Len(stdout') - 1 = L
      BY <1>1
    <2> QED BY <1>1, <1>2, <2>1, <2>2 DEF OneValue
  <1> QED BY <1>3, <1>4

\* A step of a client or of the server that changes neither Cadence's pipes nor what
\* the served client waits for leaves the values where they are.
LEMMA ValuesStay ==
    ASSUME NoneElsewhere, UNCHANGED <<stdin, stdout, csock>>,
           \A d \in Clients :
              Served(d) => UNCHANGED <<state[d], toServer[d], toClient[d]>>
    PROVE  NoneElsewhere'
  BY DEF NoneElsewhere, NoValue, Served

\* The call of a client that the server has read and not answered is with Cadence.
LEMMA ServedPlace ==
    ASSUME NEW c \in Clients, OnePlace(c), Served(c)
    PROVE  srv = "loop" /\ dataRead /\ OneValue(asked[c])
  <1>1. Request(c, "value") # <<>> /\ <<String(asked[c])>> # <<>>
    BY DEF Request
  <1> QED BY <1>1 DEF OnePlace, Served

\* Every step keeps calls and values together.
LEMMA StepPaired ==
    ASSUME Types, Paired, Next, ~givenUp', parts' = 0
    PROVE  Paired'
  <1> USE DEF sockets, pipes, server, client, Becomes
  <1>f. Types
    OBVIOUS
  <1>a. /\ stdio = <<>> /\ ReturnsEvalResult
        /\ \A c \in Clients : OnePlace(c)
        /\ NoneElsewhere
    BY DEF Paired
  <1>2. ASSUME NEW c \in Clients, connect_ipc(c) PROVE Paired'
    <2>1. OnePlace(c)'
      BY <1>a, <1>f, <1>2 DEF Types, connect_ipc, OnePlace
    <2>2. ASSUME NEW d \in Clients, d # c PROVE OnePlace(d)'
      BY <1>a, <1>f, <1>2, <2>2, OthersKeep DEF Types, connect_ipc
    <2>3. NoneElsewhere'
      BY <1>a, <1>f, <1>2, ValuesStay DEF Types, connect_ipc, Served
    <2> QED BY <1>a, <1>2, <2>1, <2>2, <2>3 DEF Paired, connect_ipc, ReturnsEvalResult
  <1>3. ASSUME NEW c \in Clients, NEW s \in {"ack", "value"}, Call(c, s)
        PROVE  Paired'
    <2>1. OnePlace(c)'
      <3>1. toServer[c] = <<>> /\ toClient[c] = <<>>
        BY <1>a, <1>3 DEF Call, OnePlace
      <3> DEFINE m == [n |-> calls + 1, kind |-> IF s = "ack" THEN "eval" ELSE "value"]
      <3>2. (toServer[c])' = <<m>>
        <4>1. Append(<<>>, m) = <<m>>
          OBVIOUS
        <4>2. (toServer[c])' = Append(toServer[c], m)
          BY <1>f, <1>3 DEF Types, Call, SendToServer
        <4> QED BY <4>1, <4>2, <3>1
      <3>3. /\ (asked[c])' = calls + 1 /\ (toClient[c])' = <<>>
            /\ (state[c])' = s
        BY <1>f, <1>3, <3>1 DEF Types, Call
      <3> QED BY <3>2, <3>3 DEF OnePlace, Request
    <2>2. ASSUME NEW d \in Clients, d # c PROVE OnePlace(d)'
      BY <1>a, <1>f, <1>3, <2>2, OthersKeep DEF Types, Call, SendToServer
    <2>3. NoneElsewhere'
      BY <1>a, <1>f, <1>3, ValuesStay DEF Types, Call, SendToServer, Served
    <2> QED BY <1>a, <1>3, <2>1, <2>2, <2>3 DEF Paired, Call, ReturnsEvalResult
  <1>4. ASSUME NEW c \in Clients, ReadAck(c) PROVE Paired'
    <2>0. toServer[c] = <<>> /\ toClient[c] = <<Ack>>
      BY <1>a, <1>4 DEF ReadAck, OnePlace
    <2>1. OnePlace(c)'
      <3>1. Head(<<Ack>>).n = 0 /\ Tail(<<Ack>>) = <<>>
        BY DEF Ack, String
      <3>2. (toClient[c])' = <<>> /\ (toServer[c])' = <<>> /\ (state[c])' = "idle"
        BY <1>f, <1>4, <2>0, <3>1 DEF Types, ReadAck
      <3> QED BY <3>2 DEF OnePlace
    <2>2. ASSUME NEW d \in Clients, d # c PROVE OnePlace(d)'
      BY <1>a, <1>f, <1>4, <2>2, OthersKeep DEF Types, ReadAck
    <2>3. NoneElsewhere'
      BY <1>a, <1>f, <1>4, ValuesStay DEF Types, ReadAck, Served
    <2> QED BY <1>a, <1>4, <2>1, <2>2, <2>3 DEF Paired, ReadAck, ReturnsEvalResult
  <1>5. ASSUME NEW c \in Clients, ReadValue(c) PROVE Paired'
    <2>0. toServer[c] = <<>> /\ toClient[c] = <<String(asked[c])>>
      BY <1>a, <1>5 DEF ReadValue, OnePlace, Served
    <2>1. OnePlace(c)'
      <3>1. (toClient[c])' = <<>> /\ (toServer[c])' = <<>> /\ (state[c])' = "idle"
        BY <1>f, <1>5, <2>0 DEF Types, ReadValue
      <3> QED BY <3>1 DEF OnePlace
    <2>2. ASSUME NEW d \in Clients, d # c PROVE OnePlace(d)'
      BY <1>a, <1>f, <1>5, <2>2, OthersKeep DEF Types, ReadValue
    <2>3. NoneElsewhere'
      BY <1>a, <1>f, <1>5, <2>0, ValuesStay DEF Types, ReadValue, Served
    <2>4. ReturnsEvalResult'
      <3>1. (got[c])' = <<asked[c], String(asked[c])>>
        BY <1>f, <1>5, <2>0 DEF Types, ReadValue
      <3>2. \A d \in Clients : d # c => (got[d])' = got[d]
        BY <1>f, <1>5 DEF Types, ReadValue
      <3>3. (got[c])'[2] = String((got[c])'[1])
        BY <3>1
      <3>4. ASSUME NEW d \in Clients, d # c PROVE (got[d])'[2] = String((got[d])'[1])
        BY <1>a, <3>2, <3>4 DEF ReturnsEvalResult
      <3> QED BY <3>3, <3>4 DEF ReturnsEvalResult, String
    <2> QED BY <1>a, <1>5, <2>1, <2>2, <2>3, <2>4 DEF Paired, ReadValue
  <1>6. ASSUME NEW c \in Clients, TimeOut(c) PROVE Paired'
    BY <1>6 DEF TimeOut
  <1>7. ASSUME NEW c \in Clients, disconnect_ipc(c) PROVE Paired'
    <2>1. OnePlace(c)'
      <3>1. toServer[c] = <<>> /\ toClient[c] = <<>>
        BY <1>a, <1>7 DEF disconnect_ipc, OnePlace
      <3>2. Append(<<>>, Bye) = <<Bye>>
        OBVIOUS
      <3>3. /\ (toServer[c])' = <<Bye>> /\ (toClient[c])' = <<>>
            /\ (state[c])' = "gone"
        BY <1>f, <1>7, <3>1, <3>2 DEF Types, disconnect_ipc, SendToServer
      <3> QED BY <3>3 DEF OnePlace
    <2>2. ASSUME NEW d \in Clients, d # c PROVE OnePlace(d)'
      BY <1>a, <1>f, <1>7, <2>2, OthersKeep DEF Types, disconnect_ipc, SendToServer
    <2>3. NoneElsewhere'
      BY <1>a, <1>f, <1>7, ValuesStay DEF Types, disconnect_ipc, SendToServer, Served
    <2> QED
      BY <1>a, <1>7, <2>1, <2>2, <2>3 DEF Paired, disconnect_ipc, ReturnsEvalResult
  <1>8. ASSUME NEW c \in Clients, Die(c) PROVE Paired'
    <2>0. state[c] = "idle"
      BY <1>8 DEF Die
    <2>1. OnePlace(c)'
      <3>1. (toServer[c])' = <<>> /\ (toClient[c])' = <<>> /\ (state[c])' = "gone"
        BY <1>a, <1>f, <1>8, <2>0 DEF Types, Die, OnePlace
      <3> QED BY <3>1 DEF OnePlace
    <2>2. ASSUME NEW d \in Clients, d # c PROVE OnePlace(d)'
      BY <1>a, <1>f, <1>8, <2>2, OthersKeep DEF Types, Die
    <2>3. NoneElsewhere'
      BY <1>a, <1>f, <1>8, <2>0, ValuesStay DEF Types, Die, Served
    <2> QED BY <1>a, <1>8, <2>1, <2>2, <2>3 DEF Paired, Die, ReturnsEvalResult
  <1>9. ASSUME WaitForConnection PROVE Paired'
    <2>0. \A c \in Clients : ~Served(c)
      BY <1>f, <1>9 DEF Types, WaitForConnection, Served
    <2>1. ASSUME NEW d \in Clients PROVE OnePlace(d)'
      BY <1>a, <1>f, <1>9, <2>0, OthersKeep DEF Types, WaitForConnection
    <2>2. NoneElsewhere'
      BY <1>a, <1>9, <2>0 DEF WaitForConnection, NoneElsewhere, NoValue
    <2> QED BY <1>a, <1>9, <2>1, <2>2 DEF Paired, WaitForConnection, ReturnsEvalResult
  <1>10. ASSUME Flush PROVE Paired'
    <2>0. \A c \in Clients : ~Served(c)
      <3> SUFFICES ASSUME NEW c \in Clients, Served(c) PROVE FALSE
        OBVIOUS
      <3>1. srv = "loop"
        BY <1>a, ServedPlace
      <3> QED BY <1>10, <3>1 DEF Flush
    <2>1. NoValue /\ stdin = <<>>
      BY <1>a, <2>0 DEF NoneElsewhere, NoValue
    <2>2. UNCHANGED <<stdin, stdio, stdout, csock, dataRead, client, sockets>>
      BY <1>10, <2>1 DEF Flush
    <2>3. ASSUME NEW d \in Clients PROVE OnePlace(d)'
      BY <1>a, <2>0, <2>2, OthersKeep
    <2>4. NoneElsewhere'
      BY <2>1, <2>2 DEF NoneElsewhere, NoValue
    <2> QED BY <1>a, <2>2, <2>3, <2>4 DEF Paired, ReturnsEvalResult
  <1>12. ASSUME ReadEnd PROVE Paired'
    <2>0. \A c \in Clients : ~Served(c)
      BY <1>12 DEF ReadEnd, Served
    <2>1. ASSUME NEW d \in Clients PROVE OnePlace(d)'
      BY <1>a, <1>12, <2>0, OthersKeep DEF ReadEnd
    <2>2. NoneElsewhere'
      BY <1>a, <1>12, <2>0 DEF ReadEnd, NoneElsewhere, NoValue
    <2> QED BY <1>a, <1>12, <2>1, <2>2 DEF Paired, ReadEnd, ReturnsEvalResult
  <1>13. ASSUME evalSkillReturnHandler_sipc PROVE Paired'
    <2>0. PICK c \in Clients : c = csock
      BY <1>f, <1>13 DEF Types, evalSkillReturnHandler_sipc
    <2>1. c \in Clients /\ csock = c /\ csock' = c
      BY <1>13, <2>0 DEF evalSkillReturnHandler_sipc
    <2>2. Served(c)
      BY <1>a, <1>13, <2>1 DEF NoneElsewhere, NoValue, Served, evalSkillReturnHandler_sipc
    <2>3. dataRead /\ OneValue(asked[c])
      BY <1>a, <2>1, <2>2, ServedPlace
    <2>4. stdin = <<String(asked[c])>> /\ \A i \in 1..Len(stdout) : stdout[i].kind = "eval"
      BY <1>13, <2>3 DEF OneValue, evalSkillReturnHandler_sipc
    <2>5. stdin' = <<>> /\ stdio' = <<>> /\ Line = String(asked[c])
      BY <1>a, <1>13, <2>4 DEF evalSkillReturnHandler_sipc, fgets, Line
    <2>6. OnePlace(c)'
      <3>1. Append(<<>>, String(asked[c])) = <<String(asked[c])>>
        OBVIOUS
      <3>2. (toClient[c])' = <<String(asked[c])>>
        BY <1>f, <1>13, <2>1, <2>2, <2>3, <2>5, <3>1
        DEF Types, evalSkillReturnHandler_sipc, Served
      <3>3. (toServer[c])' = <<>> /\ (state[c])' = "value" /\ (asked[c])' = asked[c]
        BY <1>13, <2>1, <2>2 DEF evalSkillReturnHandler_sipc, Served
      <3> QED BY <3>2, <3>3 DEF OnePlace, String
    <2>7. ASSUME NEW d \in Clients, d # c PROVE OnePlace(d)'
      BY <1>a, <1>f, <1>13, <2>1, <2>7, OthersKeep
      DEF Types, evalSkillReturnHandler_sipc, Served
    <2>8. NoneElsewhere'
      BY <1>13, <2>4, <2>5 DEF evalSkillReturnHandler_sipc, NoneElsewhere, NoValue
    <2> QED
      BY <1>a, <1>13, <2>5, <2>6, <2>7, <2>8
      DEF Paired, evalSkillReturnHandler_sipc, ReturnsEvalResult
  <1>14. ASSUME Evaluate PROVE Paired'
    <2>1. ASSUME NEW d \in Clients PROVE OnePlace(d)'
      <3>1. CASE Served(d)
        <4>1. /\ srv = "loop" /\ dataRead /\ OneValue(asked[d])
          BY <1>a, <3>1, ServedPlace
        <4>2. asked[d] \in Nat
          BY <1>f, ClientAssumption DEF Types
        <4>3. OneValue(asked[d])'
          BY <1>f, <1>14, <4>1, <4>2, EvaluateMoves DEF Types, Evaluate
        <4> QED BY <1>14, <3>1, <4>1, <4>3 DEF OnePlace, Served, Evaluate
      <3>2. CASE ~Served(d)
        BY <1>a, <1>14, <3>2, OthersKeep DEF Evaluate
      <3> QED BY <3>1, <3>2
    <2>2. NoneElsewhere'
      BY <1>a, <1>f, <1>14, EvaluateMoves DEF Types, NoneElsewhere, Served, Evaluate
    <2> QED BY <1>a, <1>14, <2>1, <2>2 DEF Paired, Evaluate, ReturnsEvalResult
  <1>11. ASSUME ProcessInput PROVE Paired'
    <2>0. PICK c \in Clients : c = csock
      BY <1>f, <1>11 DEF Types, ProcessInput
    <2>1. c \in Clients /\ csock = c
      BY <2>0
    <2>m. PICK m : m = Head(toServer[c])
      OBVIOUS
    <2>2. \A d \in Clients : ~Served(d)
      BY <1>11 DEF ProcessInput, Served
    <2>3. NoValue
      BY <1>a, <2>2 DEF NoneElsewhere
    <2>4. (toServer[c])' = <<>> /\ (state[c])' = state[c] /\ (asked[c])' = asked[c]
      BY <1>f, <1>11, <2>1 DEF Types, ProcessInput
    <2>5. ASSUME NEW d \in Clients, d # c PROVE OnePlace(d)'
      BY <1>a, <1>f, <1>11, <2>1, <2>2, <2>5, OthersKeep
      DEF Types, ProcessInput, Process, ProcessBye, LeaveLoop, evalSkillString_sipc,
          evalSkillWithReturn_sipc
    <2>6. UNCHANGED <<stdin, stdio, got>>
      BY <1>11 DEF ProcessInput
    <2>7. \/ state[c] = "gone" /\ m = Bye
          \/ state[c] = "ack" /\ m = [n |-> asked[c], kind |-> "eval"]
          \/ state[c] = "value" /\ m = [n |-> asked[c], kind |-> "value"]
      <3>1. state[c] \in {"gone", "ack", "value"} /\ toServer[c] # <<>>
        <4>1. toServer[c] # <<>>
          BY <1>11, <2>1 DEF ProcessInput
        <4>2. state[c] \in {"out", "idle", "ack", "value", "gone"}
          BY <1>f DEF Types
        <4>3. state[c] \in {"out", "idle"} => toServer[c] = <<>>
          BY <1>a DEF OnePlace
        <4> QED BY <4>1, <4>2, <4>3
      <3>2. CASE state[c] = "gone"
        BY <1>a, <2>1, <2>m, <3>1, <3>2 DEF OnePlace
      <3>3. CASE state[c] = "ack"
        <4>1. toServer[c] = Request(c, "eval")
          BY <1>a, <3>1, <3>3 DEF OnePlace
        <4>2. Head(Request(c, "eval")) = [n |-> asked[c], kind |-> "eval"]
          BY DEF Request
        <4> QED BY <2>m, <3>3, <4>1, <4>2
      <3>4. CASE state[c] = "value"
        <4>1. toServer[c] = Request(c, "value")
          BY <1>a, <2>2, <3>1, <3>4 DEF OnePlace
        <4>2. Head(Request(c, "value")) = [n |-> asked[c], kind |-> "value"]
          BY DEF Request
        <4> QED BY <2>m, <3>4, <4>1, <4>2
      <3> QED BY <3>1, <3>2, <3>3, <3>4
    <2>8. toClient[c] = <<>>
      <3>1. toServer[c] # <<>>
        BY <1>11, <2>1 DEF ProcessInput
      <3>2. toServer[c] # <<>> /\ state[c] # "value" => toClient[c] = <<>>
        BY <1>a, <2>7 DEF OnePlace
      <3>3. toServer[c] # <<>> /\ state[c] = "value" => toClient[c] = <<>>
        BY <1>a, <2>2 DEF OnePlace
      <3> QED BY <3>1, <3>2, <3>3
    <2>9. m.kind = "bye" => ProcessBye
      BY <1>11, <2>1, <2>m, <2>7 DEF ProcessInput, Process, Bye
    <2>10. m.kind = "eval" => evalSkillString_sipc(m)
      BY <1>11, <2>1, <2>m, <2>7 DEF ProcessInput, Process, Bye
    <2>11. m.kind = "value" => evalSkillWithReturn_sipc(m)
      BY <1>11, <2>1, <2>m, <2>7 DEF ProcessInput, Process, Bye
    <2>12. dataRead' /\ srv = "loop"
      BY <1>11 DEF ProcessInput
    <2>13. CASE m.kind = "bye"
      <3>1. ProcessBye /\ state[c] = "gone"
        BY <2>7, <2>9, <2>13
      <3>2. OnePlace(c)'
        BY <2>4, <2>8, <3>1 DEF ProcessBye, LeaveLoop, OnePlace
      <3>3. NoneElsewhere'
        BY <2>3, <2>6, <3>1 DEF ProcessBye, NoneElsewhere, NoValue
      <3> QED BY <1>a, <2>5, <2>6, <3>2, <3>3 DEF Paired, ReturnsEvalResult
    <2>14. CASE m.kind = "eval"
      <3>1. evalSkillString_sipc(m) /\ state[c] = "ack"
        BY <2>7, <2>10, <2>14 DEF Bye
      <3>2. m \in Expression
        BY <1>f, <1>11, <2>1, <2>m, <2>14 DEF Types, ProcessInput, Message, Expression
      <3>3. (toClient[c])' = <<Ack>>
        <4>1. Append(<<>>, Ack) = <<Ack>>
          OBVIOUS
        <4> QED BY <1>f, <2>1, <2>8, <3>1, <4>1 DEF Types, evalSkillString_sipc
      <3>4. OnePlace(c)'
        BY <2>4, <3>1, <3>3 DEF OnePlace
      <3>5. NoneElsewhere'
        BY <1>f, <2>3, <2>6, <2>14, <3>1, <3>2, ForwardMoves
        DEF Types, evalSkillString_sipc, NoneElsewhere
      <3> QED BY <1>a, <2>5, <2>6, <3>4, <3>5 DEF Paired, ReturnsEvalResult
    <2>15. CASE m.kind = "value"
      <3>1. /\ evalSkillWithReturn_sipc(m)
            /\ state[c] = "value" /\ m.n = asked[c]
        BY <2>7, <2>11, <2>15 DEF Bye
      <3>2. m \in Expression
        BY <1>f, <1>11, <2>1, <2>m, <2>15 DEF Types, ProcessInput, Message, Expression
      <3>3. OneValue(asked[c])'
        <4>1. OneValue(m.n)'
          BY <1>f, <2>3, <2>6, <2>15, <3>1, <3>2, ForwardMoves
          DEF Types, evalSkillWithReturn_sipc
        <4> QED BY <2>4, <3>1, <4>1
      <3>4. Served(c)' /\ srv' = "loop"
        BY <2>1, <2>4, <2>8, <2>12, <3>1 DEF Served, evalSkillWithReturn_sipc
      <3>5. OnePlace(c)'
        BY <2>4, <2>12, <3>1, <3>3, <3>4 DEF OnePlace
      <3>6. NoneElsewhere'
        BY <2>1, <3>4 DEF NoneElsewhere
      <3> QED BY <1>a, <2>5, <2>6, <3>5, <3>6 DEF Paired, ReturnsEvalResult
    <2> QED BY <2>7, <2>13, <2>14, <2>15 DEF Bye
  <1>15. ASSUME ProcessPart PROVE Paired'
    BY <1>f, <1>15 DEF Types, ProcessPart
  <1> QED BY <1>2, <1>3, <1>4, <1>5, <1>6, <1>7, <1>8, <1>9, <1>10, <1>11, <1>12,
             <1>13, <1>14, <1>15 DEF Next, ClientStep, ServerStep

\* As long as every application waits for its answers, every expression arrives in one
\* piece and no value is longer than fgets takes, each application gets the value of
\* its own expression, whatever expressions are mixed and in whatever order
\* applications follow each other.
THEOREM PatientAlwaysGetsOwn == Spec => []PatientGetsOwn
  <1>1. Init => Patient
    <2> SUFFICES ASSUME Init PROVE Paired
      BY DEF Patient
    <2>1. NoneElsewhere /\ stdio = <<>>
      BY DEF Init, NoneElsewhere, NoValue
    <2>2. ASSUME NEW c \in Clients PROVE OnePlace(c)
      BY DEF Init, OnePlace
    <2>3. ReturnsEvalResult
      BY DEF Init, ReturnsEvalResult, Nothing, Ack, String
    <2> QED BY <2>1, <2>2, <2>3 DEF Paired
  <1>2. TypeOK /\ Patient /\ [Next]_vars => Patient'
    <2> SUFFICES ASSUME TypeOK, Patient, [Next]_vars, ~givenUp', parts' = 0 PROVE Paired'
      BY DEF Patient
    <2>1. CASE UNCHANGED vars
      BY <2>1 DEF Patient, Paired, vars, client, sockets, pipes, server, OnePlace,
         Request, Served, OneValue, NoneElsewhere, NoValue, ReturnsEvalResult
    <2>2. CASE Next
      <3>1. ~givenUp
        BY <2>2 DEF TypeOK, Next, ClientStep, ServerStep, connect_ipc, Call, ReadAck,
           ReadValue, TimeOut, disconnect_ipc, Die, WaitForConnection, Flush,
           ProcessInput, ProcessPart, ReadEnd, evalSkillReturnHandler_sipc, Evaluate, client
      <3>2. parts' = parts \/ parts' = parts + 1
        BY <2>2 DEF Next, ClientStep, ServerStep, connect_ipc, Call, ReadAck,
           ReadValue, TimeOut, disconnect_ipc, Die, WaitForConnection, Flush,
           ProcessInput, ProcessPart, ReadEnd, evalSkillReturnHandler_sipc, Evaluate
      <3>3. parts = 0
        BY <3>2, TypesHold DEF Types
      <3> QED BY <2>2, <3>1, <3>3, TypesHold, StepPaired DEF Patient
    <2> QED BY <2>1, <2>2
  <1>3. Patient => PatientGetsOwn
    BY DEF Patient, Paired, PatientGetsOwn
  <1> QED BY <1>1, <1>2, <1>3, TypeCorrect, PTL DEF Spec
=============================================================================
