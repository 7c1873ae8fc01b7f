----------------------------- MODULE ServerIpc -----------------------------
(***************************************************************************)
(* server_ipc: a program started by the Cadence process, which forwards     *)
(* expressions that applications send it to Cadence, over its standard      *)
(* output, and the values that come back on its standard input to the       *)
(* application (dmserver/server_ipc.c; the client functions in the same     *)
(* file are linked into the applications).                                  *)
(*                                                                         *)
(* Applications are served one at a time; others wait in the listen queue.  *)
(* A call that only evaluates is acknowledged at once, one that wants a     *)
(* value sends "#expression" and takes the next string that comes.  Nothing *)
(* pairs values with calls but their order, and nothing marks where a value *)
(* or an expression ends but the line and what one recv returns.            *)
(***************************************************************************)
EXTENDS Naturals, Sequences

CONSTANTS
    Clients,        \* applications, each connects once
    MaxCalls,       \* bound on all calls
    Impatient,      \* clients that may time out, or be killed, during a call
    MaxParts,       \* bound on values longer than the 1023 bytes that fgets takes
                    \* and expressions that arrive in two pieces
    NOCLIENT

ASSUME ClientAssumption ==
    /\ NOCLIENT \notin Clients
    /\ Impatient \subseteq Clients
    /\ MaxCalls \in Nat /\ MaxParts \in Nat

VARIABLES
    state,     \* per client: "out", "idle", "ack", "value", "gone"
    asked,     \* per client: its last call
    got,       \* per client: its last call for a value, and the string it returned
    calls,     \* calls so far; a call is known by its number
    toServer, toClient,    \* per client, the strings in its socket
    stdout,    \* expressions on their way to Cadence
    stdin,     \* lines in the pipe to the server
    stdio,     \* lines that the server's C library has read ahead
    srv,       \* the server: "accept", "flush" or "loop"
    csock,     \* the client it serves
    dataRead,  \* whether that client has sent anything
    givenUp,   \* history: whether a client left a call without its answer
    parts      \* history: how many values and expressions came in two parts

sockets == <<toServer, toClient>>
pipes == <<stdout, stdin, stdio>>
server == <<srv, csock, dataRead>>
client == <<state, asked, got, calls, givenUp>>
vars == <<client, sockets, pipes, server, parts>>

Calls == 1..MaxCalls

\* A string for the client: the value of call n, or n = 0, the acknowledgement "".
\* A value that has lost its first character, or comes in parts, is not whole.
String(n) == [n |-> n, whole |-> TRUE]
Part(n) == [n |-> n, whole |-> FALSE]
Ack == String(0)
Strings == [n : 0..MaxCalls, whole : BOOLEAN]
Nothing == <<0, Ack>>

\* What a client sends: an expression, the rest of one that was sent, or a goodbye.
Expression == [n : Calls, kind : {"eval", "value", "rest"}]
Message == Expression \cup {[n |-> 0, kind |-> "bye"]}
Bye == [n |-> 0, kind |-> "bye"]

TypeOK ==
    /\ state \in [Clients -> {"out", "idle", "ack", "value", "gone"}]
    /\ asked \in [Clients -> 0..MaxCalls]
    /\ got \in [Clients -> (0..MaxCalls) \X Strings]
    /\ calls \in 0..MaxCalls
    /\ toServer \in [Clients -> Seq(Message)]
    /\ toClient \in [Clients -> Seq(Strings)]
    /\ stdout \in Seq(Expression)
    /\ stdin \in Seq(Strings) /\ stdio \in Seq(Strings)
    /\ srv \in {"accept", "flush", "loop"}
    /\ csock \in Clients \cup {NOCLIENT}
    /\ csock = NOCLIENT <=> srv = "accept"
    /\ dataRead \in BOOLEAN /\ givenUp \in BOOLEAN /\ parts \in 0..MaxParts

Init ==
    /\ state = [c \in Clients |-> "out"]
    /\ asked = [c \in Clients |-> 0]
    /\ got = [c \in Clients |-> Nothing]
    /\ calls = 0
    /\ toServer = [c \in Clients |-> <<>>]
    /\ toClient = [c \in Clients |-> <<>>]
    /\ stdout = <<>> /\ stdin = <<>> /\ stdio = <<>>
    /\ srv = "accept"
    /\ csock = NOCLIENT
    /\ dataRead = FALSE
    /\ givenUp = FALSE /\ parts = 0

-----------------------------------------------------------------------------
(* Clients.                                                                 *)

Becomes(c, s) == state' = [state EXCEPT ![c] = s]

SendToServer(c, m) == toServer' = [toServer EXCEPT ![c] = Append(@, m)]

\* The kernel takes the connection, whether or not the server is free.
connect_ipc(c) ==
    /\ state[c] = "out"
    /\ Becomes(c, "idle")
    /\ UNCHANGED <<asked, got, calls, givenUp, sockets, pipes, server, parts>>

\* The first half of evalSkillString_ipc (s = "ack") and of
\* evalSkillWithReturn_ipc (s = "value").
Call(c, s) ==
    /\ state[c] = "idle" /\ calls < MaxCalls
    /\ calls' = calls + 1
    /\ asked' = [asked EXCEPT ![c] = calls + 1]
    /\ SendToServer(c, [n |-> calls + 1, kind |-> IF s = "ack" THEN "eval" ELSE "value"])
    /\ Becomes(c, s)
    /\ UNCHANGED <<got, givenUp, toClient, pipes, server, parts>>

\* One byte is read, whatever it is the first of.
ReadAck(c) ==
    /\ state[c] = "ack" /\ toClient[c] # <<>>
    /\ toClient' = [toClient EXCEPT ![c] =
            IF Head(@).n = 0 THEN Tail(@)
                             ELSE <<[Head(@) EXCEPT !.whole = FALSE]>> \o Tail(@)]
    /\ Becomes(c, "idle")
    /\ UNCHANGED <<asked, got, calls, givenUp, toServer, pipes, server, parts>>

\* Everything that has come is read, and the first string of it is the value.
ReadValue(c) ==
    /\ state[c] = "value" /\ toClient[c] # <<>>
    /\ got' = [got EXCEPT ![c] = <<asked[c], Head(toClient[c])>>]
    /\ toClient' = [toClient EXCEPT ![c] = <<>>]
    /\ Becomes(c, "idle")
    /\ UNCHANGED <<asked, calls, givenUp, toServer, pipes, server, parts>>

\* select returns 0: the call fails, and the client may make another.
TimeOut(c) ==
    /\ c \in Impatient
    /\ state[c] \in {"ack", "value"} /\ toClient[c] = <<>>
    /\ Becomes(c, "idle")
    /\ got' = IF state[c] = "value" THEN [got EXCEPT ![c] = Nothing] ELSE got
    /\ givenUp' = TRUE
    /\ UNCHANGED <<asked, calls, sockets, pipes, server, parts>>

\* The answer to TerminateConnection is the end of the connection.
disconnect_ipc(c) ==
    /\ state[c] = "idle"
    /\ SendToServer(c, Bye)
    /\ Becomes(c, "gone")
    /\ UNCHANGED <<asked, got, calls, givenUp, toClient, pipes, server, parts>>

Die(c) ==
    /\ \/ state[c] = "idle"
       \/ c \in Impatient /\ state[c] \in {"ack", "value"}
    /\ Becomes(c, "gone")
    /\ givenUp' = (givenUp \/ state[c] # "idle")
    /\ UNCHANGED <<asked, got, calls, sockets, pipes, server, parts>>

-----------------------------------------------------------------------------
(* The server.                                                              *)

\* Mutant: what the last client had sent is remembered.
WaitForConnection_KeepsDataRead ==
    /\ srv = "accept"
    /\ \E c \in Clients : /\ state[c] # "out"
                          /\ toServer[c] # <<>> \/ state[c] # "gone"
                          /\ csock' = c
    /\ srv' = "flush"
    /\ UNCHANGED <<dataRead, client, sockets, pipes, parts>>

\* A client that has died and had nothing more to say is not worth a step.
WaitForConnection ==
    /\ srv = "accept"
    /\ \E c \in Clients : /\ state[c] # "out"
                          /\ toServer[c] # <<>> \/ state[c] # "gone"
                          /\ csock' = c
    /\ srv' = "flush"
    /\ dataRead' = FALSE
    /\ UNCHANGED <<client, sockets, pipes, parts>>

\* fgets gives one line, or the 1023 bytes it has room for, and the C library reads
\* all that the pipe has to get them.
fgets ==
    IF stdio = <<>> THEN stdio' = Tail(stdin) /\ stdin' = <<>>
                    ELSE stdio' = Tail(stdio) /\ UNCHANGED stdin

Line == IF stdio = <<>> THEN Head(stdin) ELSE Head(stdio)

\* What is in the pipe is thrown away; what the C library holds is not seen.
Flush ==
    /\ srv = "flush"
    /\ IF stdin # <<>> THEN fgets /\ UNCHANGED srv
                       ELSE srv' = "loop" /\ UNCHANGED <<stdio, stdin>>
    /\ UNCHANGED <<csock, dataRead, client, sockets, stdout, parts>>

\* The inner loop is left for the next accept, which puts another client into csock.
\* (TerminateConnection and SIGPIPE close the old one, the end of a stream does not.)
LeaveLoop ==
    /\ srv' = "accept"
    /\ csock' = NOCLIENT

\* Mutant: the end of a connection leaves the loop and not the socket.
ProcessBye_KeepsSocket ==
    /\ srv' = "accept"
    /\ UNCHANGED <<csock, stdout, toClient>>

ProcessBye ==
    /\ LeaveLoop
    /\ UNCHANGED <<stdout, toClient>>

\* Mutant: no acknowledgement.
evalSkillString_sipc_NoAck(m) ==
    /\ stdout' = Append(stdout, m)
    /\ UNCHANGED <<srv, csock, toClient>>

evalSkillString_sipc(m) ==
    /\ stdout' = Append(stdout, m)
    /\ toClient' = [toClient EXCEPT ![csock] = Append(@, Ack)]
    /\ UNCHANGED <<srv, csock>>

\* Mutant: acknowledged as well.
evalSkillWithReturn_sipc_Acks(m) == evalSkillString_sipc(m)

evalSkillWithReturn_sipc(m) ==
    /\ stdout' = Append(stdout, m)
    /\ UNCHANGED <<srv, csock, toClient>>

\* A string is processed: a goodbye, an expression, or the rest of one, which does not
\* begin with "#" and so is evaluated and acknowledged like any other.
Process(m) ==
    \/ m.kind = "bye" /\ ProcessBye
    \/ m.kind \in {"eval", "rest"} /\ evalSkillString_sipc(m)
    \/ m.kind = "value" /\ evalSkillWithReturn_sipc(m)

\* Everything that has come is read, and the first string of it is processed.
ProcessInput ==
    /\ srv = "loop" /\ toServer[csock] # <<>>
    /\ dataRead' = TRUE
    /\ toServer' = [toServer EXCEPT ![csock] = <<>>]
    /\ Process(Head(toServer[csock]))
    /\ UNCHANGED <<client, stdin, stdio, parts>>

\* FIONREAD told of the beginning of an expression only.
ProcessPart ==
    LET m == Head(toServer[csock]) IN
    /\ srv = "loop" /\ toServer[csock] # <<>>
    /\ parts < MaxParts /\ m.kind \in {"eval", "value"}
    /\ dataRead' = TRUE
    /\ toServer' = [toServer EXCEPT ![csock] =
            <<[m EXCEPT !.kind = "rest"]>> \o Tail(@)]
    /\ Process(m)
    /\ parts' = parts + 1
    /\ UNCHANGED <<client, stdin, stdio>>

\* Mutant: the end of the stream is an empty input like any other.
ReadEnd_Continues ==
    /\ srv = "loop" /\ toServer[csock] = <<>> /\ state[csock] = "gone"
    /\ UNCHANGED vars

\* recv returns 0, or a write has raised SIGPIPE.
ReadEnd ==
    /\ srv = "loop" /\ toServer[csock] = <<>> /\ state[csock] = "gone"
    /\ LeaveLoop
    /\ UNCHANGED <<dataRead, client, sockets, pipes, parts>>

\* The socket has nothing and the pipe has: a line goes to the client, if it has
\* sent anything.
evalSkillReturnHandler_sipc ==
    /\ srv = "loop" /\ toServer[csock] = <<>> /\ state[csock] # "gone"
    /\ stdin # <<>>
    /\ fgets
    /\ toClient' = IF dataRead THEN [toClient EXCEPT ![csock] = Append(@, Line)]
                               ELSE toClient
    /\ UNCHANGED <<client, server, toServer, stdout, parts>>

\* Cadence: it evaluates expressions in order and writes the values asked for.  A long
\* one is two lines for fgets.
Evaluate ==
    /\ stdout # <<>>
    /\ stdout' = Tail(stdout)
    /\ LET n == Head(stdout).n IN
        \/ /\ Head(stdout).kind # "value"
           /\ UNCHANGED <<stdin, parts>>
        \/ /\ Head(stdout).kind = "value"
           /\ stdin' = Append(stdin, String(n))
           /\ UNCHANGED parts
        \/ /\ Head(stdout).kind = "value" /\ parts < MaxParts
           /\ stdin' = stdin \o <<Part(n), Part(n)>>
           /\ parts' = parts + 1
    /\ UNCHANGED <<client, server, sockets, stdio>>

-----------------------------------------------------------------------------
ClientStep(c) ==
    \/ connect_ipc(c) \/ Call(c, "ack") \/ Call(c, "value")
    \/ ReadAck(c) \/ ReadValue(c) \/ TimeOut(c)
    \/ disconnect_ipc(c) \/ Die(c)

ServerStep ==
    \/ WaitForConnection \/ Flush \/ ProcessInput \/ ProcessPart \/ ReadEnd
    \/ evalSkillReturnHandler_sipc

Next == (\E c \in Clients : ClientStep(c)) \/ ServerStep \/ Evaluate

Spec == Init /\ [][Next]_vars

\* The server and Cadence run, and a client reads what has come.  No client need
\* call, time out or leave.
FairSpec ==
    /\ Spec
    /\ WF_vars(ServerStep) /\ WF_vars(Evaluate)
    /\ \A c \in Clients : WF_vars(ReadAck(c) \/ ReadValue(c))

-----------------------------------------------------------------------------
(* Properties.                                                              *)

\* "returns the eval result": what a call for a value returns is the value of its
\* own expression.
ReturnsEvalResult == \A c \in Clients : got[c][2] = String(got[c][1])

\* Order is enough to pair values with calls, also across applications that follow
\* each other, for as long as nobody has left a call without waiting for its answer,
\* every value was a line that fgets takes whole, and every expression arrived whole.
PatientGetsOwn == ~givenUp /\ parts = 0 => ReturnsEvalResult

\* Values that come late for one application do not reach the next before that has
\* asked for something.
NothingUnasked == \A c \in Clients : toClient[c] # <<>> => asked[c] # 0

\* A call of the application that is served is answered, for as long as nobody has
\* left one.  (The others wait until it disconnects, which it need not.)
CallsReturn ==
    \A c \in Clients :
        csock = c /\ state[c] \in {"ack", "value"}
        ~> state[c] \notin {"ack", "value"} \/ givenUp

\* The server comes back to its listening socket when its client has gone, however
\* it went and whatever is still on the way to it.
ServerFree ==
    \A c \in Clients : csock = c /\ state[c] = "gone" ~> csock = NOCLIENT
=============================================================================
