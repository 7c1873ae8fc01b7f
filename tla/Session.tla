------------------------------ MODULE Session ------------------------------
(***************************************************************************)
(* One application, its dmserver process and the two byte streams between  *)
(* them: interCommunicate of the client library (dmserver/interp2p.c), the *)
(* main loop and the handlers of the server (dmserver.c, interprocs44.c),  *)
(* and the sending and receiving that both use (p2p.c, ntsock.c).          *)
(*                                                                         *)
(* A message is a length word and a body; the reply to a listing is        *)
(* followed by a string of its own, whose size the body gives.  A read     *)
(* takes what has arrived, up to the number it asks for.  The streams hold *)
(* cells: one is the length word, BodyCells are a body, BigCells a string. *)
(* No part of a message names the call it belongs to: call is a history    *)
(* field, by which the properties tell the messages apart.                 *)
(***************************************************************************)
EXTENDS Naturals, SequencesExt

CONSTANTS
    MaxCalls,    \* bound: calls an application makes
    BodyCells, BigCells,
    KillAt,      \* where a signal may end the server
    Faults,      \* "init": dmsCPIInitDMS may fail; "split": a message need
                 \* not arrive in one piece; "busy": a stream may take nothing
                 \* for the second that CheckForWrite waits
    NoNode       \* the client is not in the hash table

Kinds == {"init", "cell", "list", "report", "exit"}
Ends == {"client", "server"}
ServerLabels == {"wait", "body", "process", "init", "reply", "replyBig", "dead"}
ClientLabels == {"ready", "header", "body", "big", "gone"}

ASSUME SessionAssumption ==
    /\ MaxCalls \in Nat /\ BodyCells \in Nat \ {0} /\ BigCells \in Nat \ {0}
    /\ KillAt \subseteq ServerLabels /\ Faults \subseteq {"init", "split", "busy"}
    /\ NoNode \notin Nat

VARIABLES
    calls,      \* history: the kinds of the calls made
    returned,   \* history: what they returned
    log,        \* history: the calls the handlers executed
    client,     \* what the client does next
    server,     \* what the server does next
    wire,       \* per end, what is on its way to it ...
    inbox,      \* ... and what has arrived
    buffer,     \* per end, msgBuffer and interMsg
    want,       \* per end, recv_length
    len,        \* per end, len
    started,    \* inter_itc_init is 1
    dmsUp,      \* dmsCPIInitDMS succeeded
    node        \* the client's node in the hash table: its report message

vars == <<calls, returned, log, client, server, wire, inbox, buffer, want,
          len, started, dmsUp, node>>
streams == <<wire, inbox>>
dms == <<started, dmsUp, node>>

Blank == 0              \* an empty report message
Error == 0

Request(c, k) ==
    [call |-> c, kind |-> k, ok |-> TRUE, text |-> Blank, big |-> FALSE]
Message ==
    [call : 0..MaxCalls, kind : Kinds, ok : BOOLEAN, text : 0..MaxCalls,
     big : BOOLEAN]
Cell == [part : {"len", "body", "big"}, n : Nat, msg : Message]
Result == [of : 0..MaxCalls, ok : BOOLEAN, text : 0..MaxCalls, big : 0..MaxCalls]

TypeOK ==
    /\ calls \in Seq(Kinds) /\ Len(calls) <= MaxCalls
    /\ returned \in Seq(Result) /\ Len(returned) <= Len(calls)
    /\ log \in Seq(1..MaxCalls)
    /\ client \in ClientLabels
    /\ server \in ServerLabels
    /\ wire \in [Ends -> Seq(Cell)]
    /\ inbox \in [Ends -> Seq(Cell)]
    /\ buffer \in [Ends -> Message]
    /\ want \in [Ends -> Nat]
    /\ len \in [Ends -> Nat]
    /\ started \in BOOLEAN /\ dmsUp \in BOOLEAN
    /\ node \in {NoNode} \cup 0..MaxCalls

Init ==
    /\ calls = <<>> /\ returned = <<>> /\ log = <<>>
    /\ client = "ready" /\ server = "wait"
    /\ wire = [e \in Ends |-> <<>>]
    /\ inbox = [e \in Ends |-> <<>>]
    /\ buffer = [e \in Ends |-> Request(0, "init")]
    /\ want = [e \in Ends |-> 0]
    /\ len = [e \in Ends |-> 0]
    /\ started = FALSE /\ dmsUp = FALSE /\ node = NoNode

-----------------------------------------------------------------------------
(* The streams.                                                             *)

CellsOf(part, m, n) == [i \in 1..n |-> [part |-> part, n |-> 0, msg |-> m]]

\* What SendMsg writes first: the length word and the body.
MessageCells(m) ==
    <<[part |-> "len", n |-> BodyCells, msg |-> m]>>
        \o CellsOf("body", m, BodyCells)

Write(end, cells) == wire' = [wire EXCEPT ![end] = @ \o cells]

\* SendMsg gives up before it writes anything, though the peer is there.
WriteTimesOut == "busy" \in Faults /\ UNCHANGED wire

\* A pipe delivers a message at once, and so does a connection when it fits a
\* segment; the string of a big reply comes in pieces.  The length word is never
\* a piece of its own.
Arrive(end) ==
    /\ \E n \in 1..Len(wire[end]) :
        /\ wire[end][n].part # "len"
        /\ \/ wire[end][n].part = "big" \/ "split" \in Faults
           \/ n = Len(wire[end])
           \/ n < Len(wire[end]) /\ wire[end][n + 1].part # "body"
        /\ inbox' = [inbox EXCEPT ![end] = @ \o SubSeq(wire[end], 1, n)]
        /\ wire' = [wire EXCEPT ![end] = SubSeq(@, n + 1, Len(@))]
    /\ UNCHANGED <<calls, returned, log, client, server, buffer, want, len, dms>>

\* The peer has gone and all it sent was read: a read returns 0.
AtEnd(end) ==
    /\ inbox[end] = <<>> /\ wire[end] = <<>>
    /\ IF end = "client" THEN server = "dead" ELSE client = "gone"

\* The length word has been read and nothing more is there, so that FIONREAD
\* gives 0: GetRecvLength takes it for an error.
OnlyLength(end) == Len(inbox[end]) = 1

\* More has arrived than the message the length word announces.  GetRecvLength
\* answers -1, and so it does for what is no length; ReceiveMsg then reads
\* nothing and succeeds.
BadLength(end) ==
    /\ Len(inbox[end]) > 1
    /\ Len(Tail(inbox[end])) > Head(inbox[end]).n

GetRecvLength(end) ==
    /\ Len(inbox[end]) > 1 /\ ~BadLength(end)
    /\ want' = [want EXCEPT ![end] = Head(inbox[end]).n]
    /\ inbox' = [inbox EXCEPT ![end] = Tail(@)]

\* The same, except that more may be there.
GetRecvLengthForBigMsg(end) ==
    /\ Len(inbox[end]) > 1 /\ Head(inbox[end]).n > 0
    /\ want' = [want EXCEPT ![end] = Head(inbox[end]).n]
    /\ inbox' = [inbox EXCEPT ![end] = Tail(@)]

Least(a, b) == IF a < b THEN a ELSE b

\* One read of the loop in ReceiveMsg: it asks for recv_length each time,
\* whatever it has got already.
Taken(end) == Least(want[end], Len(inbox[end]))

ReadSome(end) ==
    /\ inbox[end] # <<>>
    /\ inbox' = [inbox EXCEPT ![end] = SubSeq(@, Taken(end) + 1, Len(@))]
    /\ len' = [len EXCEPT ![end] =
                  IF @ + Taken(end) >= want[end] THEN 0 ELSE @ + Taken(end)]

Received(end) == len[end] + Taken(end) >= want[end]

-----------------------------------------------------------------------------
(* The client: interCommunicate.                                            *)

ResultOf(m, bigOf) == [of |-> m.call, ok |-> m.ok, text |-> m.text, big |-> bigOf]

Failure == [of |-> Error, ok |-> FALSE, text |-> Blank, big |-> 0]

ReturnResult(r) ==
    /\ returned' = Append(returned, r)
    /\ client' = "ready"

\* The request is built in msgBuffer and sent, the result of SendMsg ignored.
\* Initialising comes first, as the documentation demands.
interCommunicate(k) ==
    LET m == Request(Len(calls) + 1, k) IN
    /\ client = "ready" /\ Len(calls) < MaxCalls
    /\ calls = <<>> => k = "init"
    /\ calls' = Append(calls, k)
    /\ buffer' = [buffer EXCEPT !["client"] = m]
    /\ \/ server = "dead" /\ UNCHANGED wire
       \/ server # "dead" /\ Write("server", MessageCells(m))
       \/ WriteTimesOut
    /\ client' = "header"
    /\ UNCHANGED <<returned, log, server, inbox, want, len, dms>>

\* A big reply has two parts: ExtractMsg finds the size of the second one.
Extracted(m) ==
    IF m.kind = "list" /\ m.big
    THEN /\ client' = "big"
         /\ want' = [want EXCEPT !["client"] = BigCells]
         /\ UNCHANGED returned
    ELSE /\ ReturnResult(IF m.kind = "list" THEN Failure ELSE ResultOf(m, 0))
         /\ UNCHANGED want

\* Mutant: nothing to read is taken for not yet.
ClientReceivesLength_Again ==
    /\ client = "header"
    /\ \/ /\ AtEnd("client") \/ OnlyLength("client")
          /\ inbox' = [inbox EXCEPT !["client"] = <<>>]
          /\ UNCHANGED <<client, returned, want>>
       \/ /\ IF Last(calls) = "list" THEN GetRecvLengthForBigMsg("client")
                                     ELSE GetRecvLength("client")
          /\ client' = "body"
          /\ UNCHANGED returned
    /\ UNCHANGED <<calls, log, server, wire, buffer, len, dms>>

ClientReceivesLength ==
    /\ client = "header"
    /\ \/ /\ AtEnd("client") \/ OnlyLength("client")
          /\ inbox' = [inbox EXCEPT !["client"] = <<>>]
          /\ ReturnResult(Failure)
          /\ UNCHANGED want
       \/ /\ Last(calls) # "list" /\ BadLength("client")
          /\ inbox' = [inbox EXCEPT !["client"] = Tail(@)]
          /\ Extracted(buffer["client"])
       \/ /\ IF Last(calls) = "list" THEN GetRecvLengthForBigMsg("client")
                                     ELSE GetRecvLength("client")
          /\ client' = "body"
          /\ UNCHANGED returned
    /\ UNCHANGED <<calls, log, server, wire, buffer, len, dms>>

\* Mutant: the string of a big reply is left in the stream.
ClientReceivesBody_OnePart ==
    LET m == Head(inbox["client"]).msg IN
    /\ client = "body"
    /\ ReadSome("client")
    /\ buffer' = [buffer EXCEPT !["client"] = m]
    /\ IF Received("client") THEN ReturnResult(ResultOf(m, 0))
                             ELSE UNCHANGED <<client, returned>>
    /\ UNCHANGED <<calls, log, server, wire, want, dms>>

ClientReceivesBody ==
    LET m == Head(inbox["client"]).msg IN
    /\ client = "body"
    /\ ReadSome("client")
    /\ buffer' = [buffer EXCEPT !["client"] = m]
    /\ IF Received("client") THEN Extracted(m)
                             ELSE UNCHANGED <<client, returned, want>>
    /\ UNCHANGED <<calls, log, server, wire, dms>>

ClientReceivesBig ==
    /\ client = "big"
    /\ ReadSome("client")
    /\ IF Received("client")
       THEN ReturnResult(ResultOf(buffer["client"], Head(inbox["client"]).msg.call))
       ELSE UNCHANGED <<client, returned>>
    /\ UNCHANGED <<calls, log, server, wire, buffer, want, dms>>

\* EndConnection, or the application ends without it.
ClientGoes ==
    /\ client # "gone"
    /\ client' = "gone"
    /\ UNCHANGED <<calls, returned, log, server, streams, buffer, want, len, dms>>

-----------------------------------------------------------------------------
(* The server: main.                                                        *)

\* Mutant: a failed receive is tried again.
ServerReceivesLength_Again ==
    /\ server = "wait"
    /\ \/ /\ AtEnd("server") \/ OnlyLength("server")
          /\ inbox' = [inbox EXCEPT !["server"] = <<>>]
          /\ UNCHANGED <<server, want, len>>
       \/ GetRecvLength("server") /\ server' = "body"
    /\ UNCHANGED <<calls, returned, log, client, wire, buffer, len, dms>>

\* WaitForMsg and ReceiveMsg; a failure is EndConnection and exit.
ServerReceivesLength ==
    /\ server = "wait"
    /\ \/ /\ AtEnd("server") \/ OnlyLength("server")
          /\ inbox' = [inbox EXCEPT !["server"] = <<>>]
          /\ server' = "dead"
          /\ UNCHANGED want
       \/ /\ BadLength("server")
          /\ inbox' = [inbox EXCEPT !["server"] = Tail(@)]
          /\ server' = "process"
          /\ UNCHANGED want
       \/ GetRecvLength("server") /\ server' = "body"
    /\ UNCHANGED <<calls, returned, log, client, wire, buffer, len, dms>>

ServerReceivesBody ==
    /\ server = "body"
    /\ ReadSome("server")
    /\ buffer' = [buffer EXCEPT !["server"] = Head(inbox["server"]).msg]
    /\ server' = IF Received("server") THEN "process" ELSE "body"
    /\ UNCHANGED <<calls, returned, log, client, wire, want, dms>>

\* hash_hashSetReportMsg: nothing is set when the client has no node.
hashSetReportMsg(c) == node' = IF node = NoNode THEN NoNode ELSE c

\* intersInit and hashCreate, which refuses a second node.
intersInit(m) ==
    /\ node' = IF node = NoNode THEN Blank ELSE node
    /\ buffer' = [buffer EXCEPT !["server"] = [m EXCEPT !.ok = node = NoNode]]

\* Mutant: the message is not kept for the report.
CellOperation_NoReport(m) ==
    /\ \E ok \in BOOLEAN :
        buffer' = [buffer EXCEPT !["server"] = [m EXCEPT !.ok = ok]]
    /\ UNCHANGED node

\* A cellview operation of CellView, with its message for the report.
CellOperation(m) ==
    /\ hashSetReportMsg(m.call)
    /\ \E ok \in BOOLEAN :
        buffer' = [buffer EXCEPT !["server"] = [m EXCEPT !.ok = ok]]

\* getCellViewsByLib and its two companions; there may be no string.
Listing(m) ==
    /\ \E big \in BOOLEAN :
        buffer' = [buffer EXCEPT !["server"] = [m EXCEPT !.big = big]]
    /\ UNCHANGED node

\* Mutant: the missing message of a client that is not in the table is used.
report_Unchecked(m) ==
    /\ buffer' = [buffer EXCEPT !["server"] = [m EXCEPT !.text = node]]
    /\ UNCHANGED node

report(m) ==
    /\ buffer' = [buffer EXCEPT !["server"] =
            IF node = NoNode THEN [m EXCEPT !.ok = FALSE]
                             ELSE [m EXCEPT !.text = node]]
    /\ UNCHANGED node

intersExit(m) ==
    /\ node' = NoNode
    /\ buffer' = [buffer EXCEPT !["server"] = [m EXCEPT !.ok = node # NoNode]]

\* (What it puts back first, theLibName, is in Libraries: Request.)
ProcessMsg ==
    LET m == buffer["server"] IN
    /\ server = "process"
    /\ log' = Append(log, m.call)
    /\ \/ m.kind = "init" /\ intersInit(m)
       \/ m.kind = "cell" /\ CellOperation(m)
       \/ m.kind = "list" /\ Listing(m)
       \/ m.kind = "report" /\ report(m)
       \/ m.kind = "exit" /\ intersExit(m)
    /\ server' = IF started THEN "reply" ELSE "init"
    /\ UNCHANGED <<calls, returned, client, streams, want, len, started, dmsUp>>

\* After the first message; the reply to it stays what the handler made it.
dmsCPIInitDMS ==
    /\ server = "init"
    /\ started' = TRUE
    /\ dmsUp' \in {TRUE} \cup (IF "init" \in Faults THEN {FALSE} ELSE {})
    /\ hashSetReportMsg(buffer["server"].call)
    /\ server' = "reply"
    /\ UNCHANGED <<calls, returned, log, client, streams, buffer, want, len>>

\* A write to a client that has gone fails.  The server goes on to receive, or,
\* over a connection, SIGPIPE ends it.
SendFails ==
    /\ client = "gone"
    /\ server' \in {"wait", "dead"}
    /\ UNCHANGED wire

\* The server goes on to receive also when the write timed out.
SendMsg ==
    LET m == buffer["server"] IN
    /\ server = "reply"
    /\ \/ SendFails
       \/ WriteTimesOut /\ server' = "wait"
       \/ /\ client # "gone"
          /\ Write("client", MessageCells(m))
          /\ server' = IF m.big THEN "replyBig" ELSE "wait"
    /\ UNCHANGED <<calls, returned, log, client, inbox, buffer, want, len, dms>>

\* Only the first of the two writes is preceded by CheckForWrite.
SendBig ==
    /\ server = "replyBig"
    /\ \/ SendFails
       \/ /\ client # "gone"
          /\ Write("client", CellsOf("big", buffer["server"], BigCells))
          /\ server' = "wait"
    /\ UNCHANGED <<calls, returned, log, client, inbox, buffer, want, len, dms>>

\* A signal ends the server: terminateHandler or terminateHandler_noclean.
terminateHandler ==
    /\ server \in KillAt \ {"dead"}
    /\ server' = "dead"
    /\ UNCHANGED <<calls, returned, log, client, streams, buffer, want, len, dms>>

-----------------------------------------------------------------------------
ClientStep == ClientReceivesLength \/ ClientReceivesBody \/ ClientReceivesBig

ServerStep ==
    \/ ServerReceivesLength \/ ServerReceivesBody \/ ProcessMsg
    \/ dmsCPIInitDMS \/ SendMsg \/ SendBig

Next ==
    \/ \E k \in Kinds : interCommunicate(k)
    \/ ClientStep \/ ClientGoes \/ ServerStep \/ terminateHandler
    \/ \E e \in Ends : Arrive(e)

Spec == Init /\ [][Next]_vars

\* Both processes are scheduled and the network delivers.
FairSpec ==
    /\ Spec
    /\ WF_vars(ClientStep) /\ WF_vars(ServerStep)
    /\ \A e \in Ends : WF_vars(Arrive(e))

-----------------------------------------------------------------------------
(* Properties.                                                              *)

\* No request or part of a reply carries a number; still a call returns its own
\* result, which a handler made for it while the client waited, or an error.
\* That holds for each part of the result: the text of a report is that of the
\* last operation before it, and the string of a listing is its own.
Remote == INSTANCE Rpc WITH
    asked <- Len(calls),
    executed <- log,
    returned <- [i \in DOMAIN returned |-> returned[i].of]

ImplementsRpc == Remote!Spec

\* The calls before c whose message a report may show.
Reporting(c) ==
    {d \in 1..c - 1 : Contains(log, d) /\ (calls[d] = "cell" \/ d = 1)}

Latest(S) == CHOOSE d \in S : \A e \in S : e <= d

\* The string of a listing is its own, and a report shows the message of the
\* last operation before it, not a later or an earlier one.
PartsBelongTogether ==
    \A c \in DOMAIN returned :
        returned[c].of # Error /\ returned[c].ok =>
            /\ calls[c] = "list" => returned[c].big = c
            /\ calls[c] = "report" /\ (\A d \in 1..c : calls[d] # "exit") =>
                    returned[c].text = Latest(Reporting(c))

\* "The procedure will return errors when the initialization operation can not be
\* completed": integration.txt of dmsCPIInitDMS.
InitIsTrue ==
    returned # <<>> /\ returned[1].of # Error /\ returned[1].ok => dmsUp

\* A client that waits without a time limit is not left waiting: its call returns,
\* with an error when a signal ended the server before it replied.  There are three
\* provisos, each of them needed: the request and the reply are written within the
\* second that CheckForWrite allows, no signal comes between the two parts of a
\* reply, and a message arrives in one piece.
CallsReturn == client \in {"header", "body", "big"} ~> client \in {"ready", "gone"}

\* A server whose client has gone ends, also when it learns so by a failed reply.
ServerEnds == client = "gone" ~> server = "dead"
=============================================================================
