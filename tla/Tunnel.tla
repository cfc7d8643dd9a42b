------------------------------- MODULE Tunnel --------------------------------
(***************************************************************************)
(* The tunnel of pkg/remotedialer: connections multiplexed over the         *)
(* websocket of one session.  The server end opens connections for callers  *)
(* of Server.Dial (serverConnect); the client end dials the target of each  *)
(* and pipes the two (clientConnect, clientDial, pipe).  Both ends run      *)
(* Session.Serve over an ordered websocket.                                 *)
(*                                                                          *)
(* A connection carries chunks of data numbered from 1 in each direction.   *)
(* Errors are "EOF" or "failed" (any other error); "nil" is none.           *)
(***************************************************************************)
EXTENDS Integers, Sequences, FiniteSets, Functions

CONSTANTS
    Conns,      \* connection ids: nextConnID hands each out once
    MaxWrites,  \* bound on the chunks a caller writes
    MaxReplies, \* bound on the chunks a target writes
    BufSize,    \* capacity of connection.buf (1024 in newConnection)
    None        \* no connection

ASSUME TunnelAssumption ==
    /\ MaxWrites \in Nat /\ MaxReplies \in Nat
    /\ BufSize \in Nat \ {0}
    /\ None \notin Conns

VARIABLES
    conns,   \* Session.conns of each end: the ids in the map
    err,     \* connection.err; buf is closed if and only if it is not "nil"
    buf,     \* connection.buf: received chunks not yet read
    ws,      \* messages on their way to each end
    up,      \* whether the websocket still carries messages
    serve,   \* Session.Serve of each end
    held,    \* connection whose full buf Serve waits on, with its lock held
    shut,    \* closeConnection by the caller: the error doTunnelClose is to set
    call,    \* the user of the server end: what it did with its connection
    pipe,    \* clientDial and pipe: where the client end is
    copyOut, \* pipe's goroutine that copies from the tunnel to the target
    writer,  \* the goroutine that writes to the tunnel, at each end
    net,     \* the connection to the target: is it open, and for whom
    wrote,   \* chunks written to the tunnel (server), by the target (client)
    taken,   \* chunks of the target that pipe has read
    got,     \* chunks read from the tunnel at each end
    atClose, \* chunks the user of the server end wrote before closing
    last     \* error the reader of each end got at last

wire == <<ws, up, serve, held>>
table == <<conns, err, buf, shut>>
users == <<call, pipe, copyOut, writer, net>>
data == <<wrote, taken, got, atClose, last>>
vars == <<wire, table, users, data>>

End == {"server", "client"}
Other(e) == IF e = "server" THEN "client" ELSE "server"
Error == {"EOF", "failed"}
MaxData == IF MaxWrites >= MaxReplies THEN MaxWrites ELSE MaxReplies

Message ==
    [type : {"Connect"}, id : Conns]
    \cup [type : {"Data"}, id : Conns, chunk : 1..MaxData]
    \cup [type : {"Error"}, id : Conns, err : Error]

PerConn(S) == [End -> [Conns -> S]]

TypeOK ==
    /\ conns \in [End -> SUBSET Conns]
    /\ err \in PerConn(Error \cup {"nil"})
    /\ buf \in PerConn(Seq(1..MaxData))
    /\ ws \in [End -> Seq(Message)]
    /\ up \in BOOLEAN
    /\ serve \in [End -> {"serving", "ended", "closed"}]
    /\ held \in [End -> Conns \cup {None}]
    /\ shut \in [Conns -> Error \cup {"nil"}]
    /\ call \in [Conns -> {"idle", "connect", "open", "failed", "closed"}]
    /\ pipe \in [Conns -> {"none", "dialing", "dialfailed", "piping", "waiting", "closing", "done"}]
    /\ copyOut \in [Conns -> {"run", "failing", "done"}]
    /\ writer \in PerConn({"idle", "sending", "EOF", "failed"})
    /\ net \in [Conns -> {"open", "targetClosed", "closed"}]
    /\ wrote \in PerConn(0..MaxData)
    /\ taken \in [Conns -> 0..MaxData]
    /\ got \in PerConn(Seq(1..MaxData))
    /\ atClose \in [Conns -> 0..MaxData]
    /\ last \in PerConn(Error \cup {"nil"})

------------------------------------------------------------------------------
(* Writing to the websocket and closing connections.                        *)

\* A write succeeds while the websocket is up; nobody reads it once the Serve
\* of the far end is over.
Sent(q, e, m) == IF up /\ serve[e] = "serving" THEN [q EXCEPT ![e] = Append(@, m)] ELSE q

ErrorMessage(c, v) == [type |-> "Error", id |-> c, err |-> v]

\* connection.err once doTunnelClose(v) has run.
TunnelClosed(x, v) == IF x = "nil" THEN v ELSE x

\* The lock of a connection, which Serve keeps while it waits for room in buf.
Unlocked(e, c) == held[e] # c

\* Mutant: what is in buf is dropped.
CloseDropsBuf(e, c, v, q) ==
    /\ conns' = [conns EXCEPT ![e] = @ \ {c}]
    /\ err' = [err EXCEPT ![e][c] = TunnelClosed(@, v)]
    /\ buf' = [buf EXCEPT ![e][c] = <<>>]
    /\ ws' = Sent(q, Other(e), ErrorMessage(c, v))
    /\ UNCHANGED shut

\* closeConnection called from Serve, which then holds no connection's lock;
\* q is what is on the websocket after the message being served.
CloseFromServe(e, c, v, q) ==
    /\ conns' = [conns EXCEPT ![e] = @ \ {c}]
    /\ err' = [err EXCEPT ![e][c] = TunnelClosed(@, v)]
    /\ ws' = Sent(q, Other(e), ErrorMessage(c, v))
    /\ UNCHANGED <<buf, shut>>

------------------------------------------------------------------------------
(* Session.Serve: one message at a time.                                    *)

Serving(e) == serve[e] = "serving" /\ held[e] = None

Popped(e) == [ws EXCEPT ![e] = Tail(@)]

\* clientConnect: the connection authorizer allows the target.
ServeConnect(e) ==
    /\ Serving(e) /\ ws[e] # <<>>
    /\ LET c == Head(ws[e]).id IN
       /\ Head(ws[e]).type = "Connect"
       /\ conns' = [conns EXCEPT ![e] = @ \cup {c}]
       /\ pipe' = [pipe EXCEPT ![c] = "dialing"]
    /\ ws' = Popped(e)
    /\ UNCHANGED <<up, serve, held, err, buf, shut, call, copyOut, writer, net, data>>

\* "connect not allowed": Serve returns.
ServeRefused(e) ==
    /\ Serving(e) /\ ws[e] # <<>>
    /\ Head(ws[e]).type = "Connect"
    /\ serve' = [serve EXCEPT ![e] = "ended"]
    /\ ws' = [ws EXCEPT ![e] = <<>>]
    /\ UNCHANGED <<up, held, table, users, data>>

\* Mutant: every message for a connection that is gone is answered.
AnswerUnknown(e) ==
    /\ Serving(e) /\ ws[e] # <<>>
    /\ Head(ws[e]).type # "Connect"
    /\ Head(ws[e]).id \notin conns[e]
    /\ ws' = Sent(Popped(e), Other(e), ErrorMessage(Head(ws[e]).id, "failed"))
    /\ UNCHANGED <<up, serve, held, table, users, data>>

\* Data for a connection that is gone is answered with an error.
ServeUnknown(e) ==
    /\ Serving(e) /\ ws[e] # <<>>
    /\ Head(ws[e]).type # "Connect"
    /\ Head(ws[e]).id \notin conns[e]
    /\ ws' = IF Head(ws[e]).type = "Data"
             THEN Sent(Popped(e), Other(e), ErrorMessage(Head(ws[e]).id, "failed"))
             ELSE Popped(e)
    /\ UNCHANGED <<up, serve, held, table, users, data>>

\* chanWriter.Write: into buf, or wait with the lock held if buf is full, or
\* fail if the connection has an error, upon which Serve closes it.
ServeData(e) ==
    /\ Serving(e) /\ ws[e] # <<>>
    /\ LET c == Head(ws[e]).id IN
       /\ Head(ws[e]).type = "Data" /\ c \in conns[e]
       /\ \/ /\ err[e][c] # "nil"
             /\ CloseFromServe(e, c, err[e][c], Popped(e))
             /\ UNCHANGED held
          \/ /\ err[e][c] = "nil" /\ Len(buf[e][c]) < BufSize
             /\ buf' = [buf EXCEPT ![e][c] = Append(@, Head(ws[e]).chunk)]
             /\ ws' = Popped(e)
             /\ UNCHANGED <<conns, err, shut, held>>
          \/ /\ err[e][c] = "nil" /\ Len(buf[e][c]) = BufSize
             /\ held' = [held EXCEPT ![e] = c]
             /\ UNCHANGED <<ws, table>>
    /\ UNCHANGED <<up, serve, users, data>>

\* The reader made room for the chunk Serve waits with.
ServeUnblocks(e) ==
    /\ held[e] # None
    /\ Len(buf[e][held[e]]) < BufSize
    /\ buf' = [buf EXCEPT ![e][held[e]] = Append(@, Head(ws[e]).chunk)]
    /\ ws' = Popped(e)
    /\ held' = [held EXCEPT ![e] = None]
    /\ UNCHANGED <<up, serve, conns, err, shut, users, data>>

\* Mutant: the chunk is dropped and the connection lives on.
DropChunk(e) ==
    /\ held[e] # None
    /\ Len(buf[e][held[e]]) = BufSize
    /\ ws' = Popped(e)
    /\ held' = [held EXCEPT ![e] = None]
    /\ UNCHANGED <<up, serve, table, users, data>>

\* "backed up reader": Serve gave the reader 15 seconds.
ServeTimesOut(e) ==
    /\ held[e] # None
    /\ Len(buf[e][held[e]]) = BufSize
    /\ IF held[e] \in conns[e]
       THEN CloseFromServe(e, held[e], "failed", Popped(e))
       ELSE ws' = Popped(e) /\ UNCHANGED table
    /\ held' = [held EXCEPT ![e] = None]
    /\ UNCHANGED <<up, serve, users, data>>

ServeError(e) ==
    /\ Serving(e) /\ ws[e] # <<>>
    /\ Head(ws[e]).type = "Error" /\ Head(ws[e]).id \in conns[e]
    /\ CloseFromServe(e, Head(ws[e]).id, Head(ws[e]).err, Popped(e))
    /\ UNCHANGED <<up, serve, held, users, data>>

------------------------------------------------------------------------------
(* The end of a session.                                                    *)

\* The websocket fails.
Disconnect ==
    /\ up
    /\ up' = FALSE
    /\ UNCHANGED <<ws, serve, held, table, users, data>>

\* Serve fails on the websocket, or hears no ping or pong until the read
\* deadline (setupDeadline).
ServeEnds(e) ==
    /\ Serving(e)
    /\ serve' = [serve EXCEPT ![e] = "ended"]
    /\ ws' = [ws EXCEPT ![e] = <<>>]
    /\ UNCHANGED <<up, held, table, users, data>>

\* Session.Close: every connection in the map is closed, in any order.  The
\* client then closes the websocket (connectToProxy); the server does not
\* (sessionManager.remove).
SessionClose(e) ==
    /\ serve[e] = "ended"
    /\ serve' = [serve EXCEPT ![e] = "closed"]
    /\ err' = [err EXCEPT ![e] = [c \in Conns |->
                 IF c \in conns[e] THEN TunnelClosed(@[c], "failed") ELSE @[c]]]
    /\ conns' = [conns EXCEPT ![e] = {}]
    /\ \E q \in Bijection(1..Cardinality(conns[e]), conns[e]) :
         ws' = IF up /\ serve[Other(e)] = "serving"
               THEN [ws EXCEPT ![Other(e)] =
                       @ \o [n \in DOMAIN q |-> ErrorMessage(q[n], "failed")]]
               ELSE ws
    /\ up' = (up /\ e = "server")
    /\ UNCHANGED <<held, buf, shut, users, data>>

------------------------------------------------------------------------------
(* Writing to and reading from a connection, at either end.                 *)

\* connection.Write finds no error, lets go of the lock, and goes on ...
WriteCheck(e, c) ==
    /\ writer[e][c] = "idle"
    /\ Unlocked(e, c)
    /\ writer' = [writer EXCEPT ![e][c] = IF err[e][c] = "nil" THEN "sending" ELSE err[e][c]]

\* ... to write the chunk, whatever happened to the connection in between.
WriteSend(e, c, n) ==
    /\ writer[e][c] = "sending"
    /\ IF up
       THEN /\ ws' = Sent(ws, Other(e), [type |-> "Data", id |-> c, chunk |-> n])
            /\ writer' = [writer EXCEPT ![e][c] = "idle"]
       ELSE /\ writer' = [writer EXCEPT ![e][c] = "failed"]
            /\ UNCHANGED ws

\* connection.Read takes a chunk from buf.
ReadChunk(e, c) ==
    /\ buf[e][c] # <<>>
    /\ buf' = [buf EXCEPT ![e][c] = Tail(@)]

\* Mutant: Read returns the error without emptying buf first.
ReadErrorEarly(e, c) ==
    /\ err[e][c] # "nil"
    /\ last[e][c] = "nil"
    /\ last' = [last EXCEPT ![e][c] = err[e][c]]

\* connection.Read finds buf closed and empty and returns the error.
ReadError(e, c) ==
    /\ buf[e][c] = <<>> /\ err[e][c] # "nil"
    /\ last[e][c] = "nil"
    /\ last' = [last EXCEPT ![e][c] = err[e][c]]

------------------------------------------------------------------------------
(* The server end: serverConnect, and a caller that uses the connection.    *)

\* serverConnect enters the connection into the map, possibly after the session
\* it was given has ended, and then writes Connect.
ServerConnect(c) ==
    /\ call[c] = "idle"
    /\ call' = [call EXCEPT ![c] = "connect"]
    /\ conns' = [conns EXCEPT !["server"] = @ \cup {c}]
    /\ UNCHANGED <<wire, err, buf, shut, pipe, copyOut, writer, net, data>>

WriteConnect(c) ==
    /\ call[c] = "connect"
    /\ IF up
       THEN /\ call' = [call EXCEPT ![c] = "open"]
            /\ ws' = Sent(ws, "client", [type |-> "Connect", id |-> c])
            /\ UNCHANGED <<conns, err>>
       ELSE /\ call' = [call EXCEPT ![c] = "failed"]
            /\ conns' = [conns EXCEPT !["server"] = @ \ {c}]
            /\ err' = [err EXCEPT !["server"][c] = IF c \in conns["server"]
                                                   THEN TunnelClosed(@, "failed") ELSE @]
            /\ UNCHANGED ws
    /\ UNCHANGED <<up, serve, held, buf, shut, pipe, copyOut, writer, net, data>>

ServerWriteCheck(c) ==
    /\ call[c] = "open" /\ wrote["server"][c] < MaxWrites
    /\ WriteCheck("server", c)
    /\ UNCHANGED <<wire, table, call, pipe, copyOut, net, data>>

ServerWriteSend(c) ==
    /\ WriteSend("server", c, wrote["server"][c] + 1)
    /\ wrote' = [wrote EXCEPT !["server"][c] = IF up THEN @ + 1 ELSE @]
    /\ UNCHANGED <<up, serve, held, table, call, pipe, copyOut, net, taken, got, atClose, last>>

ServerRead(c) ==
    /\ call[c] \in {"open", "closed"}
    /\ ReadChunk("server", c)
    /\ got' = [got EXCEPT !["server"][c] = Append(@, Head(buf["server"][c]))]
    /\ UNCHANGED <<wire, conns, err, shut, users, wrote, taken, atClose, last>>

ServerReadError(c) ==
    /\ call[c] \in {"open", "closed"}
    /\ ReadError("server", c)
    /\ UNCHANGED <<wire, table, users, wrote, taken, got, atClose>>

\* connection.Close: closeConnection takes the connection out of the map and
\* writes the error message ...
ServerClose(c) ==
    /\ call[c] = "open"
    /\ call' = [call EXCEPT ![c] = "closed"]
    /\ conns' = [conns EXCEPT !["server"] = @ \ {c}]
    /\ IF c \in conns["server"]
       THEN /\ ws' = Sent(ws, "client", ErrorMessage(c, "EOF"))
            /\ shut' = [shut EXCEPT ![c] = "EOF"]
       ELSE UNCHANGED <<ws, shut>>
    /\ atClose' = [atClose EXCEPT ![c] = wrote["server"][c]]
    /\ UNCHANGED <<up, serve, held, err, buf, pipe, copyOut, writer, net, wrote, taken, got, last>>

\* ... and doTunnelClose needs the lock that Serve may be holding.
ServerShut(c) ==
    /\ shut[c] # "nil" /\ Unlocked("server", c)
    /\ err' = [err EXCEPT !["server"][c] = TunnelClosed(@, shut[c])]
    /\ shut' = [shut EXCEPT ![c] = "nil"]
    /\ UNCHANGED <<wire, conns, buf, users, data>>

------------------------------------------------------------------------------
(* The client end: clientDial and pipe.                                     *)

DialSucceeds(c) ==
    /\ pipe[c] = "dialing"
    /\ pipe' = [pipe EXCEPT ![c] = "piping"]
    /\ UNCHANGED <<wire, table, call, copyOut, writer, net, data>>

\* tunnelClose: first the message, then, with the lock, the error.
DialFails(c) ==
    /\ pipe[c] = "dialing"
    /\ pipe' = [pipe EXCEPT ![c] = "dialfailed"]
    /\ ws' = Sent(ws, "server", ErrorMessage(c, "failed"))
    /\ UNCHANGED <<up, serve, held, table, call, copyOut, writer, net, data>>

DialFailShut(c) ==
    /\ pipe[c] = "dialfailed" /\ Unlocked("client", c)
    /\ pipe' = [pipe EXCEPT ![c] = "closing"]
    /\ err' = [err EXCEPT !["client"][c] = TunnelClosed(@, "failed")]
    /\ UNCHANGED <<wire, conns, buf, shut, call, copyOut, writer, net, data>>

\* The target writes, and closes or resets its connection.
TargetWrite(c) ==
    /\ pipe[c] = "piping" /\ net[c] = "open" /\ wrote["client"][c] < MaxReplies
    /\ wrote' = [wrote EXCEPT !["client"][c] = @ + 1]
    /\ UNCHANGED <<wire, table, users, taken, got, atClose, last>>

TargetClose(c) ==
    /\ pipe[c] = "piping" /\ net[c] = "open"
    /\ net' = [net EXCEPT ![c] = "targetClosed"]
    /\ UNCHANGED <<wire, table, call, pipe, copyOut, writer, data>>

\* io.Copy(client, server) takes a chunk of the target and writes it.
CopyInCheck(c) ==
    /\ pipe[c] = "piping" /\ net[c] # "closed"
    /\ taken[c] < wrote["client"][c]
    /\ taken' = [taken EXCEPT ![c] = @ + 1]
    /\ WriteCheck("client", c)
    /\ UNCHANGED <<wire, table, call, pipe, copyOut, net, wrote, got, atClose, last>>

CopyInSend(c) ==
    /\ WriteSend("client", c, taken[c])
    /\ UNCHANGED <<up, serve, held, table, call, pipe, copyOut, net, data>>

\* The errors io.Copy(client, server) may end with; pipe turns nil into EOF.
CopyInErrors(c) ==
    IF writer["client"][c] \in Error THEN {writer["client"][c]}
    ELSE {v \in Error :
            /\ writer["client"][c] = "idle"
            /\ CASE net[c] = "open" -> FALSE
                 [] net[c] = "closed" -> v = "failed"
                 [] net[c] = "targetClosed" -> v = "EOF" => taken[c] = wrote["client"][c]}

\* pipe's close: doTunnelClose and the connection to the target.
CopyInEnds(c) ==
    /\ pipe[c] = "piping" /\ Unlocked("client", c)
    /\ \E v \in CopyInErrors(c) :
         /\ err' = [err EXCEPT !["client"][c] = TunnelClosed(@, v)]
         /\ writer' = [writer EXCEPT !["client"][c] = v]
    /\ net' = [net EXCEPT ![c] = "closed"]
    /\ pipe' = [pipe EXCEPT ![c] = "waiting"]
    /\ UNCHANGED <<wire, conns, buf, shut, call, copyOut, data>>

Copying(c) == copyOut[c] = "run" /\ pipe[c] \in {"piping", "waiting"}

\* io.Copy(server, client) passes a chunk to the target, or fails to.
CopyOut(c) ==
    /\ Copying(c) /\ net[c] # "closed"
    /\ ReadChunk("client", c)
    /\ got' = [got EXCEPT !["client"][c] = Append(@, Head(buf["client"][c]))]
    /\ UNCHANGED <<wire, conns, err, shut, users, wrote, taken, atClose, last>>

CopyOutFails(c) ==
    /\ Copying(c) /\ net[c] # "open"
    /\ ReadChunk("client", c)
    /\ copyOut' = [copyOut EXCEPT ![c] = "failing"]
    /\ UNCHANGED <<wire, conns, err, shut, call, pipe, writer, net, data>>

\* Mutant: the connection to the target is left open.
CopyOutKeepsNet(c) ==
    /\ Unlocked("client", c)
    /\ \/ copyOut[c] = "failing" /\ UNCHANGED last
       \/ Copying(c) /\ ReadError("client", c)
    /\ err' = [err EXCEPT !["client"][c] = TunnelClosed(@, "failed")]
    /\ copyOut' = [copyOut EXCEPT ![c] = "done"]
    /\ UNCHANGED <<wire, conns, buf, shut, call, pipe, writer, net, wrote, taken, got, atClose>>

CopyOutEnds(c) ==
    /\ Unlocked("client", c)
    /\ \/ copyOut[c] = "failing" /\ UNCHANGED last
       \/ Copying(c) /\ ReadError("client", c)
    /\ err' = [err EXCEPT !["client"][c] = TunnelClosed(@, "failed")]
    /\ net' = [net EXCEPT ![c] = "closed"]
    /\ copyOut' = [copyOut EXCEPT ![c] = "done"]
    /\ UNCHANGED <<wire, conns, buf, shut, call, pipe, writer, wrote, taken, got, atClose>>

\* pipe waits for the other goroutine and writes the tunnel error ...
PipeDone(c) ==
    /\ pipe[c] = "waiting" /\ copyOut[c] = "done"
    /\ pipe' = [pipe EXCEPT ![c] = "closing"]
    /\ ws' = Sent(ws, "server", ErrorMessage(c, writer["client"][c]))
    /\ UNCHANGED <<up, serve, held, table, call, copyOut, writer, net, data>>

\* ... and clientDial's deferred Close takes the connection out of the map; its
\* error is set by now.
ClientClose(c) ==
    /\ pipe[c] = "closing"
    /\ pipe' = [pipe EXCEPT ![c] = "done"]
    /\ conns' = [conns EXCEPT !["client"] = @ \ {c}]
    /\ ws' = IF c \in conns["client"] THEN Sent(ws, "server", ErrorMessage(c, "EOF")) ELSE ws
    /\ UNCHANGED <<up, serve, held, err, buf, shut, call, copyOut, writer, net, data>>

------------------------------------------------------------------------------
Init ==
    /\ conns = [e \in End |-> {}]
    /\ err = [e \in End |-> [c \in Conns |-> "nil"]]
    /\ buf = [e \in End |-> [c \in Conns |-> <<>>]]
    /\ ws = [e \in End |-> <<>>]
    /\ up = TRUE
    /\ serve = [e \in End |-> "serving"]
    /\ held = [e \in End |-> None]
    /\ shut = [c \in Conns |-> "nil"]
    /\ call = [c \in Conns |-> "idle"]
    /\ pipe = [c \in Conns |-> "none"]
    /\ copyOut = [c \in Conns |-> "run"]
    /\ writer = [e \in End |-> [c \in Conns |-> "idle"]]
    /\ net = [c \in Conns |-> "open"]
    /\ wrote = [e \in End |-> [c \in Conns |-> 0]]
    /\ taken = [c \in Conns |-> 0]
    /\ got = [e \in End |-> [c \in Conns |-> <<>>]]
    /\ atClose = [c \in Conns |-> 0]
    /\ last = [e \in End |-> [c \in Conns |-> "nil"]]

ServeStep(e) ==
    \/ ServeConnect(e) \/ ServeRefused(e) \/ ServeUnknown(e) \/ ServeData(e)
    \/ ServeUnblocks(e) \/ ServeTimesOut(e) \/ ServeError(e)

ServerStep(c) ==
    \/ ServerConnect(c) \/ WriteConnect(c)
    \/ ServerWriteCheck(c) \/ ServerWriteSend(c)
    \/ ServerRead(c) \/ ServerReadError(c)
    \/ ServerClose(c) \/ ServerShut(c)

PipeStep(c) ==
    \/ DialSucceeds(c) \/ DialFails(c) \/ DialFailShut(c)
    \/ CopyInCheck(c) \/ CopyInSend(c) \/ CopyInEnds(c)
    \/ CopyOut(c) \/ CopyOutFails(c) \/ CopyOutEnds(c)
    \/ PipeDone(c) \/ ClientClose(c)

Next ==
    \/ Disconnect
    \/ \E e \in End : ServeStep(e) \/ ServeEnds(e) \/ SessionClose(e)
    \/ \E c \in Conns : ServerStep(c) \/ PipeStep(c) \/ TargetWrite(c) \/ TargetClose(c)

Spec == Init /\ [][Next]_vars

\* Every goroutine that can run does run: both Serve loops (a full buf ends in
\* the timeout of chanWriter.Write if its reader does not come), their end once
\* the websocket failed or the far end is gone, Session.Close, and the pipes (the
\* target reads what it is sent).  Callers and targets do what they like.
Fairness ==
    /\ \A e \in End :
         /\ WF_vars(ServeStep(e))
         /\ WF_vars(ServeEnds(e) /\ (~up \/ serve[Other(e)] # "serving"))
         /\ WF_vars(SessionClose(e))
    /\ \A c \in Conns :
         /\ WF_vars(WriteConnect(c))
         /\ WF_vars(ServerWriteSend(c))
         /\ WF_vars(ServerShut(c))
         /\ WF_vars(DialSucceeds(c) \/ DialFails(c))
         /\ WF_vars(DialFailShut(c))
         /\ WF_vars(CopyInCheck(c) \/ CopyInSend(c) \/ CopyInEnds(c))
         /\ WF_vars(CopyOut(c) \/ CopyOutFails(c) \/ CopyOutEnds(c))
         /\ WF_vars(PipeDone(c))
         /\ WF_vars(ClientClose(c))

FairSpec == Spec /\ Fairness

------------------------------------------------------------------------------
(* Properties.                                                              *)

\* What a reader has read is a prefix of what the far end wrote: no chunk is
\* lost in the middle, duplicated or reordered, whatever closes in between
\* (chanWriter.Write, connection.Read).  A caller that reads EOF without having
\* closed the connection has read all that the target wrote (pipe writes the
\* tunnel error after its last data).
ReadsWhatWasWritten ==
    /\ \A e \in End, c \in Conns :
         /\ Len(got[e][c]) <= wrote[Other(e)][c]
         /\ \A n \in 1..Len(got[e][c]) : got[e][c][n] = n
    /\ \A c \in Conns :
         last["server"][c] = "EOF" /\ call[c] = "open" =>
             Len(got["server"][c]) = wrote["client"][c]

\* When the pipe closes the connection to a target that is still there, because
\* the tunnel says EOF, the target has been sent all that the caller wrote
\* before it closed (closeConnection writes EOF behind the data).
TargetGetsAll ==
    [][\A c \in Conns :
         net[c] = "open" /\ net'[c] = "closed" /\ last'["client"][c] = "EOF" =>
             Len(got["client"][c]) >= atClose[c]]_vars

\* Error messages do not beget error messages for ever: the websocket falls
\* silent once callers and targets do (serveMessage answers only Data).
TunnelDrains ==
    []<>(\A e \in End : ws[e] = <<>>)

\* In the end the caller's close has ended the dial to the target, whether it
\* was under way, established or failing (closeConnection, pipe).
CloseEndsPipe ==
    <>[](\A c \in Conns : call[c] = "closed" => pipe[c] \in {"none", "done"})

==============================================================================
