----------------------------- MODULE EchoServer -----------------------------
(***************************************************************************)
(* A server for one client at a time and its clients, who send a line and  *)
(* wait for the answer: pr14t1-1.c and -2.c ("echo"), pr14t3-1.c and -2.c  *)
(* ("upper") over a UNIX socket, pr14t4-1.c and -2.c over TCP ("tcp").     *)
(* What differs is what happens when the other end is gone.                *)
(***************************************************************************)
EXTENDS Integers, Sequences, FiniteSets

CONSTANTS
    Clients,
    MaxLines,          (* bound: lines typed at each client                 *)
    MaxKills,          (* bound: clients killed                             *)
    NoClient

VARIABLES
    kind,              (* which of the three pairs runs                     *)
    server, data_socket, str,          (* its place, client and line        *)
    backlog,           (* connections nobody has accepted yet               *)
    client, lines,     (* place of each, lines it has typed                 *)
    toServer, toClient,            (* bytes under way: whole lines          *)
    own                (* clients that took their own line for the answer   *)

serverVars == <<server, data_socket, str, backlog>>
echoVars   == <<kind, serverVars, client, lines, toServer, toClient, own>>

EchoInit ==
    /\ kind \in {"echo", "upper", "tcp"}
    /\ server = "accept" /\ data_socket = NoClient /\ str = 0 /\ backlog = << >>
    /\ client = [c \in Clients |-> "start"] /\ lines = [c \in Clients |-> 0]
    /\ toServer = [c \in Clients |-> << >>] /\ toClient = [c \in Clients |-> << >>]
    /\ own = {}

Left(c) == client[c] \in {"ended", "killed"}     (* its descriptor is closed *)
Step(c, from, to) == client[c] = from /\ client' = [client EXCEPT ![c] = to]

-----------------------------------------------------------------------------
(* The server *)

Accept ==
    /\ server = "accept" /\ backlog # << >>
    /\ data_socket' = Head(backlog) /\ backlog' = Tail(backlog)
    /\ server' = "recv"
    /\ UNCHANGED <<kind, str, client, lines, toServer, toClient, own>>

(* What has arrived is read, also what a client sent before it left. *)
Recv ==
    /\ server = "recv" /\ toServer[data_socket] # << >>
    /\ str' = Head(toServer[data_socket])
    /\ toServer' = [toServer EXCEPT ![data_socket] = Tail(@)]
    /\ server' = "send"
    /\ UNCHANGED <<kind, data_socket, backlog, client, lines, toClient, own>>

Disconnected ==
    /\ server = "recv" /\ toServer[data_socket] = << >> /\ Left(data_socket)
    /\ data_socket' = NoClient /\ server' = "accept"
    /\ UNCHANGED <<kind, str, backlog, client, lines, toServer, toClient, own>>

(* Mutant: the answer is forgotten. *)
SendNothing ==
    /\ server = "send" /\ ~Left(data_socket)
    /\ server' = "recv"
    /\ UNCHANGED <<kind, data_socket, str, backlog, client, lines, toServer, toClient, own>>

Send ==
    /\ server = "send" /\ ~Left(data_socket)
    /\ toClient' = [toClient EXCEPT ![data_socket] = Append(@, str)]
    /\ server' = "recv"
    /\ UNCHANGED <<kind, data_socket, str, backlog, client, lines, toServer, own>>

(* A UNIX socket knows at once that the other end is gone, and SIGPIPE is  *)
(* not handled: the server dies.  TCP takes the bytes and finds out later. *)
SendToNobody ==
    /\ server = "send" /\ Left(data_socket)
    /\ server' = IF kind = "tcp" THEN "recv" ELSE "dead"
    /\ backlog' = IF kind = "tcp" THEN backlog ELSE << >>
    /\ UNCHANGED <<kind, data_socket, str, client, lines, toServer, toClient, own>>

-----------------------------------------------------------------------------
(* A client *)

Connect(c) ==
    /\ Step(c, "start", IF server = "dead" THEN "ended" ELSE "type")
    /\ backlog' = IF server = "dead" THEN backlog ELSE Append(backlog, c)
    /\ UNCHANGED <<kind, server, data_socket, str, lines, toServer, toClient, own>>

(* The line is sent, accepted or not; without a server it is SIGPIPE.      *)
TypeLine(c) ==
    /\ lines[c] < MaxLines
    /\ Step(c, "type", IF server = "dead" THEN "killed" ELSE "await")
    /\ lines' = [lines EXCEPT ![c] = @ + 1]
    /\ toServer' = IF server = "dead" THEN toServer
                   ELSE [toServer EXCEPT ![c] = Append(@, lines'[c])]
    /\ UNCHANGED <<kind, serverVars, toClient, own>>

ShowAnswer(c) ==
    /\ toClient[c] # << >>
    /\ Step(c, "await", "type")
    /\ toClient' = [toClient EXCEPT ![c] = Tail(@)]
    /\ UNCHANGED <<kind, serverVars, lines, toServer, own>>

(* The read gives nothing: pr14t1-2.c exits, pr14t3-2.c shows what is in   *)
(* its buffer, its own line, pr14t4-2.c has cleared it.                    *)
ServerGone(c) ==
    /\ server = "dead" /\ toClient[c] = << >>
    /\ Step(c, "await", IF kind = "echo" THEN "ended" ELSE "type")
    /\ own' = IF kind = "upper" THEN own \cup {c} ELSE own
    /\ UNCHANGED <<kind, serverVars, lines, toServer, toClient>>

EndOfInput(c) ==
    /\ Step(c, "type", "ended")
    /\ UNCHANGED <<kind, serverVars, lines, toServer, toClient, own>>

KillClient(c) ==
    /\ ~Left(c) /\ client[c] # "start"
    /\ Cardinality({d \in Clients : client[d] = "killed"}) < MaxKills
    /\ client' = [client EXCEPT ![c] = "killed"]
    /\ UNCHANGED <<kind, serverVars, lines, toServer, toClient, own>>

ServerStep    == Accept \/ Recv \/ Disconnected \/ Send \/ SendToNobody
ClientStep(c) == Connect(c) \/ ShowAnswer(c) \/ ServerGone(c)
EchoNext ==
    \/ ServerStep
    \/ \E c \in Clients : ClientStep(c) \/ TypeLine(c) \/ EndOfInput(c) \/ KillClient(c)

-----------------------------------------------------------------------------
(* While a client waits, exactly one line is under way for it: to the      *)
(* server, in the server, or back, and it is the line it sent last.  When  *)
(* it types nothing is, so no answer is taken for that of a later line;    *)
(* and its own line is shown as an answer only when the server is dead.    *)
UnderWay(c) ==
    toServer[c] \o toClient[c]
        \o (IF server = "send" /\ data_socket = c THEN <<str>> ELSE << >>)
LockStep ==
    /\ server # "dead" => own = {} /\ \A c \in Clients :
          /\ client[c] = "await" => UnderWay(c) = <<lines[c]>>
          /\ client[c] = "type" => toServer[c] = << >> /\ toClient[c] = << >>
    /\ server = "dead" => \E c \in Clients : client[c] = "killed"

(* A client waits for ever only behind another one that is connected and   *)
(* types nothing: the server has one client at a time.                     *)
NobodyForgotten ==
    \A c \in Clients :
        client[c] = "await" => (data_socket \notin {c, NoClient} /\ client[data_socket] = "type")
=============================================================================
