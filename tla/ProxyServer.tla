---------------------------- MODULE ProxyServer ----------------------------
(***************************************************************************)
(* proxy_server.c: a single-threaded proxy.  Each accepted client gets a   *)
(* connection to the target; both descriptors are put into the poll array  *)
(* fds, next to each other, and the pair is recorded in `connections` at   *)
(* both indices.  close_connection closes a pair from one of its entries   *)
(* and removes that one entry by moving the last one into its place.       *)
(* What is relayed is left out; what recv, send, accept and connect return *)
(* is the environment's choice, except that a closed descriptor fails.     *)
(***************************************************************************)
EXTENDS Integers, FiniteSets, FiniteSetsExt

CONSTANTS
    Fds,                (* descriptor numbers the kernel gives out          *)
    MAX_CONNECTIONS,
    MaxAccepts,         (* bound: clients that connect                      *)
    listen_fd, NoFd

ASSUME SizesAssumption ==
    /\ Fds \subseteq Nat
    /\ MAX_CONNECTIONS \in Nat \ {0} /\ MaxAccepts \in Nat
    /\ listen_fd \notin Fds /\ NoFd \notin Fds

VARIABLES
    fds,                (* fds[k].fd and fds[k].revents                     *)
    connections,        (* connections[k].client_fd and .remote_fd          *)
    nfds,
    pc, i,              (* in poll, or in the loop over fds at index i      *)
    open,               (* descriptors not yet closed                       *)
    mate,               (* history: the other end each descriptor was       *)
                        (* opened with, the last time it was opened         *)
    accepts             (* what MaxAccepts bounds                           *)

vars == <<fds, connections, nfds, pc, i, open, mate, accepts>>

Slots   == 0 .. MAX_CONNECTIONS - 1
Used    == 0 .. nfds - 1
Events  == {"none", "POLLIN", "error"}    (* error: POLLERR, POLLHUP, POLLNVAL *)
LastOne == nfds - 1

(* The revents of slots never polled are uninitialised stack. *)
Init ==
    /\ \E junk \in [Slots -> Events] :
          fds = [k \in Slots |-> [fd |-> IF k = 0 THEN listen_fd ELSE NoFd,
                                  revents |-> junk[k]]]
    /\ connections = [k \in Slots |-> [client_fd |-> NoFd, remote_fd |-> NoFd]]
    /\ nfds = 1
    /\ pc = "poll" /\ i = 0
    /\ open = {listen_fd}
    /\ mate = [f \in Fds |-> NoFd]
    /\ accepts = 0

-----------------------------------------------------------------------------
(* poll reports on each entry in use; a closed descriptor is POLLNVAL, and *)
(* one entry at least has something to report.                             *)
Poll ==
    /\ pc = "poll"
    /\ \E r \in [Used -> Events] :
          /\ \A k \in Used : fds[k].fd \notin open => r[k] = "error"
          /\ r[0] = "POLLIN" => accepts < MaxAccepts
          /\ \E k \in Used : r[k] # "none"
          /\ fds' = [k \in Slots |-> IF k \in Used THEN [fds[k] EXCEPT !.revents = r[k]]
                                     ELSE fds[k]]
    /\ pc' = "scan" /\ i' = 0
    /\ UNCHANGED <<connections, nfds, open, mate, accepts>>

(* poll fails: the loop is left and what the array holds is closed. *)
PollFails ==
    /\ pc = "poll"
    /\ pc' = "stopped"
    /\ open' = open \ {fds[k].fd : k \in Used}
    /\ UNCHANGED <<fds, connections, nfds, i, mate, accepts>>

At(event) == pc = "scan" /\ i < nfds /\ fds[i].revents = event
NextEntry == i' = i + 1

ScanDone ==
    /\ pc = "scan" /\ i >= nfds
    /\ pc' = "poll"
    /\ UNCHANGED <<fds, connections, nfds, i, open, mate, accepts>>

Skip ==
    /\ At("none")
    /\ NextEntry
    /\ UNCHANGED <<fds, connections, nfds, pc, open, mate, accepts>>

(* Mutants: only one of the two arrays is closed up; the entry is dropped  *)
(* without closing the descriptors.                                        *)
CloseAndForgetPair ==
    /\ open' = open \ {fds[i].fd, connections[i].remote_fd}
    /\ fds' = [fds EXCEPT ![i] = fds[LastOne]]
    /\ nfds' = nfds - 1
    /\ UNCHANGED <<connections, pc, i, mate, accepts>>

DropEntry ==
    /\ fds' = [fds EXCEPT ![i] = fds[LastOne]]
    /\ connections' = [connections EXCEPT ![i] = connections[LastOne]]
    /\ nfds' = nfds - 1
    /\ UNCHANGED <<open, pc, i, mate, accepts>>

(* close_connection(fds, &nfds, i), then i-- and the loop's i++: the entry *)
(* moved to index i is looked at next.  The last entry's slot keeps its    *)
(* contents.  Closing a descriptor that is not open changes nothing.       *)
CloseConnection ==
    /\ open' = open \ {fds[i].fd, connections[i].remote_fd}
    /\ fds' = [fds EXCEPT ![i] = fds[LastOne]]
    /\ connections' = [connections EXCEPT ![i] = connections[LastOne]]
    /\ nfds' = nfds - 1
    /\ UNCHANGED <<pc, i, mate, accepts>>

Hangup == At("error") /\ fds[i].fd # listen_fd /\ CloseConnection

ListenerError ==
    /\ At("error") /\ fds[i].fd = listen_fd
    /\ NextEntry
    /\ UNCHANGED <<fds, connections, nfds, pc, open, mate, accepts>>

-----------------------------------------------------------------------------
(* POLLIN on the listening socket *)

Free       == Fds \ open
ClientConnects ==
    /\ At("POLLIN") /\ fds[i].fd = listen_fd
    /\ accepts' = accepts + 1
    /\ NextEntry

(* accept fails, or the client is closed again because the array is full,  *)
(* the target cannot be reached, or there is room for one entry only.      *)
RefuseClient ==
    /\ ClientConnects
    /\ UNCHANGED <<fds, connections, nfds, pc, open, mate>>

(* Mutant: room is tested for one entry only. *)
RoomForOne  == nfds < MAX_CONNECTIONS
RoomForPair == nfds < MAX_CONNECTIONS /\ nfds + 1 < MAX_CONNECTIONS

AddPair ==
    LET client_fd == Min(Free)
        remote_fd == Min(Free \ {client_fd})
        pair      == [client_fd |-> client_fd, remote_fd |-> remote_fd]
    IN  /\ ClientConnects
        /\ Cardinality(Free) >= 2
        /\ RoomForPair
        /\ open' = open \cup {client_fd, remote_fd}
        /\ fds' = [fds EXCEPT ![nfds].fd = client_fd, ![nfds + 1].fd = remote_fd]
        /\ connections' = [connections EXCEPT ![nfds] = pair, ![nfds + 1] = pair]
        /\ nfds' = nfds + 2
        /\ mate' = [mate EXCEPT ![client_fd] = remote_fd, ![remote_fd] = client_fd]
        /\ UNCHANGED pc

-----------------------------------------------------------------------------
(* POLLIN on another descriptor *)

other_idx == IF fds[i].fd = connections[i].client_fd THEN i + 1 ELSE i - 1
read_fd   == fds[i].fd
write_fd  == IF read_fd = connections[i].client_fd
             THEN connections[i].remote_fd ELSE connections[i].client_fd

DataIn == At("POLLIN") /\ fds[i].fd # listen_fd
Relays == DataIn /\ other_idx < nfds

(* Line 248: the entry where the other end should be is past the end.      *)
Ignore ==
    /\ DataIn /\ other_idx >= nfds
    /\ NextEntry
    /\ UNCHANGED <<fds, connections, nfds, pc, open, mate, accepts>>

Forward ==
    /\ Relays
    /\ read_fd \in open /\ write_fd \in open
    /\ NextEntry
    /\ UNCHANGED <<fds, connections, nfds, pc, open, mate, accepts>>

(* recv returns 0 or fails, or send fails: always so on a closed end.      *)
CloseOnFailure == Relays /\ CloseConnection

(* send to an end whose peer is gone raises SIGPIPE, which is not handled. *)
Killed ==
    /\ Relays
    /\ read_fd \in open /\ write_fd \in open
    /\ pc' = "killed" /\ open' = {}
    /\ UNCHANGED <<fds, connections, nfds, i, mate, accepts>>

Next ==
    \/ Poll \/ PollFails \/ ScanDone \/ Skip \/ Hangup \/ ListenerError
    \/ RefuseClient \/ AddPair
    \/ Ignore \/ Forward \/ CloseOnFailure \/ Killed

Spec == Init /\ [][Next]_vars

-----------------------------------------------------------------------------
Running == pc \in {"poll", "scan"}

TypeOK ==
    /\ fds \in [Slots -> [fd : Fds \cup {listen_fd, NoFd}, revents : Events]]
    /\ connections \in [Slots -> [client_fd : Fds \cup {NoFd}, remote_fd : Fds \cup {NoFd}]]
    /\ nfds \in 1 .. MAX_CONNECTIONS
    /\ pc \in {"poll", "scan", "stopped", "killed"}
    /\ i \in 0 .. MAX_CONNECTIONS
    /\ open \subseteq Fds \cup {listen_fd}
    /\ mate \in [Fds -> Fds \cup {NoFd}]
    /\ accepts \in 0 .. MaxAccepts

(* fds and connections stay in step: after any number of moves, the entry  *)
(* at an index is one end of the pair recorded at that index, and the      *)
(* first one is the listening socket, open while the proxy runs.           *)
InStep ==
    /\ \A k \in Used \ {0} :
          fds[k].fd \in {connections[k].client_fd, connections[k].remote_fd}
    /\ Running => fds[0].fd = listen_fd /\ listen_fd \in open

(* No descriptor is forgotten: each open one has an entry that poll looks  *)
(* at, and none is open once the server has shut down.                     *)
EveryOpenFdIsPolled ==
    /\ Running => \A f \in open : \E k \in Used : fds[k].fd = f
    /\ pc = "stopped" => open = {}

(* "Forwarding to" (proxy_server.c:125): data read from one end of a       *)
(* connection is sent to the other end of the same connection.             *)
ForwardsToMate ==
    (Relays /\ {read_fd, write_fd} \subseteq open) =>
        mate[read_fd] = write_fd /\ mate[write_fd] = read_fd
=============================================================================
