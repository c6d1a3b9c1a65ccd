---------------------------- MODULE SelectProxy ----------------------------
(***************************************************************************)
(* proxy.c: a single-threaded server that waits with select for its        *)
(* listening socket and its clients, each of which has a slot in           *)
(* `connections`.  It reads requests and answers none: remote_fd is never  *)
(* set and STATE_CACHED_RESPONSE never entered, so handle_write is never   *)
(* called and both are left out.  Bytes are counted, not modelled.         *)
(***************************************************************************)
EXTENDS Integers, FiniteSets, FiniteSetsExt

CONSTANTS
    MAX_CONNECTIONS,
    BUF_SIZE,           (* size of a slot's request_buf                     *)
    RELAY_LIMIT,        (* 1024 in the code                                 *)
    Fds,                (* descriptor numbers the kernel gives out          *)
    listen_fd, NoFd,    (* NoFd: -1                                         *)
    MaxClients,         (* bound: clients that ever connect                 *)
    MaxSent             (* bound: bytes in a socket that wait to be read    *)

VARIABLES
    connections,        (* client_fd, state and buf_len of each slot        *)
    max_fd,
    read_fds,           (* what select reported                             *)
    pc, i,              (* in select, in accept, or at slot i of the scan   *)
    open,               (* descriptors of clients not yet closed            *)
    waiting,            (* bytes the client of a descriptor has sent        *)
    hungup,             (* descriptors whose client has closed its end      *)
    backlog,            (* clients that have connected, not yet accepted    *)
    clients             (* what MaxClients bounds                           *)

peers == <<waiting, hungup>>
vars  == <<connections, max_fd, read_fds, pc, i, open, waiting, hungup, backlog, clients>>

Slots  == 0 .. MAX_CONNECTIONS - 1
States == {"FREE", "READING_REQUEST", "RELAYING"}
Empty  == [client_fd |-> NoFd, state |-> "FREE", buf_len |-> 0]
InUse  == {k \in Slots : connections[k].state # "FREE"}

Init ==
    /\ connections = [k \in Slots |-> Empty]
    /\ max_fd = listen_fd
    /\ read_fds = {}
    /\ pc = "select" /\ i = 0
    /\ open = {} /\ waiting = [f \in Fds |-> 0] /\ hungup = {}
    /\ backlog = 0 /\ clients = 0

-----------------------------------------------------------------------------
(* The clients *)

server == <<connections, max_fd, read_fds, pc, i, open>>

ClientConnects ==
    /\ clients < MaxClients
    /\ clients' = clients + 1 /\ backlog' = backlog + 1
    /\ UNCHANGED <<server, waiting, hungup>>

ClientSends(f) ==
    /\ f \in open \ hungup /\ waiting[f] < MaxSent
    /\ waiting' = [waiting EXCEPT ![f] = @ + 1]
    /\ UNCHANGED <<server, hungup, backlog, clients>>

ClientCloses(f) ==
    /\ f \in open \ hungup
    /\ hungup' = hungup \cup {f}
    /\ UNCHANGED <<server, waiting, backlog, clients>>

-----------------------------------------------------------------------------
(* select, over the descriptors up to max_fd; the scan raises max_fd       *)
(* before (lines 227 and 231).                                             *)
Reading  == {k \in Slots : connections[k].state = "READING_REQUEST"}

(* Mutant: a client is watched until its request is complete only. *)
WatchedReading == {listen_fd} \cup {connections[k].client_fd : k \in Reading}

Watched  == {listen_fd} \cup {connections[k].client_fd : k \in InUse}
NewMaxFd == Max({max_fd} \cup Watched)

Readable(f) ==
    IF f = listen_fd THEN backlog > 0 ELSE waiting[f] > 0 \/ f \in hungup

Select ==
    /\ pc = "select"
    /\ max_fd' = NewMaxFd
    /\ read_fds' = {f \in Watched : f <= NewMaxFd /\ Readable(f)}
    /\ read_fds' # {}
    /\ pc' = "accept"
    /\ UNCHANGED <<connections, i, open, peers, backlog, clients>>

(* Line 241: EINTR leaves the sets as they were passed in, and the round   *)
(* goes on as if every descriptor were ready.                              *)
Interrupted ==
    /\ pc = "select"
    /\ max_fd' = NewMaxFd
    /\ read_fds' = Watched
    /\ pc' = "accept"
    /\ UNCHANGED <<connections, i, open, peers, backlog, clients>>

SelectFails ==
    /\ pc = "select"
    /\ pc' = "stopped"
    /\ max_fd' = NewMaxFd
    /\ UNCHANGED <<connections, read_fds, i, open, peers, backlog, clients>>

(* accept_new_connection *)
ToScan == pc' = "scan" /\ i' = 0

AcceptNothing ==
    /\ pc = "accept"
    /\ listen_fd \notin read_fds \/ backlog = 0
    /\ ToScan
    /\ UNCHANGED <<connections, max_fd, read_fds, open, peers, backlog, clients>>

Accepts == pc = "accept" /\ listen_fd \in read_fds /\ backlog > 0

(* accept or fcntl fails, or no slot is free: the client is closed again.  *)
RejectClient ==
    /\ Accepts
    /\ backlog' = backlog - 1
    /\ ToScan
    /\ UNCHANGED <<connections, max_fd, read_fds, open, peers, clients>>

FreeSlots      == Slots \ InUse
find_free_slot == Min(FreeSlots)
NewFd          == Min(Fds \ open)

TakeSlot ==
    connections' = [connections EXCEPT
        ![find_free_slot] = [client_fd |-> NewFd, state |-> "READING_REQUEST", buf_len |-> 0]]

AcceptClient ==
    /\ Accepts
    /\ FreeSlots # {}
    /\ TakeSlot
    /\ open' = open \cup {NewFd}
    /\ waiting' = [waiting EXCEPT ![NewFd] = 0]
    /\ hungup' = hungup \ {NewFd}
    /\ max_fd' = Max({max_fd, NewFd})
    /\ backlog' = backlog - 1
    /\ ToScan
    /\ UNCHANGED <<read_fds, clients>>

-----------------------------------------------------------------------------
(* handle_read for the slot the scan is at *)

fd       == connections[i].client_fd
conn     == connections[i]
Room     == BUF_SIZE - conn.buf_len - 1
NextSlot == i' = i + 1

Due == pc = "scan" /\ i < MAX_CONNECTIONS /\ i \in InUse /\ fd \in read_fds

PassOver ==
    /\ pc = "scan" /\ i < MAX_CONNECTIONS
    /\ i \in InUse => fd \notin read_fds
    /\ NextSlot
    /\ UNCHANGED <<connections, max_fd, read_fds, pc, open, peers, backlog, clients>>

ScanDone ==
    /\ pc = "scan" /\ i = MAX_CONNECTIONS
    /\ pc' = "select" /\ i' = 0
    /\ UNCHANGED <<connections, max_fd, read_fds, open, peers, backlog, clients>>

(* The bytes are appended to those of earlier reads; buf_len never falls.  *)
StateAfter(len) ==
    IF conn.state = "READING_REQUEST" /\ len > RELAY_LIMIT THEN "RELAYING" ELSE conn.state

ReadData ==
    /\ Due
    /\ LET n == Min({waiting[fd], Room})
       IN  /\ n > 0
           /\ connections' = [connections EXCEPT ![i].buf_len = @ + n,
                                                 ![i].state = StateAfter(conn.buf_len + n)]
           /\ waiting' = [waiting EXCEPT ![fd] = @ - n]
    /\ NextSlot
    /\ UNCHANGED <<max_fd, read_fds, pc, open, hungup, backlog, clients>>

(* EAGAIN: not even the end has come.  A read of zero bytes never fails.   *)
ReadNothing ==
    /\ Due
    /\ Room > 0 /\ waiting[fd] = 0 /\ fd \notin hungup
    /\ NextSlot
    /\ UNCHANGED <<connections, max_fd, read_fds, pc, open, peers, backlog, clients>>

(* Mutant: the slot is freed and its descriptor stays open.                *)
ForgetConnection ==
    /\ connections' = [connections EXCEPT ![i] = Empty]
    /\ UNCHANGED open

CloseConnection ==
    /\ open' = open \ {fd}
    /\ connections' = [connections EXCEPT ![i] = Empty]

(* Line 133: read returned 0, after the last byte or because there is no   *)
(* room; line 136: it failed because the connection was reset.             *)
ReadEnd ==
    /\ Due
    /\ Room = 0 \/ (waiting[fd] = 0 /\ fd \in hungup)
    /\ CloseConnection
    /\ NextSlot
    /\ UNCHANGED <<max_fd, read_fds, pc, peers, backlog, clients>>

ReadFails ==
    /\ Due
    /\ fd \in hungup
    /\ CloseConnection
    /\ NextSlot
    /\ UNCHANGED <<max_fd, read_fds, pc, peers, backlog, clients>>

ServerStep ==
    \/ Select \/ Interrupted \/ AcceptNothing \/ RejectClient \/ AcceptClient
    \/ PassOver \/ ScanDone \/ ReadData \/ ReadNothing \/ ReadEnd \/ ReadFails

Next ==
    \/ ServerStep \/ SelectFails
    \/ ClientConnects \/ \E f \in Fds : ClientSends(f) \/ ClientCloses(f)

(* The server runs; it may be interrupted by signals again and again.      *)
Spec == Init /\ [][Next]_vars /\ WF_vars(ServerStep)

-----------------------------------------------------------------------------
TypeOK ==
    /\ connections \in [Slots -> [client_fd : Fds \cup {NoFd}, state : States,
                                  buf_len : 0 .. BUF_SIZE - 1]]
    /\ max_fd \in Fds \cup {listen_fd}
    /\ read_fds \subseteq Fds \cup {listen_fd}
    /\ pc \in {"select", "accept", "scan", "stopped"} /\ i \in 0 .. MAX_CONNECTIONS
    /\ open \subseteq Fds /\ hungup \subseteq Fds
    /\ waiting \in [Fds -> 0 .. MaxSent]
    /\ backlog \in 0 .. MaxClients /\ clients \in 0 .. MaxClients

(* Descriptors and slots match one to one, though slots and descriptor     *)
(* numbers are used again and again: none is closed under a slot in use    *)
(* and none is left open without a slot.                                   *)
OneSlotPerFd ==
    /\ \A k \in Slots : connections[k].client_fd \in open <=> k \in InUse
    /\ \A f \in open : \E k \in InUse : connections[k].client_fd = f
    /\ \A k, m \in InUse : connections[k].client_fd = connections[m].client_fd => k = m

(* A client that has hung up gets its descriptor closed: it does not       *)
(* occupy a slot for ever.                                                 *)
HangupsAreNoticed ==
    \A f \in Fds : (f \in open \cap hungup) ~> (f \notin open \/ pc = "stopped")

(* A client that has not hung up is cut off for one reason only: it has    *)
(* filled its request_buf, and a read of no bytes gives what a read at the *)
(* end gives.                                                              *)
LiveAreKept ==
    [][\A f \in open \ (open' \cup hungup) :
           \E k \in InUse : connections[k].client_fd = f /\ connections[k].buf_len = BUF_SIZE - 1]_vars
=============================================================================
