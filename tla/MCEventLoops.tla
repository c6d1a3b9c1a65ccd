---------------------------- MODULE MCEventLoops ----------------------------
(***************************************************************************)
(* The three single-threaded programs that wait with poll or select, side  *)
(* by side: a behaviour is one of the program chosen at its start; the     *)
(* state of the others stays initial.                                      *)
(***************************************************************************)
EXTENDS ProxyServer, Sequences

CONSTANTS
    SlotCount, BUF_SIZE, RELAY_LIMIT, SelectFds, MaxClients, MaxSent,
    Size, NewLines, BUFFER_SIZE, SCREEN_HEIGHT, MaxTyped

ASSUME SelectProxyAssumption ==
    /\ {SlotCount, BUF_SIZE, RELAY_LIMIT, MaxClients, MaxSent} \subseteq Nat
    /\ SlotCount > 0 /\ 0 < RELAY_LIMIT /\ RELAY_LIMIT < BUF_SIZE - 1
    /\ SelectFds \cup {listen_fd} \subseteq Nat /\ listen_fd \notin SelectFds /\ NoFd \notin SelectFds
    /\ SlotCount < Cardinality(SelectFds)

ASSUME HttpPagerAssumption ==
    /\ {Size, BUFFER_SIZE, SCREEN_HEIGHT, MaxTyped} \subseteq Nat \ {0}
    /\ BUFFER_SIZE > 1 /\ NewLines \subseteq 1 .. Size

VARIABLES
    program,
    (* proxy.c *)
    slots, max_fd, read_fds, selPc, selI, selOpen, waiting, hungup, backlog, clients,
    (* http_client_select.c *)
    arrived, server, typed, received, shown, line_count,
    is_scrolling_paused, socket_active, terminal, pagerPc, pages

Sel == INSTANCE SelectProxy WITH
    MAX_CONNECTIONS <- SlotCount, Fds <- SelectFds,
    connections <- slots, pc <- selPc, i <- selI, open <- selOpen

Pager == INSTANCE HttpPager WITH pc <- pagerPc

selVars   == <<slots, max_fd, read_fds, selPc, selI, selOpen, waiting, hungup, backlog, clients>>
pagerVars == <<arrived, server, typed, received, shown, line_count,
               is_scrolling_paused, socket_active, terminal, pagerPc, pages>>
all       == <<program, vars, selVars, pagerVars>>

InProxy(A)  == program = "proxy_server" /\ A /\ UNCHANGED <<program, selVars, pagerVars>>
InSelect(A) == program = "proxy" /\ A /\ UNCHANGED <<program, vars, pagerVars>>
InPager(A)  == program = "http_client_select" /\ A /\ UNCHANGED <<program, vars, selVars>>

MCInit ==
    /\ program \in {"proxy_server", "proxy", "http_client_select"}
    /\ Init /\ Sel!Init /\ Pager!Init
    /\ program # "proxy_server" => \A k \in Slots : fds[k].revents = "none"

MCNext == InProxy(Next) \/ InSelect(Sel!Next) \/ InPager(Pager!Next)

(* The fairness of SelectProxy and of HttpPager. *)
MCFairness ==
    /\ WF_all(InSelect(Sel!ServerStep))
    /\ WF_all(InPager(Pager!Round)) /\ WF_all(InPager(Pager!Finish))
    /\ WF_all(InPager(Pager!CloseOrReset))
    /\ SF_all(InPager(Pager!Type("space")))

MCSpec == MCInit /\ [][MCNext]_all /\ MCFairness

-----------------------------------------------------------------------------
(* The type invariants of the three programs.  They keep every index and   *)
(* length inside its array: a pair of entries fits into the poll array or  *)
(* is not added, request_buf keeps its last byte for the '\0', and no more *)
(* lines are printed than the screen has.                                  *)
InBounds == TypeOK /\ Sel!TypeOK /\ Pager!TypeOK

(* proxy.c: slots in use and open descriptors match one to one.            *)
OneSlotPerFd == Sel!OneSlotPerFd

(* proxy.c: a client that has hung up does not occupy a slot for ever, and *)
(* one that has not is cut off only when its buffer is full.               *)
HangupsAreNoticed == (program = "proxy" => Sel!HangupsAreNoticed) /\ Sel!LiveAreKept

(* http_client_select.c: pauses come exactly when a page is full.          *)
PagesAreFull == Pager!PagesAreFull

(* http_client_select.c: the terminal is given back in its old mode.       *)
TerminalRestored == program = "http_client_select" => Pager!TerminalRestored
=============================================================================
