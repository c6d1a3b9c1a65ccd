----------------------------- MODULE HttpPager -----------------------------
(***************************************************************************)
(* http_client_select.c: a client that prints what a server sends, a       *)
(* screenful at a time.  The terminal is put in cbreak mode, select waits  *)
(* for the socket and, while the output is paused, for the keyboard; a     *)
(* space ends the pause.  A byte of the response is its position, and      *)
(* NewLines holds the positions of the newlines.                           *)
(***************************************************************************)
EXTENDS Integers, Sequences, FiniteSets

CONSTANTS
    Size,               (* bytes the server has to send                     *)
    NewLines,
    BUFFER_SIZE,        (* one recv returns at most BUFFER_SIZE - 1 bytes   *)
    SCREEN_HEIGHT,
    MaxTyped            (* bound: keys typed and not read yet               *)

VARIABLES
    arrived,            (* bytes 1 .. arrived have reached the socket       *)
    server,             (* the server's end of the connection               *)
    typed,              (* keys typed and not read                          *)
    received,           (* bytes 1 .. received were returned by recv        *)
    shown,              (* positions of the bytes printed                   *)
    line_count, is_scrolling_paused, socket_active,
    terminal,           (* "cbreak" once set, "old" again at the end        *)
    pc,
    pages               (* history: pauses that a space has ended           *)

env  == <<arrived, server, typed>>
vars == <<arrived, server, typed, received, shown, line_count,
          is_scrolling_paused, socket_active, terminal, pc, pages>>

Keys == {"space", "other"}

(* The request has been sent and set_cbreak_mode has run. *)
Init ==
    /\ arrived = 0 /\ server = "open" /\ typed = <<>>
    /\ received = 0 /\ shown = {}
    /\ line_count = 0 /\ is_scrolling_paused = FALSE /\ socket_active = TRUE
    /\ terminal = "cbreak" /\ pc = "loop" /\ pages = 0

-----------------------------------------------------------------------------
(* The server and the user *)

SendByte ==
    /\ server = "open" /\ arrived < Size
    /\ arrived' = arrived + 1
    /\ UNCHANGED <<server, typed, received, shown, line_count, is_scrolling_paused,
                   socket_active, terminal, pc, pages>>

(* The server closes, early perhaps, or the connection is reset. *)
CloseOrReset ==
    /\ server = "open"
    /\ server' \in {"closed", "reset"}
    /\ UNCHANGED <<arrived, typed, received, shown, line_count, is_scrolling_paused,
                   socket_active, terminal, pc, pages>>

Type(key) ==
    /\ Len(typed) < MaxTyped
    /\ typed' = Append(typed, key)
    /\ UNCHANGED <<arrived, server, received, shown, line_count, is_scrolling_paused,
                   socket_active, terminal, pc, pages>>

-----------------------------------------------------------------------------
(* One round of the loop.  select returns with the keyboard ready, the     *)
(* socket ready, or both; what becomes ready later is for the next round.  *)
(* A timeout or EINTR changes nothing.                                     *)

Looping    == pc = "loop" /\ (socket_active \/ is_scrolling_paused)
KeyReady   == is_scrolling_paused /\ typed # <<>>
SockReady  == socket_active /\ (received < arrived \/ server # "open")

(* Lines 180-188: a key is read during a pause only.  Mutant: the count of *)
(* lines is not reset.                                                     *)
EndsPause  == KeyReady /\ Head(typed) = "space"
PausedNow   == is_scrolling_paused /\ ~EndsPause
LinesGoOn   == line_count
LinesNow    == IF EndsPause THEN 0 ELSE line_count

ReadKey ==
    /\ typed' = IF KeyReady THEN Tail(typed) ELSE typed
    /\ pages' = IF EndsPause THEN pages + 1 ELSE pages

(* Lines 196-209: the bytes of one recv are printed until the newline that *)
(* fills the screen.                                                       *)
NewLinesIn(first, last) == {k \in NewLines : first <= k /\ k <= last}

ScreenFull(first, last) == LinesNow + Cardinality(NewLinesIn(first, last)) >= SCREEN_HEIGHT

PrintUpTo(first, last) ==
    /\ shown' = shown \cup first .. last
    /\ line_count' = LinesNow + Cardinality(NewLinesIn(first, last))

PrintUntilFull(first, last) ==
    /\ \E stop \in first .. last :
          /\ ScreenFull(first, stop)
          /\ \A k \in first .. stop - 1 : ~ScreenFull(first, k)
          /\ PrintUpTo(first, stop)
    /\ is_scrolling_paused' = TRUE

PrintAll(first, last) ==
    /\ ~ScreenFull(first, last)
    /\ PrintUpTo(first, last)
    /\ is_scrolling_paused' = PausedNow

(* The key, if there is one, and then no recv: paused, or nothing there.   *)
KeyOnly ==
    /\ Looping /\ KeyReady
    /\ PausedNow \/ ~SockReady
    /\ ReadKey
    /\ is_scrolling_paused' = PausedNow /\ line_count' = LinesNow
    /\ UNCHANGED <<arrived, server, received, shown, socket_active, terminal, pc>>

Reads == Looping /\ SockReady /\ ~PausedNow /\ ReadKey

ReceiveData ==
    /\ Reads
    /\ server # "reset"
    /\ \E n \in 1 .. BUFFER_SIZE - 1 :
          /\ received + n <= arrived
          /\ n < BUFFER_SIZE - 1 => received + n = arrived
          /\ received' = received + n
          /\ \/ PrintUntilFull(received + 1, received + n)
             \/ PrintAll(received + 1, received + n)
    /\ UNCHANGED <<arrived, server, socket_active, terminal, pc>>

(* recv returns 0 after the last byte, or -1 once the connection is reset. *)
(* Mutant: only an orderly end stops the reading. *)
ReceiveClose ==
    /\ Reads
    /\ server = "closed" /\ received = arrived
    /\ socket_active' = FALSE
    /\ is_scrolling_paused' = PausedNow /\ line_count' = LinesNow
    /\ UNCHANGED <<arrived, server, received, shown, terminal, pc>>

ReceiveEnd ==
    /\ Reads
    /\ server = "reset" \/ (server = "closed" /\ received = arrived)
    /\ socket_active' = FALSE
    /\ is_scrolling_paused' = PausedNow /\ line_count' = LinesNow
    /\ UNCHANGED <<arrived, server, received, shown, terminal, pc>>

Round == KeyOnly \/ ReceiveData \/ ReceiveEnd

(* Lines 219-224.  select may also fail for good, with the socket active.  *)
Finish ==
    /\ pc = "loop" /\ ~(socket_active \/ is_scrolling_paused)
    /\ pc' = "ended" /\ terminal' = "old"
    /\ UNCHANGED <<arrived, server, typed, received, shown, line_count,
                   is_scrolling_paused, socket_active, pages>>

SelectFails ==
    /\ Looping
    /\ pc' = "failed" /\ terminal' = "old"
    /\ UNCHANGED <<arrived, server, typed, received, shown, line_count,
                   is_scrolling_paused, socket_active, pages>>

Next ==
    \/ SendByte \/ CloseOrReset \/ \E key \in Keys : Type(key)
    \/ Round \/ Finish \/ SelectFails

(* The client runs, the server ends its answer, and the user, who may type *)
(* anything, types a space again and again as long as keys can be typed.   *)
Fairness ==
    /\ WF_vars(Round) /\ WF_vars(Finish)
    /\ WF_vars(CloseOrReset)
    /\ SF_vars(Type("space"))

Spec     == Init /\ [][Next]_vars
FairSpec == Spec /\ Fairness

-----------------------------------------------------------------------------
(* Besides the types: the output is paused only while the socket is still  *)
(* active, so that the tests on lines 161 and 178 never end the loop.      *)
TypeOK ==
    /\ arrived \in 0 .. Size /\ received \in 0 .. arrived
    /\ server \in {"open", "closed", "reset"}
    /\ typed \in Seq(Keys) /\ Len(typed) <= MaxTyped
    /\ shown \subseteq 1 .. received
    /\ line_count \in 0 .. SCREEN_HEIGHT
    /\ is_scrolling_paused \in BOOLEAN /\ socket_active \in BOOLEAN
    /\ is_scrolling_paused => socket_active
    /\ pc \in {"loop", "ended", "failed"}
    /\ terminal = IF pc = "loop" THEN "cbreak" ELSE "old"
    /\ pages \in 0 .. Cardinality(NewLines)

(* Every page the user has dismissed was a full screen and the one on the  *)
(* screen is never fuller than that; the output stands still exactly when  *)
(* the page is full.                                                       *)
PagesAreFull ==
    /\ Cardinality(shown \cap NewLines) = pages * SCREEN_HEIGHT + line_count
    /\ is_scrolling_paused <=> line_count = SCREEN_HEIGHT

(* However the server ends its answer and in whatever order keys and bytes *)
(* come in, the client ends and gives the terminal back in its old mode.   *)
TerminalRestored == <>[](terminal = "old")

(* "End of the response" (http_client_select.c:223), printed when the      *)
(* server has closed: all of the response has been printed.                *)
EndMeansAllShown ==
    (pc = "ended" /\ server = "closed") => shown = 1 .. arrived
=============================================================================
