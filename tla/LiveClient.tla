---------------------------- MODULE LiveClient ----------------------------
(***************************************************************************)
(* The console's side of the live feed (live.ts): one module-level socket, *)
(* its callbacks, which do not know which socket they were made for, and   *)
(* the reconnect timer.  AppShell connects while the pages are shown.      *)
(* Browsers deliver a failed socket's error and close events together, and *)
(* the close event of a closed one when the closing handshake ends.        *)
(***************************************************************************)
EXTENDS ConsoleSession, FiniteSets

CONSTANTS
  Sockets,      (* WebSocket objects that may exist together                *)
  NoSocket      (* the variable socket is null                              *)

ASSUME LiveAssumption == NoSocket \notin Sockets

VARIABLES
  sock,         (* the state of each object                                 *)
  socket,       (* the module's variable                                    *)
  timer,        (* is the timer in reconnectTimer armed?                    *)
  strays,       (* armed timers reconnectTimer no longer names              *)
  closed,       (* intentionallyClosed                                      *)
  status,       (* open, or off: idle, connecting or closed                 *)
  late          (* did AppShell connect before the last socket's end was known? *)

liveVars == <<shell, sock, socket, timer, strays, closed, status, late>>

(* "denied" carries a token the server will refuse; "failing" was closed   *)
(* while it was connecting, "closing" while it was open.                   *)
SocketState == {"none", "connecting", "denied", "open", "closing", "failing"}

Live == {s \in Sockets : sock[s] \in {"connecting", "denied", "open"}}

LiveInit ==
  /\ sock = [s \in Sockets |-> "none"]
  /\ socket = NoSocket
  /\ timer = FALSE
  /\ strays = 0
  /\ closed = FALSE
  /\ status = "off"
  /\ late = FALSE
-----------------------------------------------------------------------------
(* new WebSocket() takes an object that is not in use.                     *)
Free == {s \in Sockets : sock[s] = "none"}

(* connect()                                                               *)
Connect ==
  \/ /\ tokens = NoTokens \/ socket # NoSocket
     /\ UNCHANGED <<sock, socket, closed, status>>
  \/ /\ tokens # NoTokens /\ socket = NoSocket
     /\ Free # {}
     /\ socket' = CHOOSE s \in Free : TRUE
     /\ sock' = [sock EXCEPT ![socket'] = IF tokens.fresh THEN "connecting" ELSE "denied"]
     /\ closed' = FALSE
     /\ status' = "off"

(* What close() makes of the objects' states.                              *)
Closing(states, s) ==
  IF s = NoSocket THEN states
  ELSE [states EXCEPT ![s] =
          CASE @ = "open" -> "closing"
            [] @ \in {"connecting", "denied"} -> "failing"
            [] OTHER -> @]

(* AppShell's effect.                                                      *)
Mount ==
  /\ Shown /\ ~shell
  /\ shell' = TRUE
  /\ Connect
  /\ late' = (late \/ \E s \in Sockets : sock[s] # "none")
  /\ UNCHANGED <<timer, strays>>

(* Mutation: the socket is forgotten but not closed.                       *)
Unmount_LeavesSocket ==
  /\ ~Shown /\ shell
  /\ shell' = FALSE
  /\ closed' = TRUE
  /\ timer' = FALSE
  /\ socket' = NoSocket
  /\ status' = "off"
  /\ UNCHANGED <<sock, strays, late>>

(* disconnect() by the effect's clean-up.                                  *)
Unmount ==
  /\ ~Shown /\ shell
  /\ shell' = FALSE
  /\ closed' = TRUE
  /\ timer' = FALSE
  /\ sock' = Closing(sock, socket)
  /\ socket' = NoSocket
  /\ status' = "off"
  /\ UNCHANGED <<strays, late>>

(* onopen, of whichever socket.                                            *)
OnOpen(s) ==
  /\ sock[s] = "connecting"
  /\ sock' = [sock EXCEPT ![s] = "open"]
  /\ status' = "open"
  /\ UNCHANGED <<shell, socket, timer, strays, closed, late>>

(* Mutation: whatever ended the connection, it is not tried again.         *)
OnClose_NoRetry ==
  /\ socket' = NoSocket
  /\ status' = "off"
  /\ UNCHANGED <<timer, strays>>

(* onclose, of whichever socket.                                           *)
OnClose ==
  /\ socket' = NoSocket
  /\ status' = "off"
  /\ IF closed \/ tokens = NoTokens
       THEN UNCHANGED <<timer, strays>>
       ELSE timer' = TRUE /\ strays' = IF timer THEN strays + 1 ELSE strays

(* The handshake was refused or closed: onerror, which closes whatever     *)
(* socket now names, and onclose.                                          *)
HandshakeFails(s) ==
  /\ sock[s] \in {"denied", "failing"}
  /\ sock' = [Closing(sock, socket) EXCEPT ![s] = "none"]
  /\ OnClose
  /\ UNCHANGED <<shell, closed, late>>

(* The closing handshake is over.                                          *)
CloseEvent(s) ==
  /\ sock[s] = "closing"
  /\ sock' = [sock EXCEPT ![s] = "none"]
  /\ OnClose
  /\ UNCHANGED <<shell, closed, late>>

(* The server restarts, or the network drops a connection that is open or  *)
(* closing.  If that is an error to the browser, onerror comes first, and  *)
(* closes whatever socket now names.                                       *)
Drop(s) ==
  /\ \E named \in {NoSocket, socket} :
       /\ sock[s] = "open" \/ (sock[s] = "closing" /\ named # NoSocket)
       /\ sock' = [Closing(sock, named) EXCEPT ![s] = "none"]
  /\ OnClose
  /\ UNCHANGED <<shell, closed, late>>

(* The browser fails a handshake it has given up at once, long before the  *)
(* 1.4 seconds that a timer takes at least.                                *)
TimersRun == \A s \in Sockets : sock[s] # "failing"

Retry ==
  /\ TimersRun
  /\ timer /\ timer' = FALSE
  /\ Connect
  /\ UNCHANGED <<shell, strays, late>>

RetryStray ==
  /\ TimersRun
  /\ strays > 0 /\ strays' = strays - 1
  /\ Connect
  /\ UNCHANGED <<shell, timer, late>>

(* With the page everything goes.                                          *)
LiveLost ==
  /\ shell' = FALSE
  /\ sock' = [s \in Sockets |-> "none"]
  /\ socket' = NoSocket
  /\ timer' = FALSE
  /\ strays' = 0
  /\ closed' = FALSE
  /\ status' = "off"
  /\ late' = FALSE

LiveNext ==
  \/ Mount \/ Unmount \/ Retry \/ RetryStray
  \/ \E s \in Sockets : OnOpen(s) \/ HandshakeFails(s) \/ CloseEvent(s) \/ Drop(s)

(* React runs effects, the browser its timers, and every handshake ends.   *)
LiveFairness ==
  /\ WF_liveVars(Mount) /\ WF_liveVars(Unmount)
  /\ WF_liveVars(Retry) /\ WF_liveVars(RetryStray)
  /\ \A s \in Sockets :
       WF_liveVars(OnOpen(s)) /\ WF_liveVars(HandshakeFails(s)) /\ WF_liveVars(CloseEvent(s))
=============================================================================
