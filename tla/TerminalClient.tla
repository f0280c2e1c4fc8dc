--------------------------- MODULE TerminalClient ---------------------------
(***************************************************************************)
(* web/app: the Mini App's end of the terminal (useWebSocket and the       *)
(* StatusBar) against the relay of TerminalServer.  The page opens one     *)
(* socket at a time; when it closes, a timer opens the next after a delay  *)
(* that doubles up to 15 s, and after 10 s without a connection the status *)
(* bar can be tapped to retry at once.                                     *)
(*                                                                         *)
(* Time is not counted: of the two timers started when a socket closes,    *)
(* the retry after "wait" seconds and the hint after 10, the shorter one   *)
(* expires first.  A dial that does not reach the server takes no          *)
(* connection of Conns.  Page scripts run one at a time, so a handler is   *)
(* one step.                                                               *)
(***************************************************************************)
EXTENDS TerminalServer

CONSTANT NoConn

ASSUME NoConnIsNoConn == NoConn \notin Conns

VARIABLES
  mounted,  \* mountedRef
  ws,       \* the server connection wsRef has reached, if any
  wst,      \* readyState of the socket in wsRef
  status,   \* state
  timer,    \* reconnectTimer is pending
  wait,     \* the delay it was started with
  delay,    \* reconnectDelay
  hint      \* showTapHint

page == <<mounted, ws, wst, status, timer, wait, delay, hint>>
server == vars
all == <<page, server>>

Delays == {1, 2, 4, 8, 15}
HintDelay == 10

SystemTypeOK ==
  /\ TypeOK
  /\ mounted \in BOOLEAN
  /\ ws \in Conns \cup {NoConn}
  /\ wst \in {"connecting", "open", "closed"}
  /\ status \in {"connecting", "connected", "disconnected"}
  /\ timer \in BOOLEAN
  /\ wait \in Delays /\ delay \in Delays
  /\ hint \in BOOLEAN
  /\ mounted => /\ status = "connected" <=> wst = "open"
                /\ timer <=> wst = "closed"
                /\ hint => status = "disconnected"
  /\ ~mounted => ~timer

SystemInit ==
  /\ Init
  /\ mounted = FALSE
  /\ ws = NoConn
  /\ wst = "closed"
  /\ status = "disconnected"
  /\ timer = FALSE
  /\ wait = 1 /\ delay = 1
  /\ hint = FALSE

Capped(n, most) == IF n > most THEN most ELSE n
BackoffTo8(d) == Capped(2 * d, 8)  \* mutant: the cap stays below the hint's 10 s

Backoff(d) == Capped(2 * d, 15)

\* The server learns of a closed socket unless the client is cut off.
CloseSocket ==
  peer' = [c \in Conns |-> IF c = ws /\ peer[c] = "live" THEN "gone" ELSE peer[c]]

\* connect(): the old socket's onclose is removed before it is closed, so
\* nothing of it is heard again.
Connect ==
  /\ CloseSocket
  /\ ws' = NoConn
  /\ wst' = "connecting"
  /\ status' = "connecting"
  /\ hint' = FALSE
  /\ UNCHANGED <<up, hpc, sock, due, relay>>

Mount ==
  /\ ~mounted
  /\ mounted' = TRUE
  /\ delay' = 1
  /\ Connect
  /\ UNCHANGED <<timer, wait>>

Unmount ==
  /\ mounted
  /\ mounted' = FALSE
  /\ timer' = FALSE
  /\ hint' = FALSE
  /\ CloseSocket
  /\ wst' = "closed"
  /\ UNCHANGED <<ws, status, wait, delay, up, hpc, sock, due, relay>>

\* The dial of the socket in wsRef reaches the server.
Dial(c) ==
  /\ mounted /\ wst = "connecting" /\ ws = NoConn
  /\ Open(c)
  /\ ws' = c
  /\ UNCHANGED <<mounted, wst, status, timer, wait, delay, hint>>

OnOpen ==
  /\ mounted /\ wst = "connecting" /\ ws # NoConn
  /\ peer[ws] = "live"
  /\ hpc[ws] \notin {"accepted", "refused", "lost"}
  /\ wst' = "open"
  /\ status' = "connected"
  /\ delay' = 1
  /\ UNCHANGED <<mounted, ws, timer, wait, hint, server>>

OnCloseOnce ==  \* mutant: a dial that fails is not tried again
  /\ mounted /\ wst \in {"connecting", "open"}
  /\ CloseSocket
  /\ wst' = "closed"
  /\ status' = "disconnected"
  /\ timer' = (wst = "open")
  /\ wait' = delay
  /\ delay' = Backoff(delay)
  /\ UNCHANGED <<mounted, ws, hint, up, hpc, sock, due, relay>>

\* The server or the network ends the socket, or the dial fails.
\* scheduleReconnect replaces a pending timer.
OnClose ==
  /\ mounted /\ wst \in {"connecting", "open"}
  /\ CloseSocket
  /\ wst' = "closed"
  /\ status' = "disconnected"
  /\ timer' = TRUE
  /\ wait' = delay
  /\ delay' = Backoff(delay)
  /\ UNCHANGED <<mounted, ws, hint, up, hpc, sock, due, relay>>

Hint ==
  /\ status = "disconnected" /\ timer /\ ~hint
  /\ wait > HintDelay
  /\ hint' = TRUE
  /\ UNCHANGED <<mounted, ws, wst, status, timer, wait, delay, server>>

\* Leaving "disconnected" stops the hint's timer; connect() runs.
TimerFires ==
  /\ timer
  /\ status = "disconnected" /\ wait > HintDelay => hint
  /\ timer' = FALSE
  /\ Connect
  /\ UNCHANGED <<mounted, wait, delay>>

TapKeepsTimer ==  \* mutant: the pending retry is not cancelled
  /\ hint
  /\ delay' = 1
  /\ Connect
  /\ UNCHANGED <<mounted, wait, timer>>

\* forceReconnect cancels the pending retry.
Tap ==
  /\ hint
  /\ timer' = FALSE
  /\ delay' = 1
  /\ Connect
  /\ UNCHANGED <<mounted, wait>>

Page == \/ Mount \/ Unmount \/ OnOpen \/ OnClose
        \/ Hint \/ TimerFires \/ Tap
        \/ \E c \in Conns : Dial(c)

\* A socket the page has closed is not heard from again.
Network(c) ==
  \/ c = ws /\ wst # "closed" /\ (Stall(c) \/ Resume(c))
  \/ Leave(c)

SystemNext ==
  \/ Page
  \/ /\ \/ \E c \in Conns : Network(c) \/ Serve(c)
        \/ Signal
        \/ Exit
     /\ UNCHANGED page

(* Timers expire, a dial ends one way or the other, and a page is told of  *)
(* a socket the server has closed.  The user is not bound to do anything.  *)
PageFairness ==
  /\ WF_all(Hint)
  /\ WF_all(TimerFires)
  /\ WF_all((OnOpen \/ OnClose) /\ wst = "connecting")
  /\ WF_all(OnClose /\ ws # NoConn /\ sock[ws] = "closed")

SystemSpec ==
  SystemInit /\ [][SystemNext]_all /\ ServerFairness /\ PageFairness

-----------------------------------------------------------------------------
\* The page never closes a connection that works in order to make another:
\* no retry is left pending behind one that succeeded.
KeepsGoodSocket ==
  [][mounted /\ status = "connected" => status' # "connecting"]_page

\* A page that has lost its connection tries again, however often it fails.
Retries ==
  mounted /\ status = "disconnected" ~> ~mounted \/ status = "connecting"

\* While no connection can be made, the user is in the end offered a tap:
\* the longest delay is longer than the hint's.
OffersTap ==
  []<>(~mounted \/ status = "connected" \/ hint)
=============================================================================
