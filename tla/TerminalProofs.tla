--------------------------- MODULE TerminalProofs ---------------------------
(***************************************************************************)
(* Proofs about TerminalServer, and about TerminalClient with it, for      *)
(* every set of connections and process ids.                               *)
(***************************************************************************)
EXTENDS TerminalClient, TLAPS

\* No two shells, zombies included, have the same process id.
PidsApart ==
  \A c, d \in Conns : pid[c] # NoPid /\ pid[c] = pid[d] => c = d

\* Nothing but its handler closes or breaks a socket before the relay.
SocketsWhole ==
  \A c \in Conns : hpc[c] \in {"accepted", "upgraded"} => sock[c] = "open"

IInv == TypeOK /\ PidsApart /\ SocketsWhole /\ NoOrphanShell

-----------------------------------------------------------------------------
LEMMA InitIInv == Init => IInv
BY NoPidIsNoPid
DEF Init, IInv, TypeOK, Handlers, PidsApart, SocketsWhole, NoOrphanShell

LEMMA NetIInv ==
  ASSUME IInv, NEW c \in Conns, Net(c)
  PROVE  IInv'
<1> USE DEF IInv, TypeOK, Handlers, PidsApart, SocketsWhole, NoOrphanShell,
           relay, procs
<1>1. CASE Open(c)
  BY <1>1 DEF Open
<1>2. CASE Stall(c)
  BY <1>2 DEF Stall
<1>3. CASE Resume(c)
  BY <1>3 DEF Resume
<1>4. CASE Leave(c)
  BY <1>4 DEF Leave, Leaves
<1> QED
  BY <1>1, <1>2, <1>3, <1>4 DEF Net

LEMMA HandlerIInv ==
  ASSUME IInv, NEW c \in Conns, Handler(c)
  PROVE  IInv'
<1> USE DEF IInv, TypeOK, Handlers, PidsApart, SocketsWhole, NoOrphanShell,
           relay, procs
<1>1. CASE Refuse(c)
  BY <1>1 DEF Refuse
<1>2. CASE Upgrade(c)
  BY <1>2 DEF Upgrade
<1>3. CASE Start(c)
  BY <1>3, NoPidIsNoPid DEF Start, FreePids
<1>4. CASE StartFails(c)
  BY <1>4 DEF StartFails
<1>5. CASE RelayDone(c)
  BY <1>5 DEF RelayDone
<1>6. CASE Return(c)
  BY <1>6 DEF Return, KillGroup, Hangup
<1> QED
  BY <1>1, <1>2, <1>3, <1>4, <1>5, <1>6 DEF Handler

LEMMA OutputIInv ==
  ASSUME IInv, NEW c \in Conns, Output(c)
  PROVE  IInv'
<1> USE DEF IInv, TypeOK, Handlers, PidsApart, SocketsWhole, NoOrphanShell,
           relay, procs
<1>1. CASE OutReads(c)
  BY <1>1 DEF OutReads
<1>2. CASE OutReadFails(c)
  BY <1>2 DEF OutReadFails
<1>3. CASE OutWrites(c)
  BY <1>3 DEF OutWrites
<1>4. CASE OutWriteFails(c)
  BY <1>4 DEF OutWriteFails
<1> QED
  BY <1>1, <1>2, <1>3, <1>4 DEF Output

LEMMA PingIInv ==
  ASSUME IInv, NEW c \in Conns, Ping(c)
  PROVE  IInv'
<1> USE DEF IInv, TypeOK, Handlers, PidsApart, SocketsWhole, NoOrphanShell,
           relay, procs
<1>1. CASE PingTick(c)
  BY <1>1 DEF PingTick
<1>2. CASE PingWrites(c)
  BY <1>2 DEF PingWrites
<1>3. CASE PingFails(c)
  BY <1>3 DEF PingFails
<1>4. CASE PingEnds(c)
  BY <1>4 DEF PingEnds
<1> QED
  BY <1>1, <1>2, <1>3, <1>4 DEF Ping

LEMMA InputIInv ==
  ASSUME IInv, NEW c \in Conns, Input(c)
  PROVE  IInv'
<1> USE DEF IInv, TypeOK, Handlers, PidsApart, SocketsWhole, NoOrphanShell,
           relay, procs
<1>1. CASE InReads(c)
  BY <1>1 DEF InReads
<1>2. CASE InReadFails(c)
  BY <1>2 DEF InReadFails, Hangup
<1>3. CASE InWrites(c)
  <2>1. due' = due \/ due' = [due EXCEPT ![c] = FALSE]
    BY <1>3 DEF InWrites
  <2>2. CASE due' = due
    BY <1>3, <2>2 DEF InWrites
  <2>3. CASE due' = [due EXCEPT ![c] = FALSE]
    BY <1>3, <2>3 DEF InWrites
  <2> QED
    BY <2>1, <2>2, <2>3
<1>4. CASE InWriteFails(c)
  BY <1>4 DEF InWriteFails
<1>5. CASE DeadlinePasses(c)
  BY <1>5 DEF DeadlinePasses
<1> QED
  BY <1>1, <1>2, <1>3, <1>4, <1>5 DEF Input

LEMMA ProcessIInv ==
  ASSUME IInv, Signal \/ Exit \/ \E c \in Conns : Process(c)
  PROVE  IInv'
<1> USE DEF IInv, TypeOK, Handlers, PidsApart, SocketsWhole, NoOrphanShell,
           relay, procs
<1>1. CASE Signal
  BY <1>1 DEF Signal
<1>2. CASE Exit
  BY <1>2 DEF Exit
<1>3. ASSUME NEW c \in Conns, Process(c)
      PROVE  IInv'
  BY <1>3 DEF Process, ShellExits, JobStarts, JobEnds
<1> QED
  BY <1>1, <1>2, <1>3

LEMMA StepIInv == IInv /\ [Next]_vars => IInv'
<1> SUFFICES ASSUME IInv, [Next]_vars
             PROVE  IInv'
  OBVIOUS
<1>1. CASE UNCHANGED vars
  BY <1>1 DEF vars, relay, procs, IInv, TypeOK, PidsApart,
     SocketsWhole, NoOrphanShell
<1> QED
  BY <1>1, NetIInv, HandlerIInv, OutputIInv, PingIInv, InputIInv, ProcessIInv
  DEF Next, Serve

\* The invariant the theorems rest on, for every run of the server.
LEMMA Invariance == SafeSpec => []IInv
BY InitIInv, StepIInv, PTL DEF SafeSpec

\* Only the return of its own handler, or the end of the server, kills a
\* shell: no other connection's shell has its process id.
LEMMA StepKills ==
  ASSUME IInv, [Next]_vars, NEW c \in Conns,
         shell[c] = "running", shell'[c] = "killed"
  PROVE  hpc'[c] = "returned" \/ up' = "exited"
<1> USE DEF IInv, TypeOK
<1>1. ASSUME NEW d \in Conns, Return(d)
      PROVE  hpc'[c] = "returned"
  <2>1. pid[c] = pid[d] /\ pid[c] # NoPid
    BY <1>1 DEF Return, KillGroup
  <2>2. c = d
    BY <2>1 DEF PidsApart
  <2> QED
    BY <1>1, <2>2 DEF Return
<1>2. CASE Exit
  BY <1>2 DEF Exit
<1>3. CASE UNCHANGED shell
  BY <1>3
<1>4. ASSUME NEW d \in Conns, Start(d) \/ ShellExits(d)
      PROVE  FALSE
  BY <1>4 DEF Start, ShellExits
<1>5. ASSUME NEW d \in Conns, Handler(d), ~Start(d), ~Return(d)
      PROVE  UNCHANGED shell
  BY <1>5 DEF Handler, Refuse, Upgrade, StartFails, RelayDone, relay, procs
<1>6. ASSUME NEW d \in Conns, \/ Net(d) \/ Output(d) \/ Ping(d) \/ Input(d)
                               \/ JobStarts(d) \/ JobEnds(d)
      PROVE  UNCHANGED shell
  BY <1>6 DEF relay, procs, Net, Open, Stall, Resume, Leave, Output, OutReads,
     OutReadFails, OutWrites, OutWriteFails, Ping, PingTick, PingWrites,
     PingFails, PingEnds, Input, InReads, InReadFails, InWrites, InWriteFails,
     DeadlinePasses, JobStarts, JobEnds
<1>7. CASE Signal \/ UNCHANGED vars
  BY <1>7, <1>3 DEF Signal, vars, relay, procs
<1> QED
  BY <1>1, <1>2, <1>3, <1>4, <1>5, <1>6, <1>7 DEF Next, Serve, Process

-----------------------------------------------------------------------------
\* A connection that relays has its shell, terminal and goroutines, and one
\* that does not has none of them.
THEOREM ServerTypes == SafeSpec => []TypeOK
BY Invariance, PTL DEF IInv

\* A handler that has returned leaves neither its shell nor a process of the
\* shell's group running.
THEOREM NoShellOrphaned == SafeSpec => []NoOrphanShell
BY Invariance, PTL DEF IInv

\* The SIGKILL a handler sends to a process id hits its own shell, although
\* the shell may have ended long before.
THEOREM KillsOnlyItsOwn == SafeSpec => KillsOwnShell
<1>1. IInv /\ [Next]_vars =>
        [\A c \in Conns : shell[c] = "running" /\ shell'[c] = "killed"
           => hpc'[c] = "returned" \/ up' = "exited"]_vars
  BY StepKills
<1> QED
  BY <1>1, Invariance, PTL DEF SafeSpec, KillsOwnShell

\* No two shells the server started have the same process id.
THEOREM PidsStayApart == SafeSpec => []PidsApart
BY Invariance, PTL DEF IInv

-----------------------------------------------------------------------------
(* The page and the server together.                                       *)

\* Closing its socket is, for the server, a client that leaves.
LEMMA CloseIsLeave ==
  ASSUME TypeOK, CloseSocket, UNCHANGED <<up, hpc, sock, due, relay>>
  PROVE  [Next]_vars
<1>1. CASE ws \in Conns /\ peer[ws] = "live"
  <2>1. peer' = [peer EXCEPT ![ws] = "gone"]
    BY <1>1 DEF CloseSocket, TypeOK
  <2>2. Leave(ws)
    BY <1>1, <2>1 DEF Leave, Leaves
  <2> QED
    BY <1>1, <2>2 DEF Next, Net
<1>2. CASE ~(ws \in Conns /\ peer[ws] = "live")
  <2>1. peer' = peer
    BY <1>2 DEF CloseSocket, TypeOK
  <2> QED
    BY <2>1 DEF vars
<1> QED
  BY <1>1, <1>2

LEMMA SystemStepIsServerStep ==
  ASSUME TypeOK, [SystemNext]_all
  PROVE  [Next]_vars
<1>1. CASE \/ Mount \/ Unmount \/ OnClose \/ TimerFires \/ Tap
  BY <1>1, CloseIsLeave
  DEF Mount, Unmount, OnClose, TimerFires, Tap, Connect
<1>2. CASE OnOpen \/ Hint \/ UNCHANGED all
  BY <1>2 DEF OnOpen, Hint, all, server
<1>3. ASSUME NEW c \in Conns, Dial(c)
      PROVE  [Next]_vars
  BY <1>3 DEF Dial, Next, Net
<1>4. ASSUME NEW c \in Conns, Network(c) \/ Serve(c)
      PROVE  [Next]_vars
  BY <1>4 DEF Network, Next, Net
<1>5. CASE Signal \/ Exit
  BY <1>5 DEF Next
<1> QED
  BY <1>1, <1>2, <1>3, <1>4, <1>5 DEF SystemNext, Page

\* The page shows "disconnected" exactly while a retry is pending, and only
\* then the hint.
PageShape ==
  /\ mounted => (status = "disconnected" <=> wst = "closed")
  /\ ~mounted => ~hint

SystemIInv == SystemTypeOK /\ PageShape

LEMMA BackoffType == \A d \in Delays : Backoff(d) \in Delays
BY DEF Delays, Backoff, Capped

LEMMA PageSteps ==
  ASSUME SystemIInv, TypeOK', Page
  PROVE  SystemIInv'
<1> USE DEF SystemIInv, SystemTypeOK, PageShape, Delays
<1>1. CASE Mount
  BY <1>1 DEF Mount, Connect
<1>2. CASE Unmount
  BY <1>2 DEF Unmount
<1>3. CASE OnOpen
  BY <1>3 DEF OnOpen
<1>4. CASE OnClose
  <2>1. delay' \in Delays
    BY <1>4, BackoffType DEF OnClose
  <2> QED
    BY <1>4, <2>1 DEF OnClose
<1>5. CASE Hint
  BY <1>5 DEF Hint
<1>6. CASE TimerFires
  BY <1>6 DEF TimerFires, Connect
<1>7. CASE Tap
  BY <1>7 DEF Tap, Connect
<1>8. ASSUME NEW c \in Conns, Dial(c)
      PROVE  SystemIInv'
  BY <1>8 DEF Dial
<1> QED
  BY <1>1, <1>2, <1>3, <1>4, <1>5, <1>6, <1>7, <1>8 DEF Page

LEMMA SystemStep ==
  ASSUME IInv, SystemIInv, [SystemNext]_all
  PROVE  IInv' /\ SystemIInv'
<1>1. IInv'
  BY SystemStepIsServerStep, StepIInv DEF IInv
<1>2. CASE Page
  BY <1>1, <1>2, PageSteps DEF IInv
<1>3. CASE UNCHANGED page
  BY <1>1, <1>3 DEF page, IInv, SystemIInv, SystemTypeOK, PageShape
<1> QED
  BY <1>1, <1>2, <1>3 DEF SystemNext, all

LEMMA SystemInvariance == SystemSpec => [](IInv /\ SystemIInv)
<1>1. SystemInit => IInv /\ SystemIInv
  BY InitIInv DEF SystemInit, IInv, SystemIInv, SystemTypeOK, PageShape, Delays
<1>2. (IInv /\ SystemIInv) /\ [SystemNext]_all => (IInv /\ SystemIInv)'
  BY SystemStep
<1> QED
  BY <1>1, <1>2, PTL DEF SystemSpec

-----------------------------------------------------------------------------
\* The page and the network do nothing to the server that TerminalServer
\* does not allow its clients: what holds of it there, liveness included,
\* holds behind the Mini App.
THEOREM PageIsAClient == SystemSpec => Spec
<1>1. SystemInit => Init
  BY DEF SystemInit
<1>2. IInv /\ [SystemNext]_all => [Next]_vars
  BY SystemStepIsServerStep DEF IInv
<1> QED
  BY <1>1, <1>2, SystemInvariance, PTL DEF SystemSpec, Spec, SafeSpec

\* The status shown, the socket and the pending retry agree while the page
\* is mounted, and nothing is pending when it is not.
THEOREM SystemTypes == SystemSpec => []SystemTypeOK
BY SystemInvariance, PTL DEF SystemIInv

\* No retry, timed or tapped, replaces a socket that is connected.
THEOREM KeepsConnected == SystemSpec => KeepsGoodSocket
<1>1. SystemIInv /\ [SystemNext]_all =>
        [mounted /\ status = "connected" => status' # "connecting"]_page
  <2> SUFFICES ASSUME SystemIInv, SystemNext, mounted, status = "connected"
               PROVE  status' # "connecting" \/ UNCHANGED page
    BY DEF all
  <2> USE DEF SystemIInv, SystemTypeOK, PageShape
  <2>1. CASE Mount \/ Unmount \/ OnOpen \/ OnClose \/ Hint
    BY <2>1 DEF Mount, Unmount, OnOpen, OnClose, Hint
  <2>2. CASE TimerFires \/ Tap
    BY <2>2 DEF TimerFires, Tap
  <2>3. CASE \E c \in Conns : Dial(c)
    BY <2>3 DEF Dial
  <2> QED
    BY <2>1, <2>2, <2>3 DEF SystemNext, Page
<1> QED
  BY <1>1, SystemInvariance, PTL DEF SystemSpec, KeepsGoodSocket
=============================================================================
