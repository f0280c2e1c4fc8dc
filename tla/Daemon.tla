------------------------------- MODULE Daemon -------------------------------
(***************************************************************************)
(* Daemons, the commands that start and stop them (serve_cmd.go), and the  *)
(* hooks that notify them (notify.Send, SocketServer).  They share a PID   *)
(* file and a socket path, and no lock: every process works on the files   *)
(* as it finds them, in steps that interleave.                             *)
(*                                                                         *)
(* A daemon stands for its process and for its PID, which another program  *)
(* may get once it is gone.  Time is left out: a limit of 5 s may pass at  *)
(* any moment, for a daemon that is stopped may be in a handler for longer *)
(* (an AI answer takes up to 60 s).                                        *)
(***************************************************************************)
EXTENDS Naturals, FiniteSets

CONSTANTS Daemons,     \* processes that ever run "serve --fg"
          Shells,      \* where commands are typed
          Hooks,       \* notifications, one hook process each
          None,
          MaxCommands, \* bound: commands typed
          MaxReuses    \* bound: PIDs that another program gets

ASSUME NoneIsNoDaemon == None \notin Daemons

VARIABLES
  pc,        \* where each daemon is
  term,      \* daemons that were told to stop
  pidFile, pidTmp,   \* the daemon named by the file and its .tmp, or None
  sockFile,  \* the daemon that bound the file at the socket path, or None
  reused,    \* PIDs of dead daemons that other programs have
  cmd,       \* the command each shell runs: the step it is at, its daemon
  hook,      \* the hook processes, and the daemon each is connected to
  handled,   \* notifications passed to onNotification
  typed, reuses,
  calm,      \* history: commands came one at a time and none gave up
  cut,       \* history: daemons that died without their cleanup
  refused,   \* history: a daemon could not start for the socket's sake
  missed     \* history: hooks that found no daemon though one ran

files == <<pidFile, pidTmp, sockFile>>
hooks == <<hook, handled, missed>>
bounds == <<typed, reuses>>
vars == <<pc, term, files, reused, cmd, hooks, bounds, calm, cut, refused>>

Ended == {"unborn", "gone"}
Starting == {"new", "listen", "chmod"}          \* daemon.New
Unnotified == Starting \cup {"ready"}           \* SIGTERM kills: no signal.Notify yet
Running(d) == pc[d] \notin Ended
Listening(d) == pc[d] \in {"chmod", "ready", "tmp", "rename", "run", "close"}
Settled(d) == pc[d] = "run" /\ d \notin term
Quiet == /\ \A k \in Shells : cmd[k].at = "idle"
         /\ \A d \in Daemons : Running(d) => Settled(d)

\* readPID: the file names a process, whichever that is now.
Alive(d) == d # None /\ (Running(d) \/ d \in reused)
\* net.Dial to the socket path
Reached == sockFile # None /\ Listening(sockFile)

Init ==
  /\ pc = [d \in Daemons |-> "unborn"] /\ term = {}
  /\ pidFile = None /\ pidTmp = None /\ sockFile = None
  /\ reused = {}
  /\ cmd = [k \in Shells |-> [at |-> "idle", target |-> None]]
  /\ hook = [h \in Hooks |-> [at |-> "idle", to |-> None]] /\ handled = {}
  /\ typed = 0 /\ reuses = 0
  /\ calm = TRUE /\ cut = {} /\ refused = FALSE /\ missed = {}

-----------------------------------------------------------------------------
(* A daemon.                                                               *)

Goes(d, from, to) == pc[d] = from /\ pc' = [pc EXCEPT ![d] = to]
OnlyFiles == UNCHANGED <<term, reused, cmd, hooks, bounds, calm, cut>>

\* The configuration, the token or the store is bad.
NewFails(d) == Goes(d, "new", "gone") /\ OnlyFiles /\ UNCHANGED <<files, refused>>

RemoveStaleNot(d) ==  \* mutant: a file at the path is left
  Goes(d, "new", "listen") /\ OnlyFiles /\ UNCHANGED <<files, refused>>

\* NewSocketServer: remove what is at the path, bind it, chmod it.
RemoveStale(d) ==
  /\ Goes(d, "new", "listen")
  /\ sockFile' = None
  /\ OnlyFiles /\ UNCHANGED <<pidFile, pidTmp, refused>>

Listen(d) ==
  /\ IF sockFile = None
     THEN Goes(d, "listen", "chmod") /\ sockFile' = d /\ UNCHANGED refused
     ELSE Goes(d, "listen", "gone") /\ refused' = TRUE /\ UNCHANGED sockFile
  /\ OnlyFiles /\ UNCHANGED <<pidFile, pidTmp>>

\* The path may be gone again; closing the listener removes what is there.
Chmod(d) ==
  /\ IF sockFile # None
     THEN Goes(d, "chmod", "ready") /\ UNCHANGED refused
     ELSE Goes(d, "chmod", "gone") /\ refused' = TRUE
  /\ OnlyFiles /\ UNCHANGED files

HandleSignals(d) == Goes(d, "ready", "tmp") /\ OnlyFiles /\ UNCHANGED <<files, refused>>

\* writePID: one .tmp for all.
WriteTmp(d) ==
  /\ Goes(d, "tmp", "rename")
  /\ pidTmp' = d
  /\ OnlyFiles /\ UNCHANGED <<pidFile, sockFile, refused>>

Rename(d) ==
  /\ Goes(d, "rename", "run")
  /\ pidFile' = (IF pidTmp # None THEN pidTmp ELSE pidFile)
  /\ pidTmp' = None
  /\ OnlyFiles /\ UNCHANGED <<sockFile, refused>>

\* bot.Run sees the signal when the handler it is in returns.
LoopEnds(d) ==
  /\ d \in term
  /\ Goes(d, "run", "close")
  /\ OnlyFiles /\ UNCHANGED <<files, refused>>

\* SocketServer.Close: the listener removes the path, and then Close does.
CloseListener(d) ==
  /\ Goes(d, "close", "remove")
  /\ sockFile' = None
  /\ OnlyFiles /\ UNCHANGED <<pidFile, pidTmp, refused>>

RemoveSocket(d) ==
  /\ Goes(d, "remove", "pid")
  /\ sockFile' = None
  /\ OnlyFiles /\ UNCHANGED <<pidFile, pidTmp, refused>>

\* the deferred removePID, and exit
Exit(d) ==
  /\ Goes(d, "pid", "gone")
  /\ pidFile' = None
  /\ OnlyFiles /\ UNCHANGED <<pidTmp, sockFile, refused>>

\* Killed, a panic, or the host's end: the files stay.
Die(d) ==
  /\ pc' = [pc EXCEPT ![d] = "gone"]
  /\ cut' = cut \cup {d}
  /\ UNCHANGED term

Crash(d) ==
  /\ Running(d) /\ Die(d)
  /\ UNCHANGED <<files, reused, cmd, hooks, bounds, calm, refused>>

\* SIGTERM and Ctrl-C; another program that has the PID dies or ignores it.
Sigterm(d) ==
  \/ pc[d] \in Unnotified /\ Die(d) /\ UNCHANGED reused
  \/ Running(d) /\ pc[d] \notin Unnotified /\ term' = term \cup {d} /\ UNCHANGED <<pc, cut, reused>>
  \/ d \in reused /\ reused' \in {reused, reused \ {d}} /\ UNCHANGED <<pc, cut, term>>

CtrlC(d) ==
  /\ Running(d) /\ Sigterm(d)
  /\ UNCHANGED <<files, cmd, hooks, bounds, calm, refused>>

Reuse(d) ==
  /\ pc[d] = "gone" /\ d \notin reused
  /\ reuses < MaxReuses /\ reuses' = reuses + 1
  /\ reused' = reused \cup {d}
  /\ UNCHANGED <<pc, term, files, cmd, hooks, typed, calm, cut, refused>>

-----------------------------------------------------------------------------
(* Commands.                                                               *)

Type(k) ==
  /\ cmd[k].at = "idle"
  /\ typed < MaxCommands /\ typed' = typed + 1
  /\ UNCHANGED <<files, reused, hooks, reuses, term, cut, refused>>

At(k, step) == cmd[k].at = step /\ UNCHANGED <<files, hooks, bounds, refused>>
Go(k, step, d) == cmd' = [cmd EXCEPT ![k] = [at |-> step, target |-> d]]
Done(k) == Go(k, "idle", None)
Spawned(d) == Goes(d, "unborn", "new")

\* launchBackground: "already running", or a child.
Launch(k) ==
  /\ Type(k)
  /\ calm' = (calm /\ Quiet)
  /\ IF Alive(pidFile) THEN UNCHANGED cmd ELSE Go(k, "spawn", None)
  /\ UNCHANGED pc

Spawn(k, d) ==
  /\ At(k, "spawn")
  /\ Spawned(d)
  /\ Go(k, "poll", d)
  /\ UNCHANGED <<term, reused, calm, cut>>

\* "Daemon started": something answers at the socket path.
Started(k) ==
  /\ At(k, "poll")
  /\ Reached /\ Done(k)
  /\ UNCHANGED <<pc, term, reused, calm, cut>>

\* "failed to start within 5 seconds": the child is left to itself.
NotStarted(k) ==
  /\ At(k, "poll")
  /\ Done(k)
  /\ calm' = (calm /\ ~Running(cmd[k].target))
  /\ UNCHANGED <<pc, term, reused, cut>>

\* serve --fg does not look for another daemon.
Foreground(k, d) ==
  /\ Type(k)
  /\ Spawned(d)
  /\ calm' = (calm /\ Quiet /\ \A e \in Daemons : ~Running(e))
  /\ UNCHANGED cmd

StopUnchecked(k) ==  \* mutant: without a PID file
  /\ Type(k)
  /\ calm' = (calm /\ Quiet)
  /\ Go(k, "signal", pidFile)
  /\ UNCHANGED pc

\* runServeStop: "not running", or SIGTERM and up to 5 s for it to end.
Stop(k) ==
  /\ Type(k)
  /\ calm' = (calm /\ Quiet)
  /\ IF Alive(pidFile) THEN Go(k, "signal", pidFile) ELSE UNCHANGED cmd
  /\ UNCHANGED pc

SendTerm(k) ==
  /\ At(k, "signal")
  /\ LET d == cmd[k].target
     IN IF Alive(d) THEN Sigterm(d) /\ Go(k, "wait", d)
                    ELSE Done(k) /\ UNCHANGED <<pc, term, cut, reused>>
  /\ UNCHANGED calm

\* It has ended, or the 5 s have passed.
Waited(k) ==
  /\ At(k, "wait")
  /\ Go(k, "remove", cmd[k].target)
  /\ calm' = (calm /\ ~Running(cmd[k].target))
  /\ UNCHANGED <<pc, term, cut, reused>>

\* removePID and "Daemon stopped", in either case
Stopped(k) ==
  /\ cmd[k].at = "remove" /\ Done(k)
  /\ pidFile' = None
  /\ UNCHANGED <<pc, term, pidTmp, sockFile, reused, hooks, bounds, calm, cut, refused>>

-----------------------------------------------------------------------------
(* Hooks.                                                                  *)

Steps(h, to, d) ==
  /\ hook' = [hook EXCEPT ![h] = [at |-> to, to |-> d]]
  /\ UNCHANGED <<pc, term, files, reused, cmd, bounds, calm, cut, refused>>
Works(h) == pc[hook[h].to] \in {"run", "close", "remove", "pid"}

\* notify.Send: without a daemon the notification is dropped silently.
Dial(h) ==
  /\ hook[h].at = "idle"
  /\ IF Reached THEN Steps(h, "sent", sockFile) /\ UNCHANGED missed
     ELSE /\ Steps(h, "dropped", None)
          /\ missed' = IF calm /\ \E d \in Daemons : Settled(d) THEN missed \cup {h} ELSE missed
  /\ UNCHANGED handled

\* Serve
Accept(h) ==
  /\ hook[h].at = "sent" /\ Works(h) /\ Listening(hook[h].to)
  /\ Steps(h, "accepted", hook[h].to)
  /\ UNCHANGED <<handled, missed>>

HandleAfterAnswer(h) ==  \* mutant: the answer is written first
  /\ hook[h].at = "accepted" /\ Works(h)
  /\ Steps(h, "handled", hook[h].to)
  /\ UNCHANGED <<handled, missed>>

\* handleConn, onNotification: sent to all allowed users, or of a type that
\* the configuration turns off; a failed send is only logged.
Handle(h) ==
  /\ hook[h].at = "accepted" /\ Works(h)
  /\ handled' = handled \cup {h}
  /\ Steps(h, "handled", hook[h].to)
  /\ UNCHANGED missed

Answer(h) ==
  /\ hook[h].at = "handled" /\ Works(h)
  /\ Steps(h, "ok", hook[h].to)
  /\ UNCHANGED <<handled, missed>>

\* The connection is lost, or the hook waits no longer than 5 s.
Warn(h) ==
  /\ hook[h].at \in {"sent", "accepted", "handled"}
  /\ Steps(h, "warned", None)
  /\ UNCHANGED <<handled, missed>>

-----------------------------------------------------------------------------
Process(d) ==
  \/ NewFails(d) \/ RemoveStale(d) \/ Listen(d) \/ Chmod(d) \/ HandleSignals(d)
  \/ WriteTmp(d) \/ Rename(d) \/ LoopEnds(d)
  \/ CloseListener(d) \/ RemoveSocket(d) \/ Exit(d)
  \/ Crash(d) \/ CtrlC(d) \/ Reuse(d)
Command(k) ==
  \/ Launch(k) \/ \E d \in Daemons : Spawn(k, d) \/ Foreground(k, d)
  \/ Started(k) \/ NotStarted(k)
  \/ Stop(k) \/ SendTerm(k) \/ Waited(k) \/ Stopped(k)
Notify(h) == Dial(h) \/ Accept(h) \/ Handle(h) \/ Answer(h) \/ Warn(h)

Next ==
  \/ \E d \in Daemons : Process(d)
  \/ \E k \in Shells : Command(k)
  \/ \E h \in Hooks : Notify(h)

Spec == Init /\ [][Next]_vars

-----------------------------------------------------------------------------
(* Properties.                                                             *)

CommandSteps == {"idle", "spawn", "poll", "signal", "wait", "remove"}

\* Files name daemons that were started, a command that signals or polls has
\* a daemon, and a connection has two ends.
TypeOK ==
  /\ {pidFile, pidTmp, sockFile} \subseteq {d \in Daemons : pc[d] # "unborn"} \cup {None}
  /\ \A k \in Shells :
       /\ cmd[k].at \in CommandSteps
       /\ cmd[k].at \in {"poll", "signal", "wait", "remove"} => cmd[k].target \in Daemons
  /\ \A h \in Hooks : hook[h].at \in {"sent", "accepted", "handled"} => hook[h].to \in Daemons
  /\ reused \subseteq {d \in Daemons : pc[d] = "gone"}
  /\ handled \subseteq Hooks /\ missed \subseteq Hooks

\* Where commands come one at a time and none gives up, the PID file and the
\* socket lead to the one daemon there is, and what crashes left behind
\* never keeps the next one from starting (NewSocketServer, writePID).
Found ==
  calm => /\ ~refused
          /\ \A d \in Daemons : Settled(d) => /\ pidFile = d /\ sockFile = d
                                              /\ \A e \in Daemons \ {d} : ~Running(e)

\* Whatever daemons and commands did to each other's files, the last daemon
\* leaves neither, unless one died without its cleanup.
CleanExit ==
  cut = {} /\ (\A d \in Daemons : ~Running(d)) => pidFile = None /\ sockFile = None

FilesTellTheTruth == Found /\ CleanExit

\* A hook that was answered OK has had its notification passed to
\* onNotification, over crashes, takeovers and limits that pass; and where
\* commands come one at a time and none gives up, no hook finds the socket
\* dead beside a running daemon (notify.Send, handleConn).  notify.Send
\* reports success to a hook that finds no daemon as well: of that hook
\* only the second part speaks.
NoSilentLoss ==
  /\ \A h \in Hooks : hook[h].at = "ok" => h \in handled
  /\ missed = {}
=============================================================================
