---------------------------- MODULE DaemonProofs ----------------------------
(***************************************************************************)
(* Proofs about Daemon for every set of daemons, shells and hooks.         *)
(***************************************************************************)
EXTENDS Daemon, TLAPS

Steps1 == {"unborn", "new", "listen", "chmod", "ready", "tmp", "rename", "run",
           "close", "remove", "pid", "gone"}

Shapes ==
  /\ pc \in [Daemons -> Steps1]
  /\ cmd \in [Shells -> [at : CommandSteps, target : Daemons \cup {None}]]
  /\ hook \in [Hooks -> [at : {"idle", "sent", "accepted", "handled", "ok", "warned",
                               "dropped"},
                         to : Daemons \cup {None}]]
  /\ calm \in BOOLEAN /\ refused \in BOOLEAN

\* What a daemon that runs alone finds at the paths.
OwnFiles(d) ==
  /\ pc[d] = "listen" => sockFile = None
  /\ Listening(d) => sockFile = d
  /\ pc[d] = "rename" => pidTmp = d
  /\ pc[d] = "run" => pidFile = d

\* While commands come one at a time and none gives up, one daemon runs at
\* most, and a command in progress is about that one.
OneAtATime ==
  /\ \A d, e \in Daemons : Running(d) /\ Running(e) => d = e
  /\ \A k, l \in Shells : cmd[k].at # "idle" /\ cmd[l].at # "idle" => k = l
  /\ \A k \in Shells, d \in Daemons :
       Running(d) => /\ cmd[k].at \notin {"spawn", "remove"}
                     /\ cmd[k].at # "idle" => cmd[k].target = d

CalmInv == calm => ~refused /\ OneAtATime /\ \A d \in Daemons : OwnFiles(d)

\* A file that is there has a daemon that will remove it, or one was cut off.
Removers ==
  cut = {} => /\ pidFile # None => \E d \in Daemons : pc[d] \in {"run", "close", "remove", "pid"}
              /\ sockFile # None => \E d \in Daemons : Listening(d)

Handling == \A h \in Hooks : hook[h].at \in {"handled", "ok"} => h \in handled

IInv == TypeOK /\ Shapes /\ CalmInv /\ Removers /\ Handling /\ missed = {}

-----------------------------------------------------------------------------
LEMMA InitIInv == Init => IInv
<1> SUFFICES ASSUME Init
             PROVE  IInv
  OBVIOUS
<1>1. TypeOK
  BY DEF Init, TypeOK, CommandSteps
<1>2. Shapes
  BY DEF Init, Shapes, Steps1, CommandSteps
<1>3. CalmInv
  BY DEF Init, CalmInv, OneAtATime, OwnFiles, Running, Ended, Listening
<1>4. Removers /\ Handling /\ missed = {}
  BY DEF Init, Removers, Handling
<1> QED
  BY <1>1, <1>2, <1>3, <1>4 DEF IInv

Named(f) == f = None \/ (f \in Daemons /\ pc[f] # "unborn")

LEMMA TypeParts ==
  ASSUME Shapes
  PROVE  TypeOK <=> /\ Named(pidFile) /\ Named(pidTmp) /\ Named(sockFile)
                    /\ \A k \in Shells :
                         cmd[k].at \in {"poll", "signal", "wait", "remove"}
                           => cmd[k].target \in Daemons
                    /\ \A h \in Hooks :
                         hook[h].at \in {"sent", "accepted", "handled"}
                           => hook[h].to \in Daemons
                    /\ \A d \in reused : d \in Daemons /\ pc[d] = "gone"
                    /\ handled \subseteq Hooks /\ missed \subseteq Hooks
BY DEF Shapes, TypeOK, Named

-----------------------------------------------------------------------------
(* A daemon.                                                               *)

\* A daemon works for itself: while it runs alone, only its own view of the
\* files is at stake.
LEMMA ProcessIInv ==
  ASSUME IInv, NEW d \in Daemons, NEW t \in Steps1, t # "unborn",
         Running(d), pc' = [pc EXCEPT ![d] = t], UNCHANGED <<cmd, hooks, calm>>,
         {pidFile', pidTmp', sockFile'} \subseteq {pidFile, pidTmp, sockFile, d, None},
         reused' \subseteq reused,
         refused' \in BOOLEAN, calm => ~refused', calm => OwnFiles(d)', Removers'
  PROVE  IInv'
<1>1. /\ pc' \in [Daemons -> Steps1] /\ pc'[d] = t /\ pc[d] \notin Ended
      /\ \A e \in Daemons : e # d => pc'[e] = pc[e]
      /\ \A e \in Daemons : Running(e)' => Running(e)
  BY DEF IInv, Shapes, Running
<1>2. Shapes'
  BY <1>1 DEF IInv, Shapes, hooks
<1>3. \A f \in {pidFile, pidTmp, sockFile, d, None} : Named(f)'
  BY <1>1, TypeParts DEF IInv, Named, Ended
<1>4. TypeOK'
  <2>1. Named(pidFile)' /\ Named(pidTmp)' /\ Named(sockFile)'
    BY <1>1, <1>3, TypeParts DEF Named, IInv
  <2>2. \A e \in reused' : e \in Daemons /\ pc'[e] = "gone"
    BY <1>1, TypeParts DEF IInv, Ended
  <2>3. UNCHANGED <<cmd, hook, handled, missed>>
    BY DEF hooks
  <2> QED
    BY <2>1, <2>2, <2>3, TypeParts DEF IInv, TypeOK, Named
<1>5. CalmInv'
  <2> SUFFICES ASSUME calm
               PROVE  /\ ~refused' /\ OneAtATime'
                      /\ \A e \in Daemons : OwnFiles(e)'
    BY DEF CalmInv
  <2>1. OneAtATime'
    BY <1>1 DEF IInv, CalmInv, OneAtATime
  <2>2. ASSUME NEW e \in Daemons, e # d
        PROVE  OwnFiles(e)'
    BY <1>1, <2>2 DEF IInv, CalmInv, OneAtATime, OwnFiles, Listening, Running, Ended
  <2> QED
    BY <2>1, <2>2
<1>6. Handling' /\ missed' = {}
  BY DEF IInv, Handling, hooks
<1> QED
  BY <1>2, <1>4, <1>5, <1>6 DEF IInv

\* Removers holds after a step that keeps the files' removers, or removes
\* the files.
LEMMA KeepsRemovers ==
  ASSUME IInv, NEW d \in Daemons, NEW t \in Steps1, pc' = [pc EXCEPT ![d] = t],
         cut \subseteq cut',
         \/ cut' # {}
         \/ /\ pidFile' = None \/ (pidFile' = pidFile /\
                  (pc[d] \in {"run", "close", "remove", "pid"}
                     => t \in {"run", "close", "remove", "pid"}))
            /\ sockFile' = None \/ (sockFile' = sockFile /\
                  (Listening(d) => t \in {"chmod", "ready", "tmp", "rename", "run", "close"}))
  PROVE  Removers'
<1> SUFFICES ASSUME cut' = {}
             PROVE  Removers'
  BY DEF Removers
<1>1. /\ pc'[d] = t
      /\ \A e \in Daemons : e # d => pc'[e] = pc[e]
      /\ cut = {}
  BY DEF IInv, Shapes
<1>2. pidFile' # None => \E e \in Daemons : pc'[e] \in {"run", "close", "remove", "pid"}
  BY <1>1 DEF IInv, Removers
<1>3. sockFile' # None => \E e \in Daemons : Listening(e)'
  BY <1>1 DEF IInv, Removers, Listening
<1> QED
  BY <1>2, <1>3 DEF Removers

LEMMA StartIInv ==
  ASSUME IInv, NEW d \in Daemons,
         \/ NewFails(d) \/ RemoveStale(d) \/ Listen(d) \/ Chmod(d) \/ HandleSignals(d)
  PROVE  IInv'
<1> USE DEF Goes, OnlyFiles, hooks, files, Running, Ended, Steps1
<1>0. /\ refused \in BOOLEAN /\ (calm => ~refused /\ OwnFiles(d))
      /\ pc \in [Daemons -> Steps1]
  BY DEF IInv, Shapes, CalmInv
<1>1. CASE NewFails(d)
  <2>1. Removers'
    BY <1>1, KeepsRemovers DEF NewFails, Listening
  <2> QED
    BY <1>0, <1>1, <2>1, ProcessIInv DEF NewFails, OwnFiles, Listening
<1>2. CASE RemoveStale(d)
  <2>1. Removers'
    BY <1>2, KeepsRemovers DEF RemoveStale, Listening
  <2> QED
    BY <1>0, <1>2, <2>1, ProcessIInv DEF RemoveStale, OwnFiles, Listening
<1>3. CASE Listen(d) /\ sockFile = None
  <2>1. /\ pc[d] = "listen" /\ pc' = [pc EXCEPT ![d] = "chmod"] /\ sockFile' = d
        /\ UNCHANGED <<pidFile, pidTmp, refused, term, reused, cmd, hook, handled, missed,
                       calm, cut>>
    BY <1>3 DEF Listen
  <2>2. Removers'
    BY <1>0, <2>1 DEF IInv, Removers, Listening
  <2> QED
    BY <1>0, <2>1, <2>2, ProcessIInv DEF OwnFiles, Listening
<1>4. CASE Listen(d) /\ sockFile # None
  <2>1. /\ pc[d] = "listen" /\ pc' = [pc EXCEPT ![d] = "gone"] /\ refused' = TRUE
        /\ UNCHANGED <<sockFile, pidFile, pidTmp, term, reused, cmd, hook, handled, missed,
                       calm, cut>>
    BY <1>4 DEF Listen
  <2>2. Removers'
    BY <2>1, KeepsRemovers DEF Listening
  <2>3. ~calm
    BY <1>0, <1>4, <2>1 DEF OwnFiles
  <2> QED
    BY <2>1, <2>2, <2>3, ProcessIInv
<1>5. CASE Chmod(d) /\ sockFile # None
  <2>1. /\ pc[d] = "chmod" /\ pc' = [pc EXCEPT ![d] = "ready"] /\ UNCHANGED refused
        /\ UNCHANGED <<sockFile, pidFile, pidTmp, term, reused, cmd, hook, handled, missed,
                       calm, cut>>
    BY <1>5 DEF Chmod
  <2>2. Removers'
    BY <2>1, KeepsRemovers DEF Listening
  <2> QED
    BY <1>0, <2>1, <2>2, ProcessIInv DEF OwnFiles, Listening
<1>6. CASE Chmod(d) /\ sockFile = None
  <2>1. /\ pc[d] = "chmod" /\ pc' = [pc EXCEPT ![d] = "gone"] /\ refused' = TRUE
        /\ UNCHANGED <<sockFile, pidFile, pidTmp, term, reused, cmd, hook, handled, missed,
                       calm, cut>>
    BY <1>6 DEF Chmod
  <2>2. Removers'
    BY <1>6, <2>1, KeepsRemovers DEF Listening
  <2>3. ~calm
    BY <1>0, <1>6, <2>1, NoneIsNoDaemon DEF OwnFiles, Listening
  <2> QED
    BY <2>1, <2>2, <2>3, ProcessIInv
<1>7. CASE HandleSignals(d)
  <2>1. Removers'
    BY <1>7, KeepsRemovers DEF HandleSignals, Listening
  <2> QED
    BY <1>0, <1>7, <2>1, ProcessIInv DEF HandleSignals, OwnFiles, Listening
<1> QED
  BY <1>1, <1>2, <1>3, <1>4, <1>5, <1>6, <1>7

LEMMA RunIInv ==
  ASSUME IInv, NEW d \in Daemons,
         \/ WriteTmp(d) \/ Rename(d) \/ LoopEnds(d)
         \/ CloseListener(d) \/ RemoveSocket(d) \/ Exit(d)
  PROVE  IInv'
<1> USE DEF Goes, OnlyFiles, hooks, files, Running, Ended, Steps1
<1>0. /\ refused \in BOOLEAN /\ (calm => ~refused /\ OwnFiles(d))
      /\ pc \in [Daemons -> Steps1]
  BY DEF IInv, Shapes, CalmInv
<1>1. CASE WriteTmp(d)
  <2>1. Removers'
    BY <1>1, KeepsRemovers DEF WriteTmp, Listening
  <2> QED
    BY <1>0, <1>1, <2>1, ProcessIInv DEF WriteTmp, OwnFiles, Listening
<1>2. CASE Rename(d)
  <2>1. /\ pc[d] = "rename" /\ pc' = [pc EXCEPT ![d] = "run"]
        /\ pidFile' = (IF pidTmp # None THEN pidTmp ELSE pidFile) /\ pidTmp' = None
        /\ UNCHANGED <<sockFile, refused, term, reused, cmd, hook, handled, missed, calm, cut>>
    BY <1>2 DEF Rename
  <2>2. Removers'
    BY <1>0, <2>1 DEF IInv, Removers, Listening
  <2>3. calm => OwnFiles(d)'
    BY <1>0, <2>1, NoneIsNoDaemon DEF OwnFiles, Listening
  <2>4. {pidFile', pidTmp', sockFile'} \subseteq {pidFile, pidTmp, sockFile, d, None}
    BY <2>1
  <2> QED
    BY <1>0, <2>1, <2>2, <2>3, <2>4, ProcessIInv
<1>3. CASE LoopEnds(d)
  <2>1. Removers'
    BY <1>3, KeepsRemovers DEF LoopEnds, Listening
  <2> QED
    BY <1>0, <1>3, <2>1, ProcessIInv DEF LoopEnds, OwnFiles, Listening
<1>4. CASE CloseListener(d)
  <2>1. Removers'
    BY <1>4, KeepsRemovers DEF CloseListener, Listening
  <2> QED
    BY <1>0, <1>4, <2>1, ProcessIInv DEF CloseListener, OwnFiles, Listening
<1>5. CASE RemoveSocket(d)
  <2>1. Removers'
    BY <1>5, KeepsRemovers DEF RemoveSocket, Listening
  <2> QED
    BY <1>0, <1>5, <2>1, ProcessIInv DEF RemoveSocket, OwnFiles, Listening
<1>6. CASE Exit(d)
  <2>1. Removers'
    BY <1>6, KeepsRemovers DEF Exit, Listening
  <2> QED
    BY <1>0, <1>6, <2>1, ProcessIInv DEF Exit, OwnFiles, Listening
<1> QED
  BY <1>1, <1>2, <1>3, <1>4, <1>5, <1>6

-----------------------------------------------------------------------------
(* Deaths, signals and commands.                                           *)

\* A step in which daemons at most die, and the files stay.
Dying ==
  /\ pc' \in [Daemons -> Steps1]
  /\ \A e \in Daemons : pc'[e] = pc[e] \/ (pc'[e] = "gone" /\ Running(e))
  /\ cut \subseteq cut' /\ (pc' # pc => cut' # {})
  /\ reused' \subseteq reused
  /\ UNCHANGED <<files, refused, hooks>>

LEMMA SignalIsDying ==
  ASSUME IInv, NEW d \in Daemons, Sigterm(d) \/ (Running(d) /\ Die(d) /\ reused' = reused),
         UNCHANGED <<files, refused, hooks>>
  PROVE  Dying
<1>1. pc \in [Daemons -> Steps1]
  BY DEF IInv, Shapes
<1>2. CASE Running(d) /\ Die(d) /\ reused' = reused
  BY <1>1, <1>2 DEF Die, Dying, Steps1
<1>3. CASE UNCHANGED <<pc, cut>> /\ reused' \subseteq reused
  BY <1>1, <1>3 DEF Dying
<1>4. pc[d] \in Unnotified => Running(d)
  BY DEF Unnotified, Starting, Running, Ended
<1> QED
  BY <1>2, <1>3, <1>4 DEF Sigterm

\* What is left to show of a command: the steps of the commands themselves.
LEMMA DyingIInv ==
  ASSUME IInv, Dying, cmd' \in [Shells -> [at : CommandSteps, target : Daemons \cup {None}]],
         \A k \in Shells : cmd'[k].at \in {"poll", "signal", "wait", "remove"}
                             => cmd'[k].target \in Daemons,
         calm' \in BOOLEAN, calm' => calm /\ OneAtATime'
  PROVE  IInv'
<1>1. /\ pc \in [Daemons -> Steps1]
      /\ UNCHANGED <<pidFile, pidTmp, sockFile, refused, hook, handled, missed>>
      /\ \A e \in Daemons : pc'[e] # "unborn" <=> pc[e] # "unborn"
      /\ \A e \in Daemons : pc[e] = "gone" => pc'[e] = "gone"
  BY DEF IInv, Shapes, Dying, files, hooks, Running, Ended
<1>2. Shapes'
  BY <1>1 DEF IInv, Shapes, Dying
<1>3. TypeOK'
  <2>1. Named(pidFile)' /\ Named(pidTmp)' /\ Named(sockFile)'
    BY <1>1, TypeParts DEF IInv, Named
  <2>2. \A d \in reused' : d \in Daemons /\ pc'[d] = "gone"
    BY <1>1, TypeParts DEF IInv, Dying
  <2> QED
    BY <1>1, <2>1, <2>2, TypeParts DEF IInv, TypeOK, Named
<1>4. CalmInv'
  <2>1. ASSUME NEW d \in Daemons, OwnFiles(d)
        PROVE  OwnFiles(d)'
    BY <1>1, <2>1 DEF Dying, OwnFiles, Listening
  <2> QED
    BY <1>1, <2>1 DEF IInv, CalmInv
<1>5. Removers'
  <2>1. CASE pc' = pc
    BY <1>1, <2>1 DEF IInv, Removers, Listening, Dying
  <2>2. CASE pc' # pc
    BY <2>2 DEF Dying, Removers
  <2> QED
    BY <2>1, <2>2
<1>6. Handling' /\ missed' = {}
  BY <1>1 DEF IInv, Handling
<1> QED
  BY <1>2, <1>3, <1>4, <1>5, <1>6 DEF IInv

LEMMA DyingOneAtATime ==
  ASSUME Dying, OneAtATime, cmd' = cmd
  PROVE  OneAtATime'
<1>1. \A e \in Daemons : Running(e)' => Running(e)
  BY DEF Dying, Running, Ended
<1> QED
  BY <1>1 DEF OneAtATime

LEMMA DeathIInv ==
  ASSUME IInv, NEW d \in Daemons, Crash(d) \/ CtrlC(d) \/ Reuse(d)
  PROVE  IInv'
<1>1. CASE Crash(d) \/ CtrlC(d)
  <2>1. Dying /\ UNCHANGED <<cmd, calm>>
    BY <1>1, SignalIsDying DEF Crash, CtrlC
  <2>2. calm' => calm /\ OneAtATime'
    BY <2>1, DyingOneAtATime DEF IInv, CalmInv
  <2>3. /\ cmd \in [Shells -> [at : CommandSteps, target : Daemons \cup {None}]]
        /\ \A k \in Shells : cmd[k].at \in {"poll", "signal", "wait", "remove"}
                               => cmd[k].target \in Daemons
        /\ calm \in BOOLEAN
    BY TypeParts DEF IInv, Shapes
  <2> QED
    BY <2>1, <2>2, <2>3, DyingIInv
<1>2. CASE Reuse(d)
  <2>1. /\ reused' = reused \cup {d} /\ pc[d] = "gone"
        /\ UNCHANGED <<pc, pidFile, pidTmp, sockFile, cmd, hook, handled, missed,
                       calm, cut, refused>>
    BY <1>2 DEF Reuse, files, hooks
  <2>2. Shapes' /\ CalmInv' /\ Removers' /\ Handling' /\ missed' = {}
    BY <2>1 DEF IInv, Shapes, CalmInv, OneAtATime, OwnFiles, Running, Listening, Removers,
       Handling
  <2>3. TypeOK'
    BY <2>1 DEF IInv, TypeOK
  <2> QED
    BY <2>2, <2>3 DEF IInv
<1> QED
  BY <1>1, <1>2

LEMMA GoFacts ==
  ASSUME Shapes, NEW k \in Shells, NEW s \in CommandSteps, NEW d \in Daemons \cup {None},
         Go(k, s, d)
  PROVE  /\ cmd' \in [Shells -> [at : CommandSteps, target : Daemons \cup {None}]]
         /\ cmd'[k].at = s /\ cmd'[k].target = d
         /\ \A l \in Shells : l # k => cmd'[l] = cmd[l]
BY DEF Shapes, Go

\* Where all is quiet, the PID file leads to the daemon, if there is one.
LEMMA QuietFacts ==
  ASSUME IInv, calm, Quiet
  PROVE  /\ \A k \in Shells : cmd[k].at = "idle"
         /\ \A d \in Daemons : Running(d) => pidFile = d /\ Alive(pidFile)
BY NoneIsNoDaemon DEF IInv, CalmInv, OwnFiles, Quiet, Settled, Alive

LEMMA TypeCommandIInv ==
  ASSUME IInv, NEW k \in Shells, Launch(k) \/ Stop(k)
  PROVE  IInv'
<1>1. /\ UNCHANGED <<pc, files, reused, hooks, cut, refused>>
      /\ cmd[k].at = "idle"
      /\ calm' = (calm /\ Quiet)
      /\ \/ cmd' = cmd
         \/ ~Alive(pidFile) /\ Go(k, "spawn", None)
         \/ Alive(pidFile) /\ Go(k, "signal", pidFile)
  BY DEF Launch, Stop, Type
<1>2. Shapes /\ TypeOK /\ pc \in [Daemons -> Steps1]
  BY DEF IInv, Shapes
<1>3. Dying
  BY <1>1, <1>2 DEF Dying
<1>4. calm' \in BOOLEAN
  BY <1>1, <1>2 DEF Shapes
<1>5. CASE cmd' = cmd
  <2>1. calm' => calm /\ OneAtATime'
    BY <1>1, <1>3, <1>5, DyingOneAtATime DEF IInv, CalmInv
  <2> QED
    BY <1>2, <1>3, <1>4, <1>5, <2>1, TypeParts, DyingIInv DEF Shapes
<1>6. CASE ~Alive(pidFile) /\ Go(k, "spawn", None)
  <2>1. /\ cmd' \in [Shells -> [at : CommandSteps, target : Daemons \cup {None}]]
        /\ cmd'[k].at = "spawn"
        /\ \A l \in Shells : l # k => cmd'[l] = cmd[l]
    BY <1>2, <1>6, GoFacts DEF CommandSteps
  <2>2. calm' => calm /\ OneAtATime'
    <3> SUFFICES ASSUME calm'
                 PROVE  calm /\ OneAtATime'
      OBVIOUS
    <3>1. /\ \A l \in Shells : cmd[l].at = "idle"
          /\ \A d \in Daemons : Running(d) => Alive(pidFile)
      BY <1>1, QuietFacts
    <3>2. \A d \in Daemons : ~Running(d)'
      BY <1>1, <1>6, <3>1 DEF Running
    <3>3. \A l \in Shells : cmd'[l].at # "idle" => l = k
      BY <2>1, <3>1
    <3> QED
      BY <1>1, <3>2, <3>3 DEF OneAtATime
  <2> QED
    BY <1>2, <1>3, <1>4, <2>1, <2>2, TypeParts, DyingIInv
<1>7. CASE Alive(pidFile) /\ Go(k, "signal", pidFile)
  <2>1. pidFile \in Daemons
    BY <1>2, <1>7, TypeParts DEF Alive, Named
  <2>2. /\ cmd' \in [Shells -> [at : CommandSteps, target : Daemons \cup {None}]]
        /\ cmd'[k].at = "signal" /\ cmd'[k].target = pidFile
        /\ \A l \in Shells : l # k => cmd'[l] = cmd[l]
    BY <1>2, <1>7, <2>1, GoFacts DEF CommandSteps
  <2>3. calm' => calm /\ OneAtATime'
    <3> SUFFICES ASSUME calm'
                 PROVE  calm /\ OneAtATime'
      OBVIOUS
    <3>1. /\ calm /\ OneAtATime
          /\ \A l \in Shells : cmd[l].at = "idle"
          /\ \A d \in Daemons : Running(d) => pidFile = d
      BY <1>1, QuietFacts DEF IInv, CalmInv
    <3>2. \A l \in Shells : cmd'[l].at # "idle" => l = k
      BY <2>2, <3>1
    <3>3. \A d \in Daemons : Running(d)' <=> Running(d)
      BY <1>1 DEF Running
    <3>4. \A d \in Daemons, e \in Daemons : Running(d)' /\ Running(e)' => d = e
      BY <3>1, <3>3
    <3>5. \A l \in Shells, d \in Daemons :
            Running(d)' => /\ cmd'[l].at \notin {"spawn", "remove"}
                           /\ cmd'[l].at # "idle" => cmd'[l].target = d
      BY <2>2, <3>1, <3>2, <3>3
    <3> QED
      BY <3>1, <3>2, <3>4, <3>5 DEF OneAtATime
  <2> QED
    BY <1>2, <1>3, <1>4, <2>1, <2>2, <2>3, TypeParts, DyingIInv
<1> QED
  BY <1>1, <1>5, <1>6, <1>7

\* A daemon begins: the only step that makes one more run.
LEMMA BeginIInv ==
  ASSUME IInv, NEW k \in Shells, NEW d \in Daemons, Spawn(k, d) \/ Foreground(k, d)
  PROVE  IInv'
<1>1. /\ UNCHANGED <<pidFile, pidTmp, sockFile, reused, hook, handled, missed, cut, refused>>
      /\ pc[d] = "unborn" /\ pc' = [pc EXCEPT ![d] = "new"]
      /\ \/ cmd[k].at = "spawn" /\ Go(k, "poll", d) /\ calm' = calm
         \/ /\ cmd' = cmd
            /\ calm' = (calm /\ Quiet /\ \A e \in Daemons : ~Running(e))
  BY DEF Spawn, Foreground, At, Type, Spawned, Goes, files, hooks
<1>2. Shapes /\ TypeOK /\ pc \in [Daemons -> Steps1]
  BY DEF IInv, Shapes
<1>3. /\ pc' \in [Daemons -> Steps1] /\ pc'[d] = "new"
      /\ \A e \in Daemons : e # d => pc'[e] = pc[e]
  BY <1>1, <1>2 DEF Steps1
<1>4. /\ cmd' \in [Shells -> [at : CommandSteps, target : Daemons \cup {None}]]
      /\ \A l \in Shells : l # k => cmd'[l] = cmd[l]
      /\ cmd'[k] = cmd[k] \/ (cmd'[k].at = "poll" /\ cmd'[k].target = d)
  BY <1>1, <1>2, GoFacts DEF CommandSteps, Shapes
<1>5. Shapes'
  BY <1>1, <1>2, <1>3, <1>4 DEF Shapes
<1>6. TypeOK'
  <2>1. Named(pidFile)' /\ Named(pidTmp)' /\ Named(sockFile)'
    BY <1>1, <1>2, <1>3, TypeParts DEF Named
  <2>2. \A e \in reused' : e \in Daemons /\ pc'[e] = "gone"
    BY <1>1, <1>2, <1>3, TypeParts
  <2>3. \A l \in Shells : cmd'[l].at \in {"poll", "signal", "wait", "remove"}
                            => cmd'[l].target \in Daemons
    BY <1>2, <1>4, TypeParts
  <2> QED
    <3>1. {pidFile', pidTmp', sockFile'} \subseteq {e \in Daemons : pc'[e] # "unborn"}
                                                  \cup {None}
      BY <2>1 DEF Named
    <3>2. reused' \subseteq {e \in Daemons : pc'[e] = "gone"}
      BY <2>2
    <3>3. /\ \A l \in Shells : cmd'[l].at \in CommandSteps
          /\ \A h \in Hooks : hook'[h].at \in {"sent", "accepted", "handled"}
                               => hook'[h].to \in Daemons
          /\ handled' \subseteq Hooks /\ missed' \subseteq Hooks
      BY <1>1, <1>2, <1>4 DEF TypeOK
    <3> QED
      BY <2>3, <3>1, <3>2, <3>3 DEF TypeOK
<1>7. CalmInv'
  <2> SUFFICES ASSUME calm'
               PROVE  ~refused' /\ OneAtATime' /\ \A e \in Daemons : OwnFiles(e)'
    BY DEF CalmInv
  <2>1. /\ calm /\ ~refused /\ OneAtATime
        /\ \A e \in Daemons : OwnFiles(e)
    BY <1>1 DEF IInv, CalmInv
  <2>2. \A e \in Daemons : ~Running(e)
    BY <1>1, <2>1 DEF OneAtATime
  <2>3. \A e \in Daemons : Running(e)' => e = d
    BY <1>3, <2>2 DEF Running
  <2>4. \/ cmd[k].at = "spawn" /\ cmd'[k].at = "poll" /\ cmd'[k].target = d
        \/ cmd' = cmd /\ \A l \in Shells : cmd[l].at = "idle"
    BY <1>1, <1>2, GoFacts DEF CommandSteps, Quiet
  <2>5. OneAtATime'
    BY <1>4, <2>1, <2>3, <2>4 DEF OneAtATime
  <2>6. \A e \in Daemons : OwnFiles(e)'
    BY <1>1, <1>3, <2>1 DEF OwnFiles, Listening
  <2> QED
    BY <1>1, <2>1, <2>5, <2>6
<1>8. Removers'
  BY <1>1, <1>2, <1>3 DEF IInv, Removers, Listening
<1>9. Handling' /\ missed' = {}
  BY <1>1 DEF IInv, Handling
<1> QED
  BY <1>5, <1>6, <1>7, <1>8, <1>9 DEF IInv

\* A command goes on with the daemon it is about.
LEMMA CommandIInv ==
  ASSUME IInv, NEW k \in Shells,
         \/ Started(k) \/ NotStarted(k) \/ SendTerm(k) \/ Waited(k)
  PROVE  IInv'
<1> DEFINE d == cmd[k].target
<1>1. /\ cmd[k].at \in {"poll", "signal", "wait"} /\ d \in Daemons
      /\ Shapes /\ TypeOK /\ pc \in [Daemons -> Steps1]
  BY TypeParts DEF IInv, Shapes, Started, NotStarted, SendTerm, Waited, At
<1>2. /\ UNCHANGED <<files, refused, hooks>>
      /\ \/ Done(k)
         \/ Go(k, "wait", d)
         \/ Go(k, "remove", d) /\ (calm' => ~Running(d))
      /\ calm' \in BOOLEAN /\ (calm' => calm)
  <2>1. UNCHANGED <<files, refused, hooks>>
    BY DEF Started, NotStarted, SendTerm, Waited, At
  <2>2. CASE Started(k) \/ SendTerm(k)
    BY <1>1, <2>1, <2>2 DEF Started, SendTerm, Shapes
  <2>3. CASE NotStarted(k) \/ Waited(k)
    <3>1. /\ calm' = (calm /\ ~Running(d))
          /\ Done(k) \/ Go(k, "remove", d)
      BY <2>3 DEF NotStarted, Waited
    <3> QED
      BY <1>1, <2>1, <3>1 DEF Shapes
  <2> QED
    BY <2>2, <2>3
<1>3. Dying
  <2>1. CASE SendTerm(k) /\ Alive(d)
    BY <1>1, <1>2, <2>1, SignalIsDying DEF SendTerm
  <2>2. CASE UNCHANGED <<pc, cut, reused>>
    BY <1>1, <1>2, <2>2 DEF Dying
  <2> QED
    BY <2>1, <2>2 DEF Started, NotStarted, SendTerm, Waited
<1>4. /\ cmd' \in [Shells -> [at : CommandSteps, target : Daemons \cup {None}]]
      /\ \A l \in Shells : l # k => cmd'[l] = cmd[l]
      /\ \/ cmd'[k].at = "idle"
         \/ cmd'[k].at = "wait" /\ cmd'[k].target = d
         \/ cmd'[k].at = "remove" /\ cmd'[k].target = d /\ (calm' => ~Running(d))
  BY <1>1, <1>2, GoFacts DEF CommandSteps, Done
<1>5. calm' => calm /\ OneAtATime'
  <2> SUFFICES ASSUME calm'
               PROVE  calm /\ OneAtATime'
    OBVIOUS
  <2>1. calm /\ OneAtATime
    BY <1>2 DEF IInv, CalmInv
  <2>2. \A e \in Daemons : Running(e)' => Running(e) /\ e = d
    BY <1>1, <1>3, <2>1 DEF Dying, Running, Ended, OneAtATime
  <2>3. \A l \in Shells : cmd'[l].at # "idle" => l = k
    BY <1>1, <1>4, <2>1 DEF OneAtATime
  <2>4. \A l \in Shells, e \in Daemons :
          Running(e)' => /\ cmd'[l].at \notin {"spawn", "remove"}
                         /\ cmd'[l].at # "idle" => cmd'[l].target = e
    BY <1>4, <2>2, <2>3
  <2> QED
    BY <2>1, <2>2, <2>3, <2>4 DEF OneAtATime
<1>6. \A l \in Shells : cmd'[l].at \in {"poll", "signal", "wait", "remove"}
                          => cmd'[l].target \in Daemons
  BY <1>1, <1>4, TypeParts
<1> QED
  BY <1>2, <1>3, <1>4, <1>5, <1>6, DyingIInv

LEMMA StoppedIInv ==
  ASSUME IInv, NEW k \in Shells, Stopped(k)
  PROVE  IInv'
<1>1. /\ cmd[k].at = "remove" /\ pidFile' = None
      /\ UNCHANGED <<pc, pidTmp, sockFile, reused, hook, handled, missed, calm, cut, refused>>
      /\ Shapes /\ TypeOK
  BY DEF Stopped, hooks, IInv
<1>2. /\ cmd' \in [Shells -> [at : CommandSteps, target : Daemons \cup {None}]]
      /\ \A l \in Shells : l # k => cmd'[l] = cmd[l]
      /\ cmd'[k].at = "idle"
  BY <1>1, GoFacts DEF Stopped, Done, CommandSteps
<1>3. Shapes'
  BY <1>1, <1>2 DEF Shapes
<1>4. TypeOK'
  BY <1>1, <1>2 DEF TypeOK, Shapes
<1>5. CalmInv'
  <2> SUFFICES ASSUME calm
               PROVE  ~refused' /\ OneAtATime' /\ \A e \in Daemons : OwnFiles(e)'
    BY <1>1 DEF CalmInv
  <2>1. /\ ~refused /\ OneAtATime
        /\ \A e \in Daemons : OwnFiles(e) /\ ~Running(e)
    BY <1>1 DEF IInv, CalmInv, OneAtATime
  <2> QED
    BY <1>1, <1>2, <2>1 DEF OneAtATime, OwnFiles, Running, Ended, Listening
<1>6. Removers' /\ Handling' /\ missed' = {}
  BY <1>1 DEF IInv, Removers, Listening, Handling
<1> QED
  BY <1>3, <1>4, <1>5, <1>6 DEF IInv

-----------------------------------------------------------------------------
(* Hooks.                                                                  *)

LEMMA HookIInv ==
  ASSUME IInv, NEW h \in Hooks, Notify(h)
  PROVE  IInv'
<1>1. /\ UNCHANGED <<pc, pidFile, pidTmp, sockFile, reused, cmd, calm, cut, refused>>
      /\ \E t \in {"sent", "accepted", "handled", "ok", "warned", "dropped"},
            d \in Daemons \cup {None} :
           /\ hook' = [hook EXCEPT ![h] = [at |-> t, to |-> d]]
           /\ t \in {"sent", "accepted", "handled"} => d \in Daemons
           /\ t \in {"handled", "ok"} => h \in handled'
           /\ handled' \in {handled, handled \cup {h}}
  <2>1. CASE Dial(h)
    <3>1. Reached => sockFile \in Daemons
      BY TypeParts DEF IInv, Reached, Named
    <3> QED
      BY <2>1, <3>1 DEF Dial, Steps, files
  <2>2. hook[h].at \in {"sent", "accepted", "handled"} => hook[h].to \in Daemons
    BY DEF IInv, TypeOK
  <2>3. hook[h].at = "handled" => h \in handled
    BY DEF IInv, Handling
  <2>4. CASE Accept(h) \/ Handle(h) \/ Answer(h) \/ Warn(h)
    BY <2>2, <2>3, <2>4 DEF Accept, Handle, Answer, Warn, Steps, files
  <2> QED
    BY <2>1, <2>4 DEF Notify
<1>2. PICK t \in {"sent", "accepted", "handled", "ok", "warned", "dropped"},
            d \in Daemons \cup {None} :
           /\ hook' = [hook EXCEPT ![h] = [at |-> t, to |-> d]]
           /\ t \in {"sent", "accepted", "handled"} => d \in Daemons
           /\ t \in {"handled", "ok"} => h \in handled'
           /\ handled' \in {handled, handled \cup {h}}
  BY <1>1
<1>3. /\ hook' \in [Hooks -> [at : {"idle", "sent", "accepted", "handled", "ok", "warned",
                                    "dropped"},
                              to : Daemons \cup {None}]]
      /\ hook'[h].at = t /\ hook'[h].to = d
      /\ \A g \in Hooks : g # h => hook'[g] = hook[g]
  BY <1>2 DEF IInv, Shapes
<1>4. Shapes' /\ CalmInv' /\ Removers'
  BY <1>1, <1>3 DEF IInv, Shapes, CalmInv, OneAtATime, OwnFiles, Running, Listening, Removers
<1>5. missed' = {}
  <2>1. CASE Dial(h) /\ ~Reached
    <3>1. ASSUME calm, NEW e \in Daemons, Settled(e)
          PROVE  Reached
      BY <3>1, NoneIsNoDaemon DEF IInv, CalmInv, OwnFiles, Settled, Reached, Listening
    <3> QED
      BY <2>1, <3>1 DEF Dial, IInv
  <2>2. CASE Dial(h) /\ Reached
    BY <2>2 DEF Dial, IInv
  <2>3. CASE Accept(h) \/ Handle(h) \/ Answer(h) \/ Warn(h)
    BY <2>3 DEF Accept, Handle, Answer, Warn, IInv
  <2> QED
    BY <2>1, <2>2, <2>3 DEF Notify
<1>6. TypeOK' /\ Handling'
  BY <1>1, <1>2, <1>3, <1>5 DEF IInv, TypeOK, Handling
<1> QED
  BY <1>4, <1>5, <1>6 DEF IInv

LEMMA StepIInv == IInv /\ [Next]_vars => IInv'
<1> SUFFICES ASSUME IInv, [Next]_vars
             PROVE  IInv'
  OBVIOUS
<1>1. ASSUME NEW d \in Daemons, Process(d)
      PROVE  IInv'
  BY <1>1, StartIInv, RunIInv, DeathIInv DEF Process
<1>2. ASSUME NEW k \in Shells, Command(k)
      PROVE  IInv'
  BY <1>2, TypeCommandIInv, BeginIInv, CommandIInv, StoppedIInv DEF Command
<1>3. ASSUME NEW h \in Hooks, Notify(h)
      PROVE  IInv'
  BY <1>3, HookIInv
<1>4. CASE UNCHANGED vars
  BY <1>4 DEF vars, files, hooks, IInv, TypeOK, Shapes, CalmInv, OneAtATime, OwnFiles,
     Running, Listening, Removers, Handling
<1> QED
  BY <1>1, <1>2, <1>3, <1>4 DEF Next

LEMMA Invariance == Spec => []IInv
BY InitIInv, StepIInv, PTL DEF Spec

-----------------------------------------------------------------------------
(* Files, commands and connections name daemons there were.                *)
THEOREM DaemonTypes == Spec => []TypeOK
BY Invariance, PTL DEF IInv

(* Commands one at a time leave one daemon, which the files lead to, and   *)
(* the last of any daemons cleans up.  (NewSocketServer, writePID,         *)
(* SocketServer.Close, removePID)                                          *)
THEOREM FilesAreTrue == Spec => []FilesTellTheTruth
<1>1. IInv => Found
  BY DEF IInv, CalmInv, OneAtATime, OwnFiles, Found, Settled, Listening, Running, Ended
<1>2. IInv => CleanExit
  BY DEF IInv, Removers, CleanExit, Listening, Running, Ended
<1> QED
  BY <1>1, <1>2, Invariance, PTL DEF FilesTellTheTruth

(* A hook that was answered OK has been passed to onNotification, and      *)
(* while commands come one at a time no hook is dropped beside a running   *)
(* daemon.  Not said: that a success of notify.Send means either, for it   *)
(* is also what a hook gets that finds no daemon.  (notify.Send,           *)
(* handleConn)                                                             *)
THEOREM NothingIsLost == Spec => []NoSilentLoss
<1>1. IInv => NoSilentLoss
  BY DEF IInv, Handling, NoSilentLoss
<1> QED
  BY <1>1, Invariance, PTL
=============================================================================
