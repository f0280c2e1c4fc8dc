---------------------------- MODULE Orchestrator ----------------------------
(***************************************************************************)
(* internal/machines: the orchestrator that gives every user one workspace *)
(* machine on Fly.  It sits between the bot's update loop and goroutines,  *)
(* which call it, and two things it does not control: the Fly Machines API *)
(* (every call may fail, or take effect and lose its reply) and the SQLite *)
(* table user_machines (every statement may fail).                         *)
(*                                                                         *)
(* One action is one call to the API or the store together with the code   *)
(* that runs up to the next call.  WaitForState has no action: whether it  *)
(* succeeds or times out the code carries on (a timeout is only logged),   *)
(* so it is the interleaving of Boot and Halt between two actions.         *)
(* Region, State, CreatedAt and LastUsed of a record are left out, as is   *)
(* everything in a machine's config but its mount and WORKSPACE_TOKEN.     *)
(***************************************************************************)
EXTENDS Naturals, FiniteSets

CONSTANTS Users,     \* Telegram users
          Machines,  \* ids the Fly API can hand out for machines
          Volumes,   \* ids the Fly API can hand out for volumes
          Tokens,    \* what generateToken can return
          Starters,  \* goroutines of /start, which run EnsureRunning
          Loop,      \* the bot's update loop, which runs Status and Destroy
          Admins,    \* goroutines of /update, which run UpdateAllImages
          None       \* no id

Threads == Starters \cup {Loop} \cup Admins

ASSUME ThreadsDistinct == /\ Loop \notin Starters \cup Admins
                          /\ Starters \cap Admins = {}
ASSUME NoneIsNoId == None \notin Users \cup Machines \cup Volumes \cup Tokens

VARIABLES
  starting,  \* Orchestrator.starting: users with an EnsureRunning in progress
  store,     \* user_machines, NoRecord where a user has no row
  mstate,    \* Fly: the state of each machine, "none" before it is created
  mowner,    \* Fly: metadata.user_id of each machine
  mvol,      \* Fly: the volume each machine mounts at /data
  mtok,      \* Fly: WORKSPACE_TOKEN in each machine's environment
  vstate,    \* Fly: "none", "live" or "destroyed"
  issued,    \* tokens generateToken has returned
  pc,        \* where each thread is
  who,       \* the user its operation is for
  um,        \* its copy of the record (of the machine's config for an update)
  todo       \* machines an UpdateAllImages has still to update

flyVars == <<mstate, mowner, mvol, mtok, vstate>>
vars == <<starting, store, flyVars, issued, pc, who, um, todo>>

Record   == [machine : Machines \cup {None},
             volume  : Volumes \cup {None},
             token   : Tokens \cup {None}]
NoRecord == [machine |-> None, volume |-> None, token |-> None]

MachineStates == {"none", "starting", "started", "stopping",
                  "stopped", "suspended", "destroyed"}
Asleep   == {"stopped", "suspended"}
Live(m)  == mstate[m] \notin {"none", "destroyed"}

EnsurePCs == {"lookup", "ensure", "start", "provision", "machine", "save", "touch"}
LoopPCs   == {"status", "drop", "stop", "destroy", "volume", "forget",
              "halt", "stopsave"}
UpdatePCs == {"next", "get", "upstop", "update"}

TypeOK ==
  /\ starting \subseteq Users
  /\ store \in [Users -> Record]
  /\ mstate \in [Machines -> MachineStates]
  /\ mowner \in [Machines -> Users \cup {None}]
  /\ mvol \in [Machines -> Volumes \cup {None}]
  /\ mtok \in [Machines -> Tokens \cup {None}]
  /\ vstate \in [Volumes -> {"none", "live", "destroyed"}]
  /\ issued \subseteq Tokens
  /\ pc \in [Threads -> {"idle"} \cup EnsurePCs \cup LoopPCs \cup UpdatePCs]
  /\ who \in [Threads -> Users \cup {None}]
  /\ um \in [Threads -> Record]
  /\ todo \in [Admins -> SUBSET Machines]

Init ==
  /\ starting = {}
  /\ store = [u \in Users |-> NoRecord]
  /\ mstate = [m \in Machines |-> "none"]
  /\ mowner = [m \in Machines |-> None]
  /\ mvol = [m \in Machines |-> None]
  /\ mtok = [m \in Machines |-> None]
  /\ vstate = [v \in Volumes |-> "none"]
  /\ issued = {}
  /\ pc = [t \in Threads |-> "idle"]
  /\ who = [t \in Threads |-> None]
  /\ um = [t \in Threads |-> NoRecord]
  /\ todo = [a \in Admins |-> {}]

Goto(t, label) == pc' = [pc EXCEPT ![t] = label]

(* The operation returns to its caller; the thread can take up another.    *)
Return(t) == /\ Goto(t, "idle")
             /\ who' = [who EXCEPT ![t] = None]
             /\ um' = [um EXCEPT ![t] = NoRecord]

SetMachine(m, s) == mstate' = [mstate EXCEPT ![m] = s]

-----------------------------------------------------------------------------
(* The Fly API, modelled from how client.go uses it.  Each operator is the *)
(* effect a call has when Fly carries it out.                              *)

(* POST .../stop: a started machine begins to stop; one that is already on *)
(* its way down or asleep is left alone.                                   *)
StopCall(m) ==
  /\ Live(m)
  /\ SetMachine(m, IF mstate[m] = "started" THEN "stopping" ELSE mstate[m])

(* POST .../start *)
StartCall(m) ==
  /\ Live(m)
  /\ SetMachine(m, IF mstate[m] \in Asleep THEN "starting" ELSE mstate[m])

(* DELETE .../machines/id: 412 unless the machine is down.                 *)
DestroyCall(m) ==
  /\ mstate[m] \in Asleep
  /\ SetMachine(m, "destroyed")

(* POST .../machines/id: replaces the config and restarts the machine.     *)
UpdateCall(m, config) ==
  /\ Live(m)
  /\ SetMachine(m, "starting")
  /\ mvol' = [mvol EXCEPT ![m] = config.volume]
  /\ mtok' = [mtok EXCEPT ![m] = config.token]

(* What a machine does by itself: finish starting or stopping, be put to   *)
(* sleep by auto_stop, be removed by hand in the Fly console.              *)
Boot(m)  == mstate[m] = "starting" /\ SetMachine(m, "started")
Halt(m)  == mstate[m] = "stopping" /\ SetMachine(m, "stopped")
Sleep(m) == mstate[m] = "started" /\ \E s \in Asleep : SetMachine(m, s)
RemovedByHand(m) == Live(m) /\ SetMachine(m, "destroyed")

FlyStep ==
  /\ \E m \in Machines : Boot(m) \/ Halt(m) \/ Sleep(m) \/ RemovedByHand(m)
  /\ UNCHANGED <<starting, store, mowner, mvol, mtok, vstate, issued,
                 pc, who, um, todo>>

-----------------------------------------------------------------------------
(* EnsureRunning.  A second call for the same user returns at the guard.   *)

(* Mutant: the map of users in progress is not consulted.                  *)
EnsureRunningUnguarded(t, u) ==
  /\ pc[t] = "idle"
  /\ starting' = starting \cup {u}
  /\ Goto(t, "lookup")
  /\ who' = [who EXCEPT ![t] = u]
  /\ UNCHANGED <<store, flyVars, issued, um, todo>>

EnsureRunning(t, u) ==
  /\ pc[t] = "idle"
  /\ u \notin starting
  /\ starting' = starting \cup {u}
  /\ Goto(t, "lookup")
  /\ who' = [who EXCEPT ![t] = u]
  /\ UNCHANGED <<store, flyVars, issued, um, todo>>

(* The deferred delete from `starting` runs on every way out.              *)
EnsureReturn(t) ==
  /\ starting' = starting \ {who[t]}
  /\ Return(t)

(* Mutant: an error return leaves the user marked as starting.             *)
EnsureFailsMarked(t) ==
  /\ pc[t] \in {"lookup", "ensure", "start", "provision", "machine"}
  /\ Return(t)
  /\ UNCHANGED <<starting, store, flyVars, issued, todo>>

EnsureFails(t) ==
  /\ pc[t] \in {"lookup", "ensure", "start", "provision", "machine"}
  /\ EnsureReturn(t)
  /\ UNCHANGED <<store, flyVars, issued, todo>>

(* Mutant: a failed query is taken for a user without a row.               *)
EnsureLookupLoose(t) ==
  /\ pc[t] = "lookup"
  /\ um' = [um EXCEPT ![t] = store[who[t]]]
  /\ Goto(t, "provision") \/ (store[who[t]] # NoRecord /\ Goto(t, "ensure"))
  /\ UNCHANGED <<starting, store, flyVars, issued, who, todo>>

EnsureLookup(t) ==
  /\ pc[t] = "lookup"
  /\ um' = [um EXCEPT ![t] = store[who[t]]]
  /\ Goto(t, IF store[who[t]] = NoRecord THEN "provision" ELSE "ensure")
  /\ UNCHANGED <<starting, store, flyVars, issued, who, todo>>

(* ensureStarted: a machine in a state it does not expect (starting,       *)
(* stopping) ends in EnsureFails.                                          *)
EnsureStarted(t) ==
  LET s == mstate[um[t].machine] IN
  /\ pc[t] = "ensure"
  /\ \/ s = "started"   /\ Goto(t, "touch")
     \/ s \in Asleep    /\ Goto(t, "start")
     \/ s = "destroyed" /\ Goto(t, "provision")   \* 404, or state "destroyed"
  /\ UNCHANGED <<starting, store, flyVars, issued, who, um, todo>>

(* StartMachine, with its reply or without.                                *)
EnsureStart(t) ==
  /\ pc[t] = "start"
  /\ StartCall(um[t].machine)
  /\ \/ /\ Goto(t, "touch")
        /\ UNCHANGED <<starting, who, um>>
     \/ EnsureReturn(t)
  /\ UNCHANGED <<store, mowner, mvol, mtok, vstate, issued, todo>>

(* provision: a fresh token, then CreateVolume.  Without its reply the     *)
(* call returns an error and nobody knows the volume.                      *)
Provision(t) ==
  /\ pc[t] = "provision"
  /\ \E tok \in Tokens \ issued, v \in Volumes :
       /\ vstate[v] = "none"
       /\ vstate' = [vstate EXCEPT ![v] = "live"]
       /\ issued' = issued \cup {tok}
       /\ \/ /\ um' = [um EXCEPT ![t] =
                         [machine |-> None, volume |-> v, token |-> tok]]
             /\ Goto(t, "machine")
             /\ UNCHANGED <<starting, who>>
          \/ EnsureReturn(t)
  /\ UNCHANGED <<store, mstate, mowner, mvol, mtok, todo>>

(* The second half of CreateMachine.                                       *)
CreateMachine(t) ==
  /\ pc[t] = "machine"
  /\ \E m \in Machines :
       /\ mstate[m] = "none"
       /\ SetMachine(m, "starting")
       /\ mowner' = [mowner EXCEPT ![m] = who[t]]
       /\ mvol' = [mvol EXCEPT ![m] = um[t].volume]
       /\ mtok' = [mtok EXCEPT ![m] = um[t].token]
       /\ \/ /\ um' = [um EXCEPT ![t].machine = m]
             /\ Goto(t, "save")
             /\ UNCHANGED <<starting, who>>
          \/ EnsureReturn(t)
  /\ UNCHANGED <<store, vstate, issued, todo>>

(* SaveUserMachine is an upsert of the copy the thread holds.              *)
Save(t) == store' = [store EXCEPT ![who[t]] = um[t]]

(* provision's save: a failure is logged and the operation carries on.     *)
SaveProvisioned(t) ==
  /\ pc[t] = "save"
  /\ Save(t) \/ UNCHANGED store
  /\ Goto(t, "touch")
  /\ UNCHANGED <<starting, flyVars, issued, who, um, todo>>

(* The last-used timestamp, written back with the whole record; then the   *)
(* machine id and token are returned to the caller.                        *)
Touch(t) ==
  /\ pc[t] = "touch"
  /\ Save(t) \/ UNCHANGED store
  /\ EnsureReturn(t)
  /\ UNCHANGED <<flyVars, issued, todo>>

EnsureStep(t) ==
  \/ EnsureFails(t) \/ EnsureLookup(t) \/ EnsureStarted(t) \/ EnsureStart(t)
  \/ Provision(t) \/ CreateMachine(t) \/ SaveProvisioned(t) \/ Touch(t)

-----------------------------------------------------------------------------
(* Status, Destroy and Stop look the record up and return if there is none.*)

Begin(u, label) ==
  /\ pc[Loop] = "idle"
  /\ store[u] # NoRecord
  /\ Goto(Loop, label)
  /\ who' = [who EXCEPT ![Loop] = u]
  /\ um' = [um EXCEPT ![Loop] = store[u]]
  /\ UNCHANGED <<starting, store, flyVars, issued, todo>>

Status(u)  == Begin(u, "status")
Destroy(u) == Begin(u, "stop")
Stop(u)    == Begin(u, "halt")

(* A live machine, a 5xx or a network error: the record is returned.       *)
StatusReturns ==
  /\ pc[Loop] = "status"
  /\ Return(Loop)
  /\ UNCHANGED <<starting, store, flyVars, issued, todo>>

(* "destroyed", 404, or any other 4xx, whatever the machine is doing.      *)
StatusStale ==
  /\ pc[Loop] = "status"
  /\ Goto(Loop, "drop")
  /\ UNCHANGED <<starting, store, flyVars, issued, who, um, todo>>

Delete == store' = [store EXCEPT ![who[Loop]] = NoRecord]

StatusDrop ==
  /\ pc[Loop] = "drop"
  /\ Delete \/ UNCHANGED store
  /\ Return(Loop)
  /\ UNCHANGED <<starting, flyVars, issued, todo>>

(* Stop before destroying; an error is ignored.                            *)
(* Mutant: the volume is deleted before the machine.                       *)
DestroyStopVolumeFirst ==
  /\ pc[Loop] = "stop"
  /\ StopCall(um[Loop].machine) \/ UNCHANGED mstate
  /\ Goto(Loop, "volume")
  /\ UNCHANGED <<starting, store, mowner, mvol, mtok, vstate, issued,
                 who, um, todo>>

DestroyStop ==
  /\ pc[Loop] = "stop"
  /\ StopCall(um[Loop].machine) \/ UNCHANGED mstate
  /\ Goto(Loop, "destroy")
  /\ UNCHANGED <<starting, store, mowner, mvol, mtok, vstate, issued,
                 who, um, todo>>

(* Mutant: an error that is not 404 does not end the operation.            *)
DestroyMachineAnyway ==
  /\ pc[Loop] = "destroy"
  /\ DestroyCall(um[Loop].machine) \/ UNCHANGED mstate
  /\ Goto(Loop, "volume")
  /\ UNCHANGED <<starting, store, mowner, mvol, mtok, vstate, issued,
                 who, um, todo>>

DestroyMachine ==
  /\ pc[Loop] = "destroy"
  /\ \/ /\ DestroyCall(um[Loop].machine)
        /\ \/ Goto(Loop, "volume") /\ UNCHANGED <<who, um>>
           \/ Return(Loop)                         \* the reply is lost
     \/ /\ mstate[um[Loop].machine] = "destroyed"  \* 404: already gone
        /\ Goto(Loop, "volume")
        /\ UNCHANGED <<mstate, who, um>>
     \/ Return(Loop) /\ UNCHANGED mstate           \* 412 or any other error
  /\ UNCHANGED <<starting, store, mowner, mvol, mtok, vstate, issued, todo>>

(* A volume that cannot be deleted is only logged.                         *)
DestroyVolume ==
  /\ pc[Loop] = "volume"
  /\ \/ vstate' = [vstate EXCEPT ![um[Loop].volume] = "destroyed"]
     \/ UNCHANGED vstate
  /\ Goto(Loop, "forget")
  /\ UNCHANGED <<starting, store, mstate, mowner, mvol, mtok, issued,
                 who, um, todo>>

DestroyRecord ==
  /\ pc[Loop] = "forget"
  /\ Delete \/ UNCHANGED store
  /\ Return(Loop)
  /\ UNCHANGED <<starting, flyVars, issued, todo>>

StopMachine ==
  /\ pc[Loop] = "halt"
  /\ \/ /\ StopCall(um[Loop].machine)
        /\ Goto(Loop, "stopsave")
        /\ UNCHANGED <<who, um>>
     \/ /\ StopCall(um[Loop].machine) \/ UNCHANGED mstate
        /\ Return(Loop)
  /\ UNCHANGED <<starting, store, mowner, mvol, mtok, vstate, issued, todo>>

StopSave ==
  /\ pc[Loop] = "stopsave"
  /\ Save(Loop) \/ UNCHANGED store
  /\ Return(Loop)
  /\ UNCHANGED <<starting, flyVars, issued, todo>>

LoopStep ==
  \/ StatusReturns \/ StatusStale \/ StatusDrop
  \/ DestroyStop \/ DestroyMachine \/ DestroyVolume \/ DestroyRecord
  \/ StopMachine \/ StopSave

-----------------------------------------------------------------------------
(* UpdateAllImages takes the machines the table lists and runs UpdateImage *)
(* on each; an error of one goes into the results and the loop goes on.    *)

(* Mutant: users without a machine are updated too.                        *)
UpdateAllImagesUnfiltered(a) ==
  /\ pc[a] = "idle"
  /\ todo' = [todo EXCEPT ![a] = {store[u].machine : u \in Users}]
  /\ Goto(a, "next")
  /\ UNCHANGED <<starting, store, flyVars, issued, who, um>>

UpdateAllImages(a) ==
  /\ pc[a] = "idle"
  /\ todo' = [todo EXCEPT ![a] = {store[u].machine : u \in Users} \ {None}]
  /\ Goto(a, "next")
  /\ UNCHANGED <<starting, store, flyVars, issued, who, um>>

UpdateNext(a) ==
  /\ pc[a] = "next"
  /\ \/ \E m \in todo[a] :
          /\ todo' = [todo EXCEPT ![a] = @ \ {m}]
          /\ um' = [um EXCEPT ![a].machine = m]
          /\ Goto(a, "get")
     \/ /\ todo[a] = {}
        /\ Goto(a, "idle")
        /\ UNCHANGED <<todo, um>>
  /\ UNCHANGED <<starting, store, flyVars, issued, who>>

UpdateDone(a) == /\ Goto(a, "next")
                 /\ um' = [um EXCEPT ![a] = NoRecord]

UpdateFails(a) ==
  /\ pc[a] \in {"get", "upstop", "update"}
  /\ UpdateDone(a)
  /\ UNCHANGED <<starting, store, flyVars, issued, who, todo>>

(* Mutant: the config is built anew, without the machine's environment.    *)
UpdateGetBare(a) ==
  LET m == um[a].machine IN
  /\ pc[a] = "get"
  /\ Live(m)
  /\ um' = [um EXCEPT ![a] = [machine |-> m, volume |-> mvol[m], token |-> None]]
  /\ Goto(a, IF mstate[m] = "started" THEN "upstop" ELSE "update")
  /\ UNCHANGED <<starting, store, flyVars, issued, who, todo>>

(* GetMachine: the config that will be written back is read here.          *)
UpdateGet(a) ==
  LET m == um[a].machine IN
  /\ pc[a] = "get"
  /\ Live(m)
  /\ um' = [um EXCEPT ![a] = [machine |-> m, volume |-> mvol[m], token |-> mtok[m]]]
  /\ Goto(a, IF mstate[m] = "started" THEN "upstop" ELSE "update")
  /\ UNCHANGED <<starting, store, flyVars, issued, who, todo>>

(* 409 counts as stopped.                                                  *)
UpdateStop(a) ==
  /\ pc[a] = "upstop"
  /\ StopCall(um[a].machine) \/ UNCHANGED mstate
  /\ Goto(a, "update")
  /\ UNCHANGED <<starting, store, mowner, mvol, mtok, vstate, issued,
                 who, um, todo>>

UpdateMachine(a) ==
  /\ pc[a] = "update"
  /\ UpdateCall(um[a].machine, um[a])
  /\ UpdateDone(a)
  /\ UNCHANGED <<starting, store, mowner, vstate, issued, who, todo>>

AdminStep(a) ==
  \/ UpdateNext(a) \/ UpdateFails(a) \/ UpdateGet(a)
  \/ UpdateStop(a) \/ UpdateMachine(a)

-----------------------------------------------------------------------------
(* The bot process dies and is started again: what lived in memory is gone,*)
(* the table and Fly are not.                                              *)
Crash ==
  /\ \E t \in Threads : pc[t] # "idle"
  /\ starting' = {}
  /\ pc' = [t \in Threads |-> "idle"]
  /\ who' = [t \in Threads |-> None]
  /\ um' = [t \in Threads |-> NoRecord]
  /\ todo' = [a \in Admins |-> {}]
  /\ UNCHANGED <<store, flyVars, issued>>

Call ==
  \/ \E t \in Starters, u \in Users : EnsureRunning(t, u)
  \/ \E u \in Users : Status(u) \/ Destroy(u) \/ Stop(u)
  \/ \E a \in Admins : UpdateAllImages(a)

Next ==
  \/ Call
  \/ \E t \in Starters : EnsureStep(t)
  \/ LoopStep
  \/ \E a \in Admins : AdminStep(a)
  \/ FlyStep
  \/ Crash

(* Every API call returns: the HTTP client has a 30 s timeout, so a thread *)
(* inside an operation always takes its next step.  Nothing obliges users, *)
(* Fly or a crash to act.                                                  *)
Fairness == /\ \A t \in Starters : WF_vars(EnsureStep(t))
            /\ WF_vars(LoopStep)
            /\ \A a \in Admins : WF_vars(AdminStep(a))

SafeSpec == Init /\ [][Next]_vars
Spec == SafeSpec /\ Fairness

-----------------------------------------------------------------------------
(* Properties                                                              *)

Matches(r) ==
  r.machine # None =>
    /\ mstate[r.machine] # "none"
    /\ mvol[r.machine] = r.volume
    /\ mtok[r.machine] = r.token

(* Every record, in the table or in the hands of an operation that is      *)
(* about to write it back or hand it to a user, names a machine of that    *)
(* very user, the volume it mounts and the token its server accepts, so a  *)
(* terminal link never opens somebody else's workspace or is refused by    *)
(* the right one.  (EnsureRunning, SaveUserMachine, UpdateImage)           *)
CredentialsMatch ==
  /\ \A u \in Users : /\ Matches(store[u])
                      /\ store[u].machine # None => mowner[store[u].machine] = u
  /\ \A t \in Starters \cup {Loop} :
       /\ Matches(um[t])
       /\ um[t].machine # None => mowner[um[t].machine] = who[t]

(* At most one EnsureRunning per user is past the guard, so two /start in  *)
(* a row never provision two machines.  (Orchestrator.starting)            *)
SingleFlight ==
  \A s, t \in Starters :
    /\ pc[s] # "idle"
    /\ pc[t] # "idle"
    /\ who[s] = who[t]
    => s = t

(* A volume is deleted only once every machine that mounts it is gone: a   *)
(* destroy that fails half way, or races with an update or a start, never  *)
(* takes the data from under a workspace that can still run.  (Destroy)    *)
DataOutlivesMachine ==
  \A v \in Volumes, m \in Machines :
    vstate[v] = "destroyed" /\ mvol[m] = v => mstate[m] = "destroyed"

(* The record of a machine that still exists disappears only if Status is  *)
(* told 4xx, or if a Destroy or a Stop, which take no guard, finish with a *)
(* copy of the record that has since been replaced.  In particular two     *)
(* starts never overwrite each other's record, whatever fails: that would  *)
(* leave a machine running, and billed, that nobody can find.              *)
(* (EnsureRunning's guard, provision, SaveUserMachine)                     *)
KeepsRecords ==
  \A u \in Users :
    LET m == store[u].machine IN
    m # None /\ Live(m) /\ store'[u].machine # m =>
      \/ pc[Loop] = "drop"
      \/ pc[Loop] \in {"forget", "stopsave"} /\ um[Loop].machine # m

RecordKept == [][KeepsRecords]_vars

(* An EnsureRunning always lets go of its guard, whatever fails: otherwise *)
(* the user would be told "already starting up" until the bot restarts.    *)
GuardReleased == \A u \in Users : u \in starting ~> u \notin starting

-----------------------------------------------------------------------------
(* Seen from outside, with the threads and the API calls hidden, the       *)
(* orchestrator is the registry of WorkspaceRegistry: every step is one of *)
(* the registry's steps or changes nothing there.                          *)
Registry == INSTANCE WorkspaceRegistry WITH
  record <- [u \in Users |-> store[u].machine],
  owner  <- mowner,
  mount  <- mvol,
  gone   <- {m \in Machines : mstate[m] = "destroyed"},
  erased <- {v \in Volumes : vstate[v] = "destroyed"}

ImplementsRegistry == Registry!Spec
=============================================================================
