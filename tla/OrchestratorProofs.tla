------------------------- MODULE OrchestratorProofs -------------------------
(***************************************************************************)
(* Proofs about Orchestrator for every set of users, ids and goroutines.   *)
(***************************************************************************)
EXTENDS Orchestrator, TLAPS

Gone(m) == mstate[m] = "destroyed"

(* Fly gives a machine its owner, mount and token when it is created.      *)
MachinesWhole ==
  \A m \in Machines :
    \/ mstate[m] = "none" /\ mowner[m] = None /\ mvol[m] = None /\ mtok[m] = None
    \/ mstate[m] # "none" /\ mowner[m] # None /\ mvol[m] # None /\ mtok[m] # None

(* What each thread knows at each place.                                   *)
StartersShape ==
  \A t \in Starters :
    /\ pc[t] \in {"idle"} \cup EnsurePCs
    /\ pc[t] = "idle" => um[t] = NoRecord
    /\ pc[t] # "idle" => who[t] \in starting
    /\ pc[t] \in {"ensure", "start", "save", "touch"} => um[t].machine # None
    /\ pc[t] = "machine" => /\ um[t].machine = None
                            /\ um[t].volume # None
                            /\ um[t].token # None

LoopShape ==
  /\ pc[Loop] \in {"idle"} \cup LoopPCs
  /\ pc[Loop] = "idle" => um[Loop] = NoRecord
  /\ pc[Loop] # "idle" => who[Loop] # None /\ um[Loop].machine # None
  /\ pc[Loop] \in {"volume", "forget"} => Gone(um[Loop].machine)

AdminsShape ==
  \A a \in Admins :
    /\ pc[a] \in {"idle"} \cup UpdatePCs
    /\ pc[a] \in {"upstop", "update"} =>
         um[a].machine # None /\ Matches(um[a])
    /\ pc[a] = "get" => um[a].machine # None

RowsWhole == \A u \in Users : store[u] # NoRecord => store[u].machine # None

(* Every volume is mounted by one machine at most, and the volume of an    *)
(* EnsureRunning between its two creating calls by none.                   *)
VolumesApart ==
  /\ \A m, n \in Machines : mvol[m] # None /\ mvol[m] = mvol[n] => m = n
  /\ \A m \in Machines : mvol[m] # None => vstate[mvol[m]] # "none"
  /\ \A t \in Starters : pc[t] = "machine" =>
       /\ vstate[um[t].volume] = "live"
       /\ \A m \in Machines : mvol[m] # um[t].volume
  /\ \A s, t \in Starters :
       pc[s] = "machine" /\ pc[t] = "machine" /\ um[s].volume = um[t].volume => s = t

(* A copy of a record that differs from the table names a machine that is  *)
(* gone, or the table does.                                                *)
CopiesCurrent ==
  /\ pc[Loop] # "idle" =>
       /\ store[who[Loop]] # NoRecord
       /\ um[Loop].machine = store[who[Loop]].machine \/ Gone(um[Loop].machine)
  /\ \A t \in Starters :
       LET m == store[who[t]].machine IN
       /\ pc[t] \in {"ensure", "start", "touch"} =>
            m = None \/ m = um[t].machine \/ Gone(m)
       /\ pc[t] \in {"provision", "machine", "save"} => m = None \/ Gone(m)

IInv ==
  /\ TypeOK /\ MachinesWhole /\ StartersShape /\ LoopShape /\ AdminsShape
  /\ RowsWhole /\ CredentialsMatch /\ SingleFlight
  /\ VolumesApart /\ DataOutlivesMachine /\ CopiesCurrent

-----------------------------------------------------------------------------
(* Types.  ThreadTypes is the part of TypeOK about the threads' own state. *)

Labels == {"idle"} \cup EnsurePCs \cup LoopPCs \cup UpdatePCs

ThreadTypes ==
  /\ pc \in [Threads -> Labels]
  /\ who \in [Threads -> Users \cup {None}]
  /\ um \in [Threads -> Record]

LEMMA TypeInit == Init => TypeOK
BY NoneIsNoId DEF Init, TypeOK, Record, NoRecord, MachineStates, Threads

LEMMA LabelsUsed ==
  /\ \A l \in EnsurePCs : l \in Labels
  /\ \A l \in LoopPCs : l \in Labels
  /\ \A l \in UpdatePCs : l \in Labels
  /\ "idle" \in Labels
BY DEF Labels

LEMMA NoRecordType == NoRecord \in Record
BY DEF NoRecord, Record

LEMMA TypeParts == TypeOK => ThreadTypes
BY DEF TypeOK, ThreadTypes, Labels

LEMMA GotoType ==
  ASSUME TypeOK, NEW t \in Threads, NEW l \in Labels, Goto(t, l)
  PROVE  pc' \in [Threads -> Labels]
BY TypeParts DEF ThreadTypes, Goto

LEMMA ReturnType ==
  ASSUME TypeOK, NEW t \in Threads, Return(t)
  PROVE  ThreadTypes'
<1>1. pc' \in [Threads -> Labels]
  BY GotoType, LabelsUsed DEF Return
<1>2. who' \in [Threads -> Users \cup {None}]
  BY TypeParts DEF ThreadTypes, Return
<1>3. um' \in [Threads -> Record]
  BY TypeParts, NoRecordType DEF ThreadTypes, Return
<1> QED
  BY <1>1, <1>2, <1>3 DEF ThreadTypes

LEMMA EnsureReturnType ==
  ASSUME TypeOK, NEW t \in Starters, EnsureReturn(t)
  PROVE  ThreadTypes' /\ starting' \subseteq Users
BY ReturnType DEF EnsureReturn, TypeOK, Threads

LEMMA StateType ==
  ASSUME TypeOK, NEW m \in Machines, NEW s \in MachineStates, SetMachine(m, s)
  PROVE  mstate' \in [Machines -> MachineStates]
BY DEF TypeOK, SetMachine

LEMMA SaveType ==
  ASSUME TypeOK, NEW t \in Threads, Save(t)
  PROVE  store' \in [Users -> Record]
BY DEF TypeOK, Save

LEMMA CallType == ASSUME TypeOK, Call PROVE TypeOK'
<1> USE LabelsUsed DEF TypeOK, flyVars
<1>1. ASSUME NEW t \in Starters, NEW u \in Users, EnsureRunning(t, u)
      PROVE  TypeOK'
  <2>1. pc' \in [Threads -> Labels] /\ who' \in [Threads -> Users \cup {None}]
    BY <1>1, GotoType, TypeParts DEF EnsureRunning, ThreadTypes, Threads, EnsurePCs
  <2> QED
    BY <1>1, <2>1 DEF EnsureRunning, Labels
<1>2. ASSUME NEW u \in Users, NEW l \in LoopPCs, Begin(u, l)
      PROVE  TypeOK'
  <2>1. pc' \in [Threads -> Labels] /\ who' \in [Threads -> Users \cup {None}]
    BY <1>2, GotoType, TypeParts DEF Begin, ThreadTypes, Threads
  <2>2. um' \in [Threads -> Record]
    BY <1>2 DEF Begin
  <2> QED
    BY <1>2, <2>1, <2>2 DEF Begin, Labels
<1>3. ASSUME NEW a \in Admins, UpdateAllImages(a)
      PROVE  TypeOK'
  <2>1. pc' \in [Threads -> Labels]
    BY <1>3, GotoType DEF UpdateAllImages, Threads, UpdatePCs
  <2>2. {store[u].machine : u \in Users} \ {None} \subseteq Machines
    BY DEF Record
  <2> QED
    BY <1>3, <2>1, <2>2 DEF UpdateAllImages, Labels
<1> QED
  BY <1>1, <1>2, <1>3 DEF Call, Status, Destroy, Stop, LoopPCs

LEMMA EnsureType ==
  ASSUME TypeOK, StartersShape, NEW t \in Starters, EnsureStep(t)
  PROVE  TypeOK'
<1> USE LabelsUsed, EnsureReturnType DEF flyVars
<1>0. t \in Threads
  BY DEF Threads
<1>1. CASE EnsureFails(t)
  BY <1>1 DEF EnsureFails, TypeOK, ThreadTypes, Labels
<1>2. CASE EnsureLookup(t)
  <2>1. pc' \in [Threads -> Labels]
    BY <1>0, <1>2, GotoType DEF EnsureLookup, EnsurePCs
  <2>2. um' \in [Threads -> Record]
    BY <1>0, <1>2 DEF EnsureLookup, TypeOK, StartersShape
  <2> QED
    BY <1>2, <2>1, <2>2 DEF EnsureLookup, TypeOK, Labels
<1>3. CASE EnsureStarted(t)
  <2>1. pc' \in [Threads -> Labels]
    BY <1>0, <1>3, GotoType DEF EnsureStarted, EnsurePCs
  <2> QED
    BY <1>3, <2>1 DEF EnsureStarted, TypeOK, Labels
<1>4. CASE EnsureStart(t)
  <2>1. mstate' \in [Machines -> MachineStates]
    BY <1>4 DEF EnsureStart, StartCall, SetMachine, TypeOK, MachineStates
  <2>2. ThreadTypes' /\ starting' \subseteq Users
    <3>1. CASE Goto(t, "touch") /\ UNCHANGED <<starting, who, um>>
      <4>1. pc' \in [Threads -> Labels]
        BY <1>0, <3>1, GotoType DEF EnsurePCs
      <4> QED
        BY <3>1, <4>1, TypeParts DEF ThreadTypes, TypeOK
    <3> QED
      BY <1>4, <3>1 DEF EnsureStart
  <2> QED
    BY <1>4, <2>1, <2>2 DEF EnsureStart, TypeOK, ThreadTypes, Labels
<1>5. CASE Provision(t)
  <2>1. PICK tok \in Tokens \ issued, v \in Volumes :
          /\ vstate' = [vstate EXCEPT ![v] = "live"]
          /\ issued' = issued \cup {tok}
          /\ \/ /\ um' = [um EXCEPT ![t] =
                            [machine |-> None, volume |-> v, token |-> tok]]
                /\ Goto(t, "machine")
                /\ UNCHANGED <<starting, who>>
             \/ EnsureReturn(t)
    BY <1>5 DEF Provision
  <2>2. ThreadTypes' /\ starting' \subseteq Users
    <3>1. CASE /\ um' = [um EXCEPT ![t] =
                          [machine |-> None, volume |-> v, token |-> tok]]
               /\ Goto(t, "machine")
               /\ UNCHANGED <<starting, who>>
      <4>1. pc' \in [Threads -> Labels]
        BY <1>0, <3>1, GotoType DEF EnsurePCs
      <4>2. [machine |-> None, volume |-> v, token |-> tok] \in Record
        BY DEF Record
      <4> QED
        BY <3>1, <4>1, <4>2 DEF ThreadTypes, TypeOK
    <3> QED
      BY <2>1, <3>1
  <2> QED
    BY <1>5, <2>1, <2>2 DEF Provision, TypeOK, ThreadTypes, Labels
<1>6. CASE CreateMachine(t)
  <2>1. PICK m \in Machines :
          /\ SetMachine(m, "starting")
          /\ mowner' = [mowner EXCEPT ![m] = who[t]]
          /\ mvol' = [mvol EXCEPT ![m] = um[t].volume]
          /\ mtok' = [mtok EXCEPT ![m] = um[t].token]
          /\ \/ /\ um' = [um EXCEPT ![t].machine = m]
                /\ Goto(t, "save")
                /\ UNCHANGED <<starting, who>>
             \/ EnsureReturn(t)
    BY <1>6 DEF CreateMachine
  <2>2. ThreadTypes' /\ starting' \subseteq Users
    <3>1. CASE /\ um' = [um EXCEPT ![t].machine = m]
               /\ Goto(t, "save")
               /\ UNCHANGED <<starting, who>>
      <4>1. pc' \in [Threads -> Labels]
        BY <1>0, <3>1, GotoType DEF EnsurePCs
      <4>2. um' \in [Threads -> Record]
        <5>1. um \in [Threads -> Record] /\ um[t] \in Record
          BY <1>0 DEF TypeOK
        <5>2. [um[t] EXCEPT !.machine = m] \in Record
          BY <5>1 DEF Record
        <5> QED
          BY <1>0, <3>1, <5>1, <5>2
      <4> QED
        BY <3>1, <4>1, <4>2 DEF ThreadTypes, TypeOK
    <3> QED
      BY <2>1, <3>1
  <2>3. mstate' \in [Machines -> MachineStates]
    BY <2>1, StateType DEF MachineStates
  <2>4. /\ mowner' \in [Machines -> Users \cup {None}]
        /\ mvol' \in [Machines -> Volumes \cup {None}]
        /\ mtok' \in [Machines -> Tokens \cup {None}]
    BY <1>0, <2>1 DEF TypeOK, Record
  <2> QED
    BY <1>6, <2>2, <2>3, <2>4 DEF CreateMachine, TypeOK, ThreadTypes, Labels
<1>7. CASE SaveProvisioned(t)
  <2>1. pc' \in [Threads -> Labels]
    BY <1>0, <1>7, GotoType DEF SaveProvisioned, EnsurePCs
  <2>2. store' \in [Users -> Record]
    BY <1>0, <1>7, SaveType DEF SaveProvisioned, TypeOK
  <2> QED
    BY <1>7, <2>1, <2>2 DEF SaveProvisioned, TypeOK, Labels
<1>8. CASE Touch(t)
  <2>1. store' \in [Users -> Record]
    BY <1>0, <1>8, SaveType DEF Touch, TypeOK
  <2> QED
    BY <1>8, <2>1 DEF Touch, TypeOK, ThreadTypes, Labels
<1> QED
  BY <1>1, <1>2, <1>3, <1>4, <1>5, <1>6, <1>7, <1>8 DEF EnsureStep

LEMMA LoopType == ASSUME TypeOK, LoopStep PROVE TypeOK'
<1> USE LabelsUsed, ReturnType DEF flyVars
<1>0. Loop \in Threads
  BY DEF Threads
<1>1. ASSUME UNCHANGED <<starting, store, flyVars, issued, todo>>,
             Return(Loop) \/ (UNCHANGED <<who, um>>
                              /\ \E l \in LoopPCs : Goto(Loop, l))
      PROVE  TypeOK'
  <2>1. ThreadTypes'
    BY <1>0, <1>1, GotoType, TypeParts DEF ThreadTypes
  <2> QED
    BY <1>1, <2>1 DEF TypeOK, ThreadTypes, Labels
<1>2. CASE StatusReturns \/ StatusStale
  BY <1>1, <1>2 DEF StatusReturns, StatusStale, LoopPCs
<1>3. CASE StatusDrop \/ DestroyRecord \/ StopSave
  <2>1. store' \in [Users -> Record] /\ Return(Loop)
    BY <1>0, <1>3, SaveType, NoRecordType
    DEF StatusDrop, DestroyRecord, StopSave, Delete, TypeOK
  <2>2. ThreadTypes'
    BY <1>0, <2>1
  <2> QED
    BY <1>3, <2>1, <2>2
    DEF StatusDrop, DestroyRecord, StopSave, TypeOK, ThreadTypes, Labels
<1>4. CASE DestroyStop \/ DestroyMachine \/ StopMachine
  <2>1. mstate' \in [Machines -> MachineStates]
    BY <1>4 DEF DestroyStop, DestroyMachine, StopMachine, StopCall, DestroyCall,
                SetMachine, TypeOK, MachineStates
  <2>2. Return(Loop) \/ (UNCHANGED <<who, um>> /\ \E l \in LoopPCs : Goto(Loop, l))
    BY <1>4 DEF DestroyStop, DestroyMachine, StopMachine, LoopPCs
  <2>3. ThreadTypes'
    BY <1>0, <2>2, GotoType, TypeParts DEF ThreadTypes
  <2> QED
    BY <1>4, <2>1, <2>3
    DEF DestroyStop, DestroyMachine, StopMachine, TypeOK, ThreadTypes, Labels
<1>5. CASE DestroyVolume
  <2>1. vstate' \in [Volumes -> {"none", "live", "destroyed"}]
    BY <1>5 DEF DestroyVolume, TypeOK
  <2>2. pc' \in [Threads -> Labels]
    BY <1>0, <1>5, GotoType DEF DestroyVolume, LoopPCs
  <2> QED
    BY <1>5, <2>1, <2>2 DEF DestroyVolume, TypeOK, Labels
<1> QED
  BY <1>2, <1>3, <1>4, <1>5, LoopStep DEF LoopStep

LEMMA AdminType ==
  ASSUME TypeOK, AdminsShape, NEW a \in Admins, AdminStep(a) PROVE TypeOK'
<1> USE LabelsUsed DEF flyVars
<1>0. a \in Threads
  BY DEF Threads
<1>1. CASE UpdateNext(a)
  <2>1. pc' \in [Threads -> Labels]
    BY <1>0, <1>1, GotoType DEF UpdateNext, UpdatePCs
  <2>2. todo' \in [Admins -> SUBSET Machines] /\ um' \in [Threads -> Record]
    <3>1. ASSUME NEW m \in todo[a], todo' = [todo EXCEPT ![a] = @ \ {m}],
                 um' = [um EXCEPT ![a].machine = m]
          PROVE  todo' \in [Admins -> SUBSET Machines] /\ um' \in [Threads -> Record]
      <4>1. m \in Machines /\ todo[a] \in SUBSET Machines
        BY <3>1 DEF TypeOK
      <4>2. [um[a] EXCEPT !.machine = m] \in Record
        <5>1. um[a] \in Record
          BY <1>0 DEF TypeOK
        <5> QED
          BY <4>1, <5>1 DEF Record
      <4> QED
        BY <3>1, <4>1, <4>2 DEF TypeOK
    <3> QED
      BY <1>1, <3>1 DEF UpdateNext, TypeOK
  <2> QED
    BY <1>1, <2>1, <2>2 DEF UpdateNext, TypeOK, Labels
<1>2. ASSUME UpdateDone(a), UNCHANGED who PROVE ThreadTypes'
  BY <1>0, <1>2, GotoType, TypeParts, NoRecordType
  DEF UpdateDone, ThreadTypes, UpdatePCs
<1>3. CASE UpdateFails(a)
  BY <1>2, <1>3 DEF UpdateFails, TypeOK, ThreadTypes, Labels
<1>4. CASE UpdateGet(a)
  <2>1. pc' \in [Threads -> Labels]
    BY <1>0, <1>4, GotoType DEF UpdateGet, UpdatePCs
  <2>2. um' \in [Threads -> Record]
    BY <1>0, <1>4 DEF UpdateGet, TypeOK, AdminsShape, Record
  <2> QED
    BY <1>4, <2>1, <2>2 DEF UpdateGet, TypeOK, Labels
<1>5. CASE UpdateStop(a)
  <2>1. pc' \in [Threads -> Labels]
    BY <1>0, <1>5, GotoType DEF UpdateStop, UpdatePCs
  <2>2. mstate' \in [Machines -> MachineStates]
    BY <1>5 DEF UpdateStop, StopCall, SetMachine, TypeOK, MachineStates
  <2> QED
    BY <1>5, <2>1, <2>2 DEF UpdateStop, TypeOK, Labels
<1>6. CASE UpdateMachine(a)
  <2>1. um[a] \in Record /\ UpdateCall(um[a].machine, um[a]) /\ UpdateDone(a)
    BY <1>0, <1>6 DEF UpdateMachine, TypeOK
  <2>2. um[a].volume \in Volumes \cup {None} /\ um[a].token \in Tokens \cup {None}
    BY <2>1 DEF Record
  <2>3. mstate' \in [Machines -> MachineStates]
    BY <2>1 DEF UpdateCall, SetMachine, TypeOK, MachineStates
  <2>4. /\ mvol' \in [Machines -> Volumes \cup {None}]
        /\ mtok' \in [Machines -> Tokens \cup {None}]
    BY <2>1, <2>2 DEF UpdateCall, TypeOK
  <2>5. ThreadTypes'
    BY <1>2, <1>6, <2>1 DEF UpdateMachine
  <2> QED
    BY <1>6, <2>3, <2>4, <2>5 DEF UpdateMachine, TypeOK, ThreadTypes, Labels
<1> QED
  BY <1>1, <1>3, <1>4, <1>5, <1>6, AdminStep(a) DEF AdminStep

LEMMA FlyType == ASSUME TypeOK, FlyStep PROVE TypeOK'
<1>1. mstate' \in [Machines -> MachineStates]
  BY DEF FlyStep, Boot, Halt, Sleep, RemovedByHand, Asleep, SetMachine,
         TypeOK, MachineStates
<1> QED
  BY <1>1 DEF FlyStep, TypeOK

LEMMA CrashType == ASSUME TypeOK, Crash PROVE TypeOK'
BY NoRecordType DEF Crash, TypeOK, flyVars

-----------------------------------------------------------------------------
(* A step of one thread leaves the others' state alone.                    *)

Others(t) == \A s \in Threads \ {t} :
               pc'[s] = pc[s] /\ who'[s] = who[s] /\ um'[s] = um[s]

LEMMA StarterFrame ==
  ASSUME TypeOK, NEW t \in Starters, EnsureStep(t)
  PROVE  Others(t) /\ todo' = todo /\ starting' \in {starting, starting \ {who[t]}}
<1> USE DEF TypeOK, Others, Goto, Return, EnsureReturn
<1>1. CASE EnsureFails(t) \/ EnsureLookup(t) \/ EnsureStarted(t)
  BY <1>1 DEF EnsureFails, EnsureLookup, EnsureStarted
<1>2. CASE EnsureStart(t) \/ Provision(t)
  BY <1>2 DEF EnsureStart, Provision
<1>3. CASE CreateMachine(t) \/ SaveProvisioned(t) \/ Touch(t)
  BY <1>3 DEF CreateMachine, SaveProvisioned, Touch
<1> QED
  BY <1>1, <1>2, <1>3 DEF EnsureStep

LEMMA LoopFrame ==
  ASSUME TypeOK, LoopStep
  PROVE  Others(Loop) /\ todo' = todo /\ starting' = starting
BY DEF TypeOK, Others, Goto, Return, LoopStep, StatusReturns, StatusStale,
       StatusDrop, DestroyStop, DestroyMachine, DestroyVolume, DestroyRecord,
       StopMachine, StopSave

LEMMA AdminFrame ==
  ASSUME TypeOK, NEW a \in Admins, AdminStep(a)
  PROVE  Others(a) /\ who' = who /\ starting' = starting /\ store' = store
BY DEF TypeOK, Others, Goto, UpdateDone, AdminStep, UpdateNext, UpdateFails,
       UpdateGet, UpdateStop, UpdateMachine

LEMMA CallFrame ==
  ASSUME TypeOK, Call
  PROVE  UNCHANGED <<store, flyVars, issued>>
BY DEF Call, EnsureRunning, Status, Destroy, Stop, Begin, UpdateAllImages

-----------------------------------------------------------------------------
(* Fly never brings a machine back, and a machine keeps its owner, mount   *)
(* and token.                                                              *)

Persist ==
  \A m \in Machines :
    /\ mstate[m] = "destroyed" => mstate'[m] = "destroyed"
    /\ mstate[m] # "none" => /\ mstate'[m] # "none"
                             /\ mowner'[m] = mowner[m]
                             /\ mvol'[m] = mvol[m]
                             /\ mtok'[m] = mtok[m]

LEMMA PersistStep == ASSUME IInv, [Next]_vars PROVE Persist
<1> USE DEF Persist, SetMachine, Asleep, Live, TypeOK, flyVars
<1>0. TypeOK
  BY DEF IInv
<1>1. CASE Call
  BY <1>0, <1>1, CallFrame
<1>2. ASSUME NEW t \in Starters, EnsureStep(t) PROVE Persist
  <2>1. CASE EnsureFails(t) \/ EnsureLookup(t) \/ EnsureStarted(t) \/ Provision(t)
              \/ SaveProvisioned(t) \/ Touch(t)
    BY <2>1 DEF EnsureFails, EnsureLookup, EnsureStarted, Provision,
                SaveProvisioned, Touch
  <2>2. CASE EnsureStart(t)
    BY <1>0, <2>2 DEF EnsureStart, StartCall
  <2>3. CASE CreateMachine(t)
    BY <1>0, <2>3 DEF CreateMachine
  <2> QED
    BY <1>2, <2>1, <2>2, <2>3 DEF EnsureStep
<1>3. CASE LoopStep
  BY <1>0, <1>3 DEF LoopStep, StatusReturns, StatusStale, StatusDrop, DestroyStop,
                    DestroyMachine, DestroyVolume, DestroyRecord, StopMachine,
                    StopSave, StopCall, DestroyCall
<1>4. ASSUME NEW a \in Admins, AdminStep(a) PROVE Persist
  <2>1. CASE UpdateMachine(a)
    <3>1. UpdateCall(um[a].machine, um[a])
      BY <2>1 DEF UpdateMachine
    <3>2. um[a].machine # None /\ Matches(um[a])
      BY <2>1 DEF IInv, AdminsShape, UpdateMachine
    <3> QED
      BY <1>0, <2>1, <3>1, <3>2 DEF UpdateMachine, UpdateCall, Matches
  <2>2. CASE UpdateStop(a)
    BY <1>0, <2>2 DEF UpdateStop, StopCall
  <2>3. CASE UpdateNext(a) \/ UpdateFails(a) \/ UpdateGet(a)
    BY <2>3 DEF UpdateNext, UpdateFails, UpdateGet
  <2> QED
    BY <1>4, <2>1, <2>2, <2>3 DEF AdminStep
<1>5. CASE FlyStep
  BY <1>0, <1>5 DEF FlyStep, Boot, Halt, Sleep, RemovedByHand
<1>6. CASE Crash
  BY <1>6 DEF Crash
<1>7. CASE UNCHANGED vars
  BY <1>7 DEF vars
<1> QED
  BY <1>1, <1>2, <1>3, <1>4, <1>5, <1>6, <1>7 DEF Next

-----------------------------------------------------------------------------
(* The inductive invariant, one conjunct at a time.                        *)

LEMMA MachinesWholeStep ==
  ASSUME IInv, [Next]_vars PROVE MachinesWhole'
<1> USE DEF MachinesWhole, TypeOK, SetMachine, Live, Asleep, flyVars
<1>0. TypeOK /\ MachinesWhole
  BY DEF IInv
<1>1. ASSUME UNCHANGED <<mowner, mvol, mtok>>, Persist,
             \A m \in Machines : mstate[m] = "none" => mstate'[m] = "none"
      PROVE  MachinesWhole'
  BY <1>0, <1>1 DEF Persist
<1>2. Persist
  BY PersistStep
<1>3. CASE Call
  BY <1>0, <1>3, CallFrame
<1>4. ASSUME NEW t \in Starters, EnsureStep(t) PROVE MachinesWhole'
  <2>1. CASE CreateMachine(t)
    <3>1. /\ who[t] # None
          /\ um[t].volume # None
          /\ um[t].token # None
      BY <2>1, NoneIsNoId DEF CreateMachine, IInv, StartersShape
    <3> QED
      BY <1>0, <2>1, <3>1 DEF CreateMachine
  <2>2. CASE EnsureStart(t)
    BY <1>0, <1>1, <1>2, <2>2 DEF EnsureStart, StartCall
  <2>3. CASE EnsureFails(t) \/ EnsureLookup(t) \/ EnsureStarted(t) \/ Provision(t)
              \/ SaveProvisioned(t) \/ Touch(t)
    BY <1>0, <2>3 DEF EnsureFails, EnsureLookup, EnsureStarted, Provision,
                      SaveProvisioned, Touch
  <2> QED
    BY <1>4, <2>1, <2>2, <2>3 DEF EnsureStep
<1>5. CASE LoopStep
  BY <1>0, <1>1, <1>2, <1>5
  DEF LoopStep, StatusReturns, StatusStale, StatusDrop, DestroyStop,
      DestroyMachine, DestroyVolume, DestroyRecord, StopMachine, StopSave,
      StopCall, DestroyCall
<1>6. ASSUME NEW a \in Admins, AdminStep(a) PROVE MachinesWhole'
  <2>1. \A m \in Machines : mstate[m] = "none" =>
          mstate'[m] = "none" /\ mowner'[m] = None
            /\ mvol'[m] = None /\ mtok'[m] = None
    BY <1>0, <1>6 DEF AdminStep, UpdateNext, UpdateFails, UpdateGet, UpdateStop,
                      UpdateMachine, UpdateCall, StopCall
  <2> QED
    BY <1>0, <1>2, <2>1 DEF Persist
<1>7. CASE FlyStep
  BY <1>0, <1>1, <1>2, <1>7 DEF FlyStep, Boot, Halt, Sleep, RemovedByHand
<1>8. CASE Crash \/ UNCHANGED vars
  BY <1>0, <1>8 DEF Crash, vars
<1> QED
  BY <1>3, <1>4, <1>5, <1>6, <1>7, <1>8 DEF Next

LEMMA StartersShapeStep ==
  ASSUME IInv, [Next]_vars PROVE StartersShape'
<1> USE DEF StartersShape, TypeOK
<1>0. TypeOK /\ StartersShape /\ SingleFlight
  BY DEF IInv
<1>1. ASSUME NEW t \in Threads, Others(t), t \notin Starters, starting' = starting
      PROVE  StartersShape'
  BY <1>0, <1>1 DEF Others, Threads
<1>2. CASE Call
  <2>1. ASSUME NEW t \in Starters, NEW u \in Users, EnsureRunning(t, u)
        PROVE  StartersShape'
    BY <1>0, <2>1 DEF EnsureRunning, Goto, Threads, EnsurePCs
  <2>2. CASE \E u \in Users : Status(u) \/ Destroy(u) \/ Stop(u)
    BY <1>0, <1>1, <2>2, ThreadsDistinct
    DEF Status, Destroy, Stop, Begin, Goto, Threads, Others
  <2>3. ASSUME NEW a \in Admins, UpdateAllImages(a) PROVE StartersShape'
    BY <1>0, <1>1, <2>3, ThreadsDistinct DEF UpdateAllImages, Goto, Threads, Others
  <2> QED
    BY <1>2, <2>1, <2>2, <2>3 DEF Call
<1>3. ASSUME NEW t \in Starters, EnsureStep(t) PROVE StartersShape'
  <2> USE DEF Goto, EnsureReturn, Return, EnsurePCs, Threads
  <2>1. \A s \in Starters \ {t} :
          /\ pc'[s] = pc[s] /\ um'[s] = um[s] /\ who'[s] = who[s]
          /\ pc[s] # "idle" => who[s] \in starting'
    <3>1. \A s \in Starters \ {t} : pc[s] # "idle" /\ pc[t] # "idle" => who[s] # who[t]
      BY <1>0 DEF SingleFlight
    <3>2. pc[t] # "idle"
      BY <1>3 DEF EnsureStep, EnsureFails, EnsureLookup, EnsureStarted,
                  EnsureStart, Provision, CreateMachine, SaveProvisioned, Touch
    <3> QED
      BY <1>0, <1>3, <3>1, <3>2, StarterFrame DEF Others
  <2>2. ASSUME EnsureReturn(t) PROVE StartersShape'
    BY <1>0, <2>1, <2>2
  <2>3. CASE EnsureFails(t) \/ Touch(t)
    BY <2>2, <2>3 DEF EnsureFails, Touch
  <2>4. CASE EnsureLookup(t)
    BY <1>0, <2>1, <2>4 DEF EnsureLookup, IInv, RowsWhole
  <2>5. CASE EnsureStarted(t)
    BY <1>0, <2>1, <2>5 DEF EnsureStarted
  <2>6. CASE EnsureStart(t)
    BY <1>0, <2>1, <2>2, <2>6 DEF EnsureStart
  <2>7. CASE Provision(t)
    BY <1>0, <2>1, <2>2, <2>7, NoneIsNoId DEF Provision
  <2>8. CASE CreateMachine(t)
    BY <1>0, <2>1, <2>2, <2>8, NoneIsNoId DEF CreateMachine, Record
  <2>9. CASE SaveProvisioned(t)
    BY <1>0, <2>1, <2>9 DEF SaveProvisioned
  <2> QED
    BY <1>3, <2>3, <2>4, <2>5, <2>6, <2>7, <2>8, <2>9 DEF EnsureStep
<1>4. CASE LoopStep
  BY <1>0, <1>1, <1>4, LoopFrame, ThreadsDistinct DEF Threads
<1>5. ASSUME NEW a \in Admins, AdminStep(a) PROVE StartersShape'
  BY <1>0, <1>1, <1>5, AdminFrame, ThreadsDistinct DEF Threads
<1>6. CASE Crash
  BY <1>6 DEF Crash, Threads
<1>7. CASE FlyStep \/ UNCHANGED vars
  BY <1>0, <1>7 DEF FlyStep, vars
<1> QED
  BY <1>2, <1>3, <1>4, <1>5, <1>6, <1>7 DEF Next

LEMMA SingleFlightStep ==
  ASSUME IInv, [Next]_vars PROVE SingleFlight'
<1> USE DEF SingleFlight, TypeOK
<1>0. TypeOK /\ SingleFlight /\ StartersShape
  BY DEF IInv
<1>1. ASSUME NEW t \in Starters, NEW u \in Users, EnsureRunning(t, u)
      PROVE  SingleFlight'
  BY <1>0, <1>1 DEF EnsureRunning, Goto, StartersShape, Threads
<1>2. ASSUME NEW t \in Starters, EnsureStep(t) PROVE SingleFlight'
  <2>1. pc[t] # "idle" /\ (pc'[t] = "idle" \/ who'[t] = who[t])
    BY <1>0, <1>2
    DEF EnsureStep, EnsureFails, EnsureLookup, EnsureStarted, EnsureStart, Provision,
        CreateMachine, SaveProvisioned, Touch, Goto, Return, EnsureReturn, Threads
  <2> QED
    BY <1>0, <1>2, <2>1, StarterFrame DEF Others, Threads
<1>3. CASE \E u \in Users : Status(u) \/ Destroy(u) \/ Stop(u)
  BY <1>0, <1>3, ThreadsDistinct DEF Status, Destroy, Stop, Begin, Goto, Threads
<1>4. ASSUME NEW a \in Admins, UpdateAllImages(a) PROVE SingleFlight'
  BY <1>0, <1>4, ThreadsDistinct DEF UpdateAllImages, Goto, Threads
<1>5. CASE LoopStep
  BY <1>0, <1>5, LoopFrame, ThreadsDistinct DEF Others, Threads
<1>6. ASSUME NEW a \in Admins, AdminStep(a) PROVE SingleFlight'
  BY <1>0, <1>6, AdminFrame, ThreadsDistinct DEF Others, Threads
<1>7. CASE Crash \/ FlyStep \/ UNCHANGED vars
  BY <1>0, <1>7 DEF Crash, FlyStep, vars, Threads
<1> QED
  BY <1>1, <1>2, <1>3, <1>4, <1>5, <1>6, <1>7 DEF Next, Call

LEMMA LoopShapeStep ==
  ASSUME IInv, [Next]_vars PROVE LoopShape'
<1> USE DEF LoopShape, TypeOK, Gone
<1>0. TypeOK /\ LoopShape /\ RowsWhole /\ Loop \in Threads
  BY DEF IInv, Threads
<1>1. Persist
  BY PersistStep
<1>2. ASSUME pc'[Loop] = pc[Loop], who'[Loop] = who[Loop], um'[Loop] = um[Loop]
      PROVE  LoopShape'
  BY <1>0, <1>1, <1>2 DEF Persist, Record
<1>3. CASE Call
  <2>1. ASSUME NEW u \in Users, NEW l \in {"status", "stop", "halt"}, Begin(u, l)
        PROVE  LoopShape'
    BY <1>0, <2>1, NoneIsNoId DEF Begin, Goto, RowsWhole, LoopPCs
  <2>2. ASSUME NEW t \in Starters, NEW u \in Users, EnsureRunning(t, u)
        PROVE  LoopShape'
    BY <1>0, <1>2, <2>2, ThreadsDistinct DEF EnsureRunning, Goto, Threads
  <2>3. ASSUME NEW a \in Admins, UpdateAllImages(a) PROVE LoopShape'
    BY <1>0, <1>2, <2>3, ThreadsDistinct DEF UpdateAllImages, Goto, Threads
  <2> QED
    BY <1>3, <2>1, <2>2, <2>3 DEF Call, Status, Destroy, Stop
<1>4. ASSUME NEW t \in Starters, EnsureStep(t) PROVE LoopShape'
  BY <1>0, <1>2, <1>4, StarterFrame, ThreadsDistinct DEF Others
<1>5. CASE LoopStep
  <2> USE DEF Goto, Return, LoopPCs
  <2>1. CASE StatusReturns \/ StatusDrop \/ DestroyRecord \/ StopSave
    BY <1>0, <2>1 DEF StatusReturns, StatusDrop, DestroyRecord, StopSave
  <2>2. CASE StatusStale \/ DestroyStop \/ StopMachine
    BY <1>0, <2>2 DEF StatusStale, DestroyStop, StopMachine
  <2>3. CASE DestroyMachine
    <3>1. um[Loop].machine \in Machines
      BY <1>0, <2>3 DEF DestroyMachine, Record
    <3> QED
      BY <1>0, <2>3, <3>1 DEF DestroyMachine, DestroyCall, SetMachine
  <2>4. CASE DestroyVolume
    BY <1>0, <2>4 DEF DestroyVolume
  <2> QED
    BY <1>5, <2>1, <2>2, <2>3, <2>4 DEF LoopStep
<1>6. ASSUME NEW a \in Admins, AdminStep(a) PROVE LoopShape'
  BY <1>0, <1>2, <1>6, AdminFrame, ThreadsDistinct DEF Others
<1>7. CASE Crash
  BY <1>0, <1>7 DEF Crash
<1>8. CASE FlyStep \/ UNCHANGED vars
  BY <1>2, <1>8 DEF FlyStep, vars
<1> QED
  BY <1>3, <1>4, <1>5, <1>6, <1>7, <1>8 DEF Next

LEMMA AdminsShapeStep ==
  ASSUME IInv, [Next]_vars PROVE AdminsShape'
<1> USE DEF AdminsShape, TypeOK
<1>0. TypeOK /\ AdminsShape
  BY DEF IInv
<1>1. Persist
  BY PersistStep
<1>2. \A r \in Record : Matches(r) => Matches(r)'
  BY <1>1 DEF Persist, Matches, Record
<1>3. ASSUME NEW a \in Admins, pc'[a] = pc[a], um'[a] = um[a]
      PROVE  /\ pc'[a] \in {"idle"} \cup UpdatePCs
             /\ pc'[a] \in {"upstop", "update"} =>
                  um'[a].machine # None /\ Matches(um[a])'
             /\ pc'[a] = "get" => um'[a].machine # None
  BY <1>0, <1>2, <1>3 DEF Threads, Matches
<1>4. ASSUME NEW t \in Threads, Others(t), t \notin Admins PROVE AdminsShape'
  BY <1>3, <1>4 DEF Others, Threads
<1>5. CASE Call
  <2>1. CASE \E u \in Users : Status(u) \/ Destroy(u) \/ Stop(u)
    BY <1>0, <1>4, <2>1, ThreadsDistinct
    DEF Status, Destroy, Stop, Begin, Goto, Threads, Others
  <2>2. ASSUME NEW t \in Starters, NEW u \in Users, EnsureRunning(t, u)
        PROVE  AdminsShape'
    BY <1>0, <1>4, <2>2, ThreadsDistinct DEF EnsureRunning, Goto, Threads, Others
  <2>3. ASSUME NEW a \in Admins, UpdateAllImages(a) PROVE AdminsShape'
    <3>1. pc'[a] = "next" /\ \A b \in Admins \ {a} : pc'[b] = pc[b] /\ um'[b] = um[b]
      BY <1>0, <2>3 DEF UpdateAllImages, Goto, Threads
    <3> QED
      BY <1>3, <3>1 DEF UpdatePCs
  <2> QED
    BY <1>5, <2>1, <2>2, <2>3 DEF Call
<1>6. ASSUME NEW t \in Starters, EnsureStep(t) PROVE AdminsShape'
  BY <1>0, <1>4, <1>6, StarterFrame, ThreadsDistinct DEF Threads
<1>7. CASE LoopStep
  BY <1>0, <1>4, <1>7, LoopFrame, ThreadsDistinct DEF Threads
<1>8. ASSUME NEW a \in Admins, AdminStep(a) PROVE AdminsShape'
  <2>0. a \in Threads /\ \A b \in Admins \ {a} : pc'[b] = pc[b] /\ um'[b] = um[b]
    BY <1>0, <1>8, AdminFrame DEF Others, Threads
  <2>1. ASSUME pc'[a] \in {"idle", "next"} PROVE AdminsShape'
    BY <1>3, <2>0, <2>1 DEF UpdatePCs
  <2>2. CASE UpdateFails(a) \/ UpdateMachine(a)
    BY <1>0, <2>0, <2>1, <2>2 DEF UpdateFails, UpdateMachine, UpdateDone, Goto
  <2>3. CASE UpdateNext(a)
    <3>1. CASE pc'[a] = "get" /\ um'[a].machine # None
      BY <1>3, <2>0, <3>1 DEF UpdatePCs
    <3>2. ASSUME NEW m \in todo[a], Goto(a, "get"),
                 um' = [um EXCEPT ![a].machine = m]
          PROVE  pc'[a] = "get" /\ um'[a].machine # None
      <4>1. m \in Machines
        BY <1>0
      <4>2. m # None
        BY <4>1, NoneIsNoId
      <4> QED
        BY <1>0, <2>0, <3>2, <4>2 DEF Goto, Record
    <3>3. CASE Goto(a, "idle")
      BY <1>0, <2>0, <2>1, <3>3 DEF Goto
    <3> QED
      BY <2>3, <3>1, <3>2, <3>3 DEF UpdateNext
  <2>4. CASE UpdateGet(a)
    <3>1. pc'[a] \in {"upstop", "update"} /\ um'[a].machine # None
      BY <1>0, <2>0, <2>4 DEF UpdateGet, Goto
    <3>2. Matches(um[a])'
      BY <1>0, <2>0, <2>4 DEF UpdateGet, Live, Matches, flyVars
    <3> QED
      BY <1>3, <2>0, <3>1, <3>2 DEF UpdatePCs
  <2>5. CASE UpdateStop(a)
    <3>1. pc[a] = "upstop" /\ pc'[a] = "update" /\ um'[a] = um[a]
      BY <1>0, <2>0, <2>5 DEF UpdateStop, Goto
    <3>2. um[a].machine # None /\ Matches(um[a])'
      BY <1>0, <1>2, <2>0, <3>1 DEF Matches
    <3> QED
      BY <1>3, <2>0, <3>1, <3>2 DEF UpdatePCs
  <2> QED
    BY <1>8, <2>2, <2>3, <2>4, <2>5 DEF AdminStep
<1>9. CASE Crash
  BY <1>9 DEF Crash, Threads
<1>10. CASE FlyStep \/ UNCHANGED vars
  BY <1>3, <1>10 DEF FlyStep, vars
<1> QED
  BY <1>5, <1>6, <1>7, <1>8, <1>9, <1>10 DEF Next

-----------------------------------------------------------------------------
(* The table changes in two ways only.                                     *)

Writers == {t \in Starters : pc[t] \in {"save", "touch"}}
             \cup {t \in {Loop} : pc[t] = "stopsave"}

LEMMA StoreStep ==
  ASSUME IInv, [Next]_vars
  PROVE  \/ store' = store
         \/ \E t \in Writers : Save(t)
         \/ pc[Loop] \in {"drop", "forget"} /\ Delete
<1>1. CASE Call
  BY <1>1, CallFrame DEF IInv
<1>2. ASSUME NEW t \in Starters, EnsureStep(t)
      PROVE  store' = store \/ (pc[t] \in {"save", "touch"} /\ Save(t))
  BY <1>2 DEF EnsureStep, EnsureFails, EnsureLookup, EnsureStarted, EnsureStart,
              Provision, CreateMachine, SaveProvisioned, Touch
<1>3. CASE LoopStep
  BY <1>3 DEF LoopStep, StatusReturns, StatusStale, StatusDrop, DestroyStop,
              DestroyMachine, DestroyVolume, DestroyRecord, StopMachine, StopSave,
              Writers
<1>4. ASSUME NEW a \in Admins, AdminStep(a) PROVE store' = store
  BY <1>4, AdminFrame DEF IInv
<1>5. CASE FlyStep \/ Crash \/ UNCHANGED vars
  BY <1>5 DEF FlyStep, Crash, vars
<1> QED
  BY <1>1, <1>2, <1>3, <1>4, <1>5 DEF Next, Writers

LEMMA WriterHolds ==
  ASSUME IInv, NEW t \in Writers
  PROVE  /\ t \in Threads
         /\ who[t] \in Users
         /\ um[t] \in Record
         /\ um[t].machine \in Machines
         /\ Matches(um[t])
         /\ mowner[um[t].machine] = who[t]
<1>1. t \in Starters \cup {Loop} /\ um[t].machine # None /\ t \in Threads
  BY DEF IInv, Writers, StartersShape, LoopShape, Threads
<1>2. who[t] # None
  BY NoneIsNoId DEF IInv, Writers, StartersShape, LoopShape, TypeOK
<1> QED
  BY <1>1, <1>2 DEF IInv, TypeOK, Record, CredentialsMatch

LEMMA RowsWholeStep ==
  ASSUME IInv, [Next]_vars PROVE RowsWhole'
<1>0. TypeOK /\ RowsWhole
  BY DEF IInv
<1>1. ASSUME NEW t \in Writers, Save(t) PROVE RowsWhole'
  <2>1. um[t].machine # None
    BY WriterHolds, NoneIsNoId
  <2> QED
    BY <1>0, <1>1, <2>1 DEF RowsWhole, Save, TypeOK
<1> QED
  BY <1>0, <1>1, StoreStep DEF RowsWhole, Delete, TypeOK

LEMMA CredentialsMatchStep ==
  ASSUME IInv, [Next]_vars PROVE CredentialsMatch'
<1> DEFINE Holds(u, r) == Matches(r) /\ (r.machine # None => mowner[r.machine] = u)
           Will(u, r) == r.machine # None => /\ mstate'[r.machine] # "none"
                                             /\ mvol'[r.machine] = r.volume
                                             /\ mtok'[r.machine] = r.token
                                             /\ mowner'[r.machine] = u
<1>0. TypeOK
  BY DEF IInv
<1>1. Persist
  BY PersistStep
<1>2. \A u \in Users \cup {None}, r \in Record : Holds(u, r) => Will(u, r)
  BY <1>1 DEF Persist, Matches, Record
<1>3. \A u \in Users : Will(u, store'[u])
  <2>1. \A u \in Users : Holds(u, store[u]) /\ store[u] \in Record
    BY <1>0 DEF IInv, CredentialsMatch, TypeOK
  <2>2. CASE store' = store
    BY <1>2, <2>1, <2>2
  <2>3. ASSUME NEW t \in Writers, Save(t) PROVE \A u \in Users : Will(u, store'[u])
    <3>1. Holds(who[t], um[t]) /\ um[t] \in Record /\ who[t] \in Users
      BY WriterHolds
    <3>2. \A u \in Users : store'[u] = IF u = who[t] THEN um[t] ELSE store[u]
      BY <1>0, <2>3 DEF Save, TypeOK
    <3> HIDE DEF Holds, Will
    <3> QED
      BY <1>2, <2>1, <3>1, <3>2
  <2>4. CASE Delete
    <3>1. \A u \in Users : store'[u] = NoRecord \/ store'[u] = store[u]
      BY <1>0, <2>4 DEF Delete, TypeOK
    <3>2. \A u \in Users : Will(u, NoRecord)
      BY DEF NoRecord, Matches
    <3> HIDE DEF Holds, Will
    <3> QED
      BY <1>2, <2>1, <3>1, <3>2
  <2> QED
    BY <2>2, <2>3, <2>4, StoreStep
<1>4. ASSUME NEW t \in Starters \cup {Loop} PROVE Will(who'[t], um'[t])
  <2>0. t \in Threads /\ who[t] \in Users \cup {None} /\ um[t] \in Record /\ Holds(who[t], um[t])
    BY <1>0 DEF IInv, CredentialsMatch, TypeOK, Threads
  <2>1. CASE who'[t] = who[t] /\ um'[t] = um[t]
    <3> HIDE DEF Holds, Will
    <3> QED
      BY <1>2, <2>0, <2>1
  <2>2. CASE um'[t] = NoRecord
    BY <2>2 DEF NoRecord, Matches
  <2>3. ASSUME NEW u \in Users, who'[t] = u, um'[t] = store[u]
        PROVE  Will(who'[t], um'[t])
    <3>1. Holds(u, store[u]) /\ store[u] \in Record
      BY <1>0 DEF IInv, CredentialsMatch, TypeOK
    <3> HIDE DEF Holds, Will
    <3> QED
      BY <1>2, <2>3, <3>1
  <2>4. CASE \E s \in Threads \ {t} : Others(s)
    BY <2>0, <2>1, <2>4 DEF Others
  <2>5. CASE Call
    <3>1. CASE EnsureRunning(t, who'[t])
      <4>1. pc[t] = "idle" /\ um'[t] = um[t]
        BY <3>1 DEF EnsureRunning
      <4>2. um'[t] = NoRecord
        BY <4>1 DEF IInv, StartersShape, LoopShape
      <4> QED
        BY <2>2, <4>2
    <3>2. ASSUME NEW s \in Starters, NEW u \in Users, EnsureRunning(s, u)
          PROVE  Will(who'[t], um'[t])
      <4>1. s = t => EnsureRunning(t, who'[t])
        BY <1>0, <2>0, <3>2 DEF EnsureRunning, TypeOK
      <4>2. s # t => who'[t] = who[t] /\ um'[t] = um[t]
        BY <1>0, <2>0, <3>2 DEF EnsureRunning, TypeOK
      <4> QED
        BY <2>1, <3>1, <4>1, <4>2
    <3>3. ASSUME NEW u \in Users, NEW l, Begin(u, l) PROVE Will(who'[t], um'[t])
      <4>1. \/ who'[t] = u /\ um'[t] = store[u]
            \/ who'[t] = who[t] /\ um'[t] = um[t]
        BY <1>0, <2>0, <3>3 DEF Begin, TypeOK
      <4> QED
        BY <2>1, <2>3, <4>1
    <3>4. CASE \E a \in Admins : UpdateAllImages(a)
      BY <2>1, <3>4 DEF UpdateAllImages
    <3> QED
      BY <2>5, <3>2, <3>3, <3>4 DEF Call, Status, Destroy, Stop
  <2>6. ASSUME NEW s \in Starters, EnsureStep(s), s # t PROVE Will(who'[t], um'[t])
    BY <1>0, <2>4, <2>6, StarterFrame DEF Threads
  <2>7. CASE t \in Starters /\ EnsureStep(t)
    <3> USE DEF EnsureReturn, Return, TypeOK
    <3>1. CASE EnsureFails(t) \/ Touch(t)
      BY <1>0, <2>0, <2>2, <3>1 DEF EnsureFails, Touch
    <3>2. CASE EnsureLookup(t)
      <4>1. who[t] \in Users
        BY <2>7, <3>2, NoneIsNoId DEF IInv, StartersShape, EnsureLookup
      <4> QED
        BY <1>0, <2>0, <2>3, <3>2, <4>1 DEF EnsureLookup
    <3>3. CASE EnsureStarted(t) \/ SaveProvisioned(t)
      BY <2>1, <3>3 DEF EnsureStarted, SaveProvisioned
    <3>4. CASE EnsureStart(t)
      BY <1>0, <2>0, <2>1, <2>2, <3>4 DEF EnsureStart
    <3>5. CASE Provision(t)
      <4>1. um'[t] = NoRecord \/ um'[t].machine = None
        BY <1>0, <2>0, <3>5 DEF Provision
      <4> QED
        BY <2>2, <4>1 DEF Matches
    <3>6. CASE CreateMachine(t)
      <4>1. PICK m \in Machines :
              /\ SetMachine(m, "starting")
              /\ mowner' = [mowner EXCEPT ![m] = who[t]]
              /\ mvol' = [mvol EXCEPT ![m] = um[t].volume]
              /\ mtok' = [mtok EXCEPT ![m] = um[t].token]
              /\ \/ /\ um' = [um EXCEPT ![t].machine = m]
                    /\ UNCHANGED who
                 \/ EnsureReturn(t)
        BY <3>6 DEF CreateMachine
      <4>2. CASE um' = [um EXCEPT ![t].machine = m] /\ UNCHANGED who
        BY <1>0, <2>0, <4>1, <4>2 DEF SetMachine, Matches, Record
      <4> QED
        BY <1>0, <2>0, <2>2, <4>1, <4>2
    <3> QED
      BY <2>7, <3>1, <3>2, <3>3, <3>4, <3>5, <3>6 DEF EnsureStep
  <2>8. CASE LoopStep
    <3>1. CASE t = Loop
      <4>1. \/ who'[t] = who[t] /\ um'[t] = um[t]
            \/ um'[t] = NoRecord
        BY <1>0, <2>0, <2>8, <3>1
        DEF LoopStep, StatusReturns, StatusStale, StatusDrop, DestroyStop,
            DestroyMachine, DestroyVolume, DestroyRecord, StopMachine, StopSave,
            Return, TypeOK
      <4> QED
        BY <2>1, <2>2, <4>1
    <3> QED
      BY <1>0, <2>0, <2>4, <2>8, <3>1, LoopFrame DEF Threads
  <2>9. ASSUME NEW a \in Admins, AdminStep(a) PROVE Will(who'[t], um'[t])
    BY <1>0, <2>0, <2>4, <2>9, AdminFrame, ThreadsDistinct DEF Threads
  <2>10. CASE Crash
    BY <2>0, <2>2, <2>10 DEF Crash
  <2>11. CASE FlyStep \/ UNCHANGED vars
    BY <2>1, <2>11 DEF FlyStep, vars
  <2> QED
    BY <2>5, <2>6, <2>7, <2>8, <2>9, <2>10, <2>11 DEF Next
<1> QED
  BY <1>3, <1>4 DEF CredentialsMatch, Matches

-----------------------------------------------------------------------------
(* Volumes.                                                                *)

LEMMA MountStep ==
  ASSUME IInv, [Next]_vars
  PROVE  \/ mvol' = mvol /\ vstate' = vstate
         \/ \E t \in Starters : Provision(t) \/ CreateMachine(t)
         \/ DestroyVolume
<1>1. CASE Call
  BY <1>1, CallFrame DEF IInv, flyVars
<1>2. ASSUME NEW t \in Starters, EnsureStep(t)
      PROVE  (mvol' = mvol /\ vstate' = vstate) \/ Provision(t) \/ CreateMachine(t)
  BY <1>2 DEF EnsureStep, EnsureFails, EnsureLookup, EnsureStarted, EnsureStart,
              SaveProvisioned, Touch, flyVars
<1>3. CASE LoopStep
  BY <1>3 DEF LoopStep, StatusReturns, StatusStale, StatusDrop, DestroyStop,
              DestroyMachine, DestroyRecord, StopMachine, StopSave, flyVars
<1>4. ASSUME NEW a \in Admins, AdminStep(a) PROVE mvol' = mvol /\ vstate' = vstate
  <2>1. CASE UpdateMachine(a)
    <3>1. um[a].machine # None /\ Matches(um[a])
      BY <2>1 DEF IInv, AdminsShape, UpdateMachine
    <3> QED
      BY <2>1, <3>1 DEF UpdateMachine, UpdateCall, Matches, IInv, TypeOK
  <2> QED
    BY <1>4, <2>1 DEF AdminStep, UpdateNext, UpdateFails, UpdateGet, UpdateStop, flyVars
<1>5. CASE FlyStep \/ Crash \/ UNCHANGED vars
  BY <1>5 DEF FlyStep, Crash, vars, flyVars
<1> QED
  BY <1>1, <1>2, <1>3, <1>4, <1>5 DEF Next

(* An EnsureRunning gets to its second creating call through Provision.    *)
LEMMA MachineCallStep ==
  ASSUME IInv, [Next]_vars, NEW t \in Starters, pc'[t] = "machine"
  PROVE  (pc[t] = "machine" /\ um'[t] = um[t]) \/ Provision(t)
<1> USE DEF Threads
<1>0. TypeOK
  BY DEF IInv
<1>1. CASE Call
  BY <1>0, <1>1, ThreadsDistinct
  DEF Call, EnsureRunning, Status, Destroy, Stop, Begin, UpdateAllImages, Goto, TypeOK
<1>2. CASE EnsureStep(t)
  BY <1>0, <1>2
  DEF EnsureStep, EnsureFails, EnsureLookup, EnsureStarted, EnsureStart, CreateMachine,
      SaveProvisioned, Touch, EnsureReturn, Return, Goto, TypeOK
<1>3. ASSUME NEW s \in Starters, EnsureStep(s), s # t
      PROVE  pc[t] = "machine" /\ um'[t] = um[t]
  BY <1>0, <1>3, StarterFrame DEF Others
<1>4. CASE LoopStep
  BY <1>0, <1>4, LoopFrame, ThreadsDistinct DEF Others
<1>5. ASSUME NEW a \in Admins, AdminStep(a)
      PROVE  pc[t] = "machine" /\ um'[t] = um[t]
  BY <1>0, <1>5, AdminFrame, ThreadsDistinct DEF Others
<1>6. CASE FlyStep \/ Crash \/ UNCHANGED vars
  BY <1>6 DEF FlyStep, Crash, vars
<1> QED
  BY <1>1, <1>2, <1>3, <1>4, <1>5, <1>6 DEF Next

LEMMA VolumesApartStep ==
  ASSUME IInv, [Next]_vars PROVE VolumesApart'
<1>0. TypeOK /\ VolumesApart /\ StartersShape /\ LoopShape
  BY DEF IInv
<1>1. CASE mvol' = mvol /\ vstate' = vstate
  <2>1. \A t \in Starters : pc'[t] = "machine" => pc[t] = "machine" /\ um'[t] = um[t]
    BY <1>0, <1>1, MachineCallStep DEF Provision, TypeOK
  <2> QED
    BY <1>0, <1>1, <2>1 DEF VolumesApart
<1>2. ASSUME NEW t \in Starters, Provision(t) PROVE VolumesApart'
  <2>1. PICK v \in Volumes :
          /\ vstate[v] = "none"
          /\ vstate' = [vstate EXCEPT ![v] = "live"]
          /\ pc'[t] = "machine" => um'[t].volume = v
    <3>1. PICK tok \in Tokens \ issued, v \in Volumes :
            /\ vstate[v] = "none"
            /\ vstate' = [vstate EXCEPT ![v] = "live"]
            /\ \/ um' = [um EXCEPT ![t] =
                            [machine |-> None, volume |-> v, token |-> tok]]
               \/ EnsureReturn(t)
      BY <1>2 DEF Provision
    <3>2. EnsureReturn(t) => pc'[t] # "machine"
      BY <1>0 DEF EnsureReturn, Return, Goto, TypeOK, Threads
    <3>3. um' = [um EXCEPT ![t] = [machine |-> None, volume |-> v, token |-> tok]]
            => um'[t].volume = v
      BY <1>0 DEF TypeOK, Threads
    <3> QED
      BY <3>1, <3>2, <3>3
  <2>2. \A s \in Starters \ {t} : pc'[s] = pc[s] /\ um'[s] = um[s]
    BY <1>0, <1>2 DEF Provision, EnsureReturn, Return, Goto, TypeOK, Threads
  <2>3. mvol' = mvol /\ mvol \in [Machines -> Volumes \cup {None}]
    BY <1>0, <1>2 DEF Provision, TypeOK
  <2>4. v # None
    BY NoneIsNoId
  <2>5. \A s \in Starters : pc[s] = "machine" => um[s].volume \in Volumes
    BY <1>0 DEF StartersShape, TypeOK, Record, Threads
  <2>6. vstate \in [Volumes -> {"none", "live", "destroyed"}]
    BY <1>0 DEF TypeOK
  <2> QED
    BY <1>0, <2>1, <2>2, <2>3, <2>4, <2>5, <2>6 DEF VolumesApart
<1>3. ASSUME NEW t \in Starters, CreateMachine(t) PROVE VolumesApart'
  <2>1. PICK m \in Machines :
          /\ mstate[m] = "none"
          /\ mvol' = [mvol EXCEPT ![m] = um[t].volume]
    BY <1>3 DEF CreateMachine
  <2>2. /\ vstate' = vstate
        /\ pc[t] = "machine"
        /\ pc'[t] # "machine"
        /\ \A s \in Starters \ {t} : pc'[s] = pc[s] /\ um'[s] = um[s]
    BY <1>0, <1>3 DEF CreateMachine, EnsureReturn, Return, Goto, TypeOK, Threads
  <2>3. mvol \in [Machines -> Volumes \cup {None}]
    BY <1>0 DEF TypeOK
  <2> QED
    BY <1>0, <2>1, <2>2, <2>3 DEF VolumesApart
<1>4. CASE DestroyVolume
  <2>1. /\ mvol' = mvol
        /\ \A s \in Starters : pc'[s] = pc[s] /\ um'[s] = um[s]
    BY <1>0, <1>4, ThreadsDistinct DEF DestroyVolume, Goto, TypeOK, Threads
  <2>2. /\ um[Loop].machine \in Machines
        /\ mvol[um[Loop].machine] = um[Loop].volume
        /\ um[Loop].volume \in Volumes
    BY <1>0, <1>4 DEF DestroyVolume, LoopShape, IInv, CredentialsMatch, Matches,
                      MachinesWhole, TypeOK, Record, Threads
  <2>3. \A s \in Starters : pc[s] = "machine" => um[s].volume # um[Loop].volume
    BY <1>0, <2>2 DEF VolumesApart
  <2>4. \A v \in Volumes : v # um[Loop].volume => vstate'[v] = vstate[v]
    BY <1>0, <1>4 DEF DestroyVolume, TypeOK
  <2>5. vstate'[um[Loop].volume] # "none" \/ vstate' = vstate
    BY <1>0, <1>4, <2>2 DEF DestroyVolume, TypeOK
  <2>6. /\ \A m \in Machines : mvol[m] # None => vstate'[mvol[m]] # "none"
        /\ \A s \in Starters : pc[s] = "machine" => vstate'[um[s].volume] = "live"
    <3>1. \A s \in Starters : pc[s] = "machine" => um[s].volume \in Volumes
      BY <1>0 DEF StartersShape, TypeOK, Record, Threads
    <3>2. \A m \in Machines : mvol[m] # None => mvol[m] \in Volumes
      BY <1>0 DEF TypeOK
    <3> QED
      BY <1>0, <2>3, <2>4, <2>5, <3>1, <3>2 DEF VolumesApart
  <2> QED
    BY <1>0, <2>1, <2>6 DEF VolumesApart
<1> QED
  BY <1>1, <1>2, <1>3, <1>4, MountStep

LEMMA DataOutlivesMachineStep ==
  ASSUME IInv, [Next]_vars PROVE DataOutlivesMachine'
<1> USE DEF DataOutlivesMachine
<1>0. TypeOK /\ DataOutlivesMachine /\ VolumesApart
  BY DEF IInv
<1>1. Persist
  BY PersistStep
<1>2. CASE mvol' = mvol /\ vstate' = vstate
  BY <1>0, <1>1, <1>2 DEF Persist
<1>3. ASSUME NEW t \in Starters, Provision(t) PROVE DataOutlivesMachine'
  BY <1>0, <1>3 DEF Provision, TypeOK
<1>4. ASSUME NEW t \in Starters, CreateMachine(t) PROVE DataOutlivesMachine'
  <2>1. vstate[um[t].volume] = "live"
    BY <1>0, <1>4 DEF VolumesApart, CreateMachine
  <2> QED
    BY <1>0, <1>1, <1>4, <2>1 DEF CreateMachine, Persist, TypeOK
<1>5. CASE DestroyVolume
  <2>1. /\ um[Loop].machine \in Machines
        /\ mvol[um[Loop].machine] = um[Loop].volume
        /\ um[Loop].volume # None
        /\ mstate[um[Loop].machine] = "destroyed"
    BY <1>0, <1>5, NoneIsNoId
    DEF DestroyVolume, LoopShape, IInv, CredentialsMatch, Matches, MachinesWhole,
        Gone, TypeOK, Record, Threads
  <2>2. \A m \in Machines : mvol[m] = um[Loop].volume => m = um[Loop].machine
    BY <1>0, <2>1 DEF VolumesApart
  <2>3. \A v \in Volumes : v # um[Loop].volume => vstate'[v] = vstate[v]
    BY <1>0, <1>5 DEF DestroyVolume, TypeOK
  <2>4. mvol' = mvol /\ mstate' = mstate
    BY <1>5 DEF DestroyVolume
  <2> QED
    BY <1>0, <2>1, <2>2, <2>3, <2>4
<1> QED
  BY <1>2, <1>3, <1>4, <1>5, MountStep

-----------------------------------------------------------------------------
(* Copies of records.                                                      *)

LEMMA CopiesCurrentStep ==
  ASSUME IInv, [Next]_vars PROVE CopiesCurrent'
<1> DEFINE Dead(m) == mstate'[m] = "destroyed"
<1>0. /\ TypeOK /\ CopiesCurrent /\ StartersShape /\ LoopShape
      /\ SingleFlight /\ RowsWhole
  BY DEF IInv
<1>1. \A m \in Machines : Gone(m) => Dead(m)
  BY PersistStep DEF Persist, Gone
<1>2. pc'[Loop] # "idle" =>
        /\ store'[who'[Loop]] # NoRecord
        /\ um'[Loop].machine = store'[who'[Loop]].machine \/ Dead(um'[Loop].machine)
  <2> DEFINE Good(u, r) == /\ store'[u] # NoRecord
                           /\ r.machine = store'[u].machine \/ Dead(r.machine)
  <2>1. ASSUME pc[Loop] # "idle", who'[Loop] = who[Loop], um'[Loop] = um[Loop],
               \/ store' = store
               \/ \E t \in Writers \ {Loop} : Save(t)
        PROVE  Good(who'[Loop], um'[Loop])
    <3>0. /\ who[Loop] \in Users
          /\ um[Loop] \in Record
          /\ um[Loop].machine \in Machines
          /\ store[who[Loop]] # NoRecord
          /\ um[Loop].machine = store[who[Loop]].machine \/ Gone(um[Loop].machine)
      BY <1>0, <2>1 DEF TypeOK, LoopShape, CopiesCurrent, Record, Threads
    <3>1. CASE store' = store
      BY <1>1, <2>1, <3>0, <3>1
    <3>2. ASSUME NEW t \in Writers \ {Loop}, Save(t)
          PROVE  Good(who'[Loop], um'[Loop])
      <4>1. t \in Starters /\ pc[t] \in {"save", "touch"} /\ um[t].machine \in Machines
        BY <3>2, WriterHolds DEF Writers
      <4>2. CASE who[t] # who[Loop]
        BY <1>0, <1>1, <2>1, <3>0, <3>2, <4>2 DEF Save, TypeOK
      <4>3. CASE who[t] = who[Loop]
        <5>1. store'[who[Loop]] = um[t] /\ um[t] # NoRecord
          BY <1>0, <3>0, <3>2, <4>1, <4>3, NoneIsNoId DEF Save, TypeOK, NoRecord
        <5>2. store[who[t]].machine # None
          BY <1>0, <3>0, <4>3 DEF RowsWhole
        <5>3. store[who[t]].machine = um[t].machine \/ Gone(store[who[t]].machine)
          BY <1>0, <4>1, <5>2 DEF CopiesCurrent
        <5> QED
          BY <1>1, <2>1, <3>0, <4>3, <5>1, <5>3
      <4> QED
        BY <4>2, <4>3
    <3> QED
      BY <2>1, <3>1, <3>2
  <2>2. ASSUME NEW t \in Threads \ {Loop}, Others(t), pc[Loop] # "idle",
               \/ store' = store
               \/ \E s \in Writers \ {Loop} : Save(s)
        PROVE  Good(who'[Loop], um'[Loop])
    BY <2>1, <2>2 DEF Others, Threads
  <2>3. CASE Call
    <3>1. store' = store
      BY <1>0, <2>3, CallFrame
    <3>2. ASSUME NEW u \in Users, NEW l, Begin(u, l)
          PROVE  Good(who'[Loop], um'[Loop])
      BY <1>0, <3>1, <3>2 DEF Begin, TypeOK, Threads
    <3>3. ASSUME pc'[Loop] # "idle",
                 \/ \E t \in Starters, u \in Users : EnsureRunning(t, u)
                 \/ \E a \in Admins : UpdateAllImages(a)
          PROVE  Good(who'[Loop], um'[Loop])
      <4>1. pc'[Loop] = pc[Loop] /\ who'[Loop] = who[Loop] /\ um'[Loop] = um[Loop]
        BY <1>0, <3>3, ThreadsDistinct
        DEF EnsureRunning, UpdateAllImages, Goto, TypeOK, Threads
      <4> QED
        BY <2>1, <3>1, <3>3, <4>1
    <3> QED
      BY <2>3, <3>2, <3>3 DEF Call, Status, Destroy, Stop
  <2>4. ASSUME NEW t \in Starters, EnsureStep(t), pc'[Loop] # "idle"
        PROVE  Good(who'[Loop], um'[Loop])
    <3>1. Others(t) /\ t \in Threads \ {Loop}
      BY <1>0, <2>4, StarterFrame, ThreadsDistinct DEF Threads
    <3>2. store' = store \/ \E s \in Writers \ {Loop} : Save(s)
      BY <2>4, ThreadsDistinct
      DEF EnsureStep, EnsureFails, EnsureLookup, EnsureStarted, EnsureStart,
          Provision, CreateMachine, SaveProvisioned, Touch, Writers
    <3>3. pc[Loop] # "idle"
      BY <2>4, <3>1 DEF Others, Threads
    <3> QED
      BY <2>2, <3>1, <3>2, <3>3
  <2>5. ASSUME LoopStep, pc'[Loop] # "idle" PROVE Good(who'[Loop], um'[Loop])
    <3>1. /\ pc[Loop] # "idle"
          /\ who'[Loop] = who[Loop]
          /\ um'[Loop] = um[Loop]
          /\ store' = store
      BY <1>0, <2>5
      DEF LoopStep, StatusReturns, StatusStale, StatusDrop, DestroyStop,
          DestroyMachine, DestroyVolume, DestroyRecord, StopMachine, StopSave,
          Return, Goto, TypeOK, Threads
    <3> QED
      BY <2>1, <3>1
  <2>6. ASSUME NEW a \in Admins, AdminStep(a), pc'[Loop] # "idle"
        PROVE  Good(who'[Loop], um'[Loop])
    <3>1. Others(a) /\ a \in Threads \ {Loop} /\ store' = store
      BY <1>0, <2>6, AdminFrame, ThreadsDistinct DEF Threads
    <3>2. pc[Loop] # "idle"
      BY <2>6, <3>1 DEF Others, Threads
    <3> QED
      BY <2>2, <3>1, <3>2
  <2>7. CASE Crash
    BY <2>7 DEF Crash, Threads
  <2>8. ASSUME FlyStep \/ UNCHANGED vars, pc'[Loop] # "idle"
        PROVE  Good(who'[Loop], um'[Loop])
    <3>1. pc' = pc /\ who' = who /\ um' = um /\ store' = store
      BY <2>8 DEF FlyStep, vars
    <3> QED
      BY <2>1, <2>8, <3>1
  <2> QED
    BY <2>3, <2>4, <2>5, <2>6, <2>7, <2>8 DEF Next
<1>3. ASSUME NEW t \in Starters
      PROVE  LET m == store'[who'[t]].machine IN
             /\ pc'[t] \in {"ensure", "start", "touch"} =>
                  m = None \/ m = um'[t].machine \/ Dead(m)
             /\ pc'[t] \in {"provision", "machine", "save"} => m = None \/ Dead(m)
  <2> DEFINE Fits(l, m, r) ==
               /\ l \in {"ensure", "start", "touch"} =>
                    m = None \/ m = r.machine \/ Dead(m)
               /\ l \in {"provision", "machine", "save"} => m = None \/ Dead(m)
             After == Fits(pc'[t], store'[who'[t]].machine, um'[t])
  <2>0. /\ t \in Threads
        /\ um[t] \in Record
        /\ pc[t] # "idle" => who[t] \in Users
        /\ \A u \in Users : store[u] \in Record /\ store[u].machine \in Machines \cup {None}
    BY <1>0 DEF TypeOK, StartersShape, Record, Threads
  <2>1. pc[t] # "idle" => Fits(pc[t], store[who[t]].machine, um[t])
    <3>1. ASSUME NEW m \in Machines \cup {None}
          PROVE  Gone(m) => m = None \/ Dead(m)
      BY <1>1, <3>1
    <3> QED
      BY <1>0, <2>0, <3>1 DEF CopiesCurrent
  <2>2. ASSUME pc'[t] = pc[t], who'[t] = who[t], um'[t] = um[t], pc[t] # "idle",
               \/ store' = store
               \/ \E s \in Writers \ {t} : Save(s)
               \/ pc[Loop] \in {"drop", "forget"} /\ Delete
        PROVE  After
    <3>1. CASE store'[who[t]] = store[who[t]]
      BY <2>1, <2>2, <3>1
    <3>2. ASSUME NEW s \in Writers \ {t}, Save(s), store'[who[t]] # store[who[t]]
          PROVE  After
      <4>1. who[s] = who[t] /\ store'[who[t]] = um[s]
        BY <1>0, <2>0, <2>2, <3>2 DEF Save, TypeOK
      <4>2. s \notin Starters
        BY <1>0, <2>2, <3>2, <4>1 DEF Writers, SingleFlight
      <4>3. s = Loop /\ pc[Loop] = "stopsave" /\ um[Loop].machine \in Machines
        BY <3>2, <4>2, WriterHolds DEF Writers
      <4>4. \/ um[Loop].machine = store[who[t]].machine
            \/ Dead(um[Loop].machine)
        BY <1>0, <1>1, <4>1, <4>3 DEF CopiesCurrent
      <4> QED
        BY <2>1, <2>2, <4>1, <4>3, <4>4
    <3>3. CASE Delete /\ store'[who[t]] # store[who[t]]
      <4>1. store'[who[t]].machine = None
        BY <1>0, <2>0, <2>2, <3>3 DEF Delete, TypeOK, NoRecord
      <4> QED
        BY <2>2, <4>1
    <3> QED
      BY <2>2, <3>1, <3>2, <3>3
  <2>3. ASSUME pc'[t] \in {"idle", "lookup"} PROVE After
    BY <2>3
  <2>4. ASSUME pc[t] = "idle", pc'[t] = pc[t] PROVE After
    BY <2>4
  <2>5. ASSUME NEW s \in Threads \ {t}, Others(s),
               \/ store' = store
               \/ s \in Writers /\ Save(s)
               \/ pc[Loop] \in {"drop", "forget"} /\ Delete
        PROVE  After
    <3>1. pc'[t] = pc[t] /\ who'[t] = who[t] /\ um'[t] = um[t]
      BY <2>0, <2>5 DEF Others
    <3>2. \/ store' = store
          \/ \E w \in Writers \ {t} : Save(w)
          \/ pc[Loop] \in {"drop", "forget"} /\ Delete
      BY <2>5
    <3> HIDE DEF After
    <3> QED
      BY <2>2, <2>4, <3>1, <3>2
  <2>6. ASSUME Call PROVE After
    <3>2. \/ pc'[t] = "lookup"
          \/ pc'[t] = pc[t] /\ who'[t] = who[t] /\ um'[t] = um[t]
      BY <1>0, <2>0, <2>6, ThreadsDistinct
      DEF Call, EnsureRunning, Status, Destroy, Stop, Begin, UpdateAllImages, Goto,
          TypeOK, Threads
    <3>3. store' = store
      BY <1>0, <2>6, CallFrame
    <3> HIDE DEF After
    <3> QED
      BY <2>2, <2>3, <2>4, <3>2, <3>3
  <2>7. CASE EnsureStep(t)
    <3> USE DEF Goto, EnsureReturn, Return, TypeOK
    <3>1. CASE EnsureFails(t) \/ Touch(t)
      BY <1>0, <2>0, <3>1 DEF EnsureFails, Touch
    <3>2. CASE EnsureLookup(t)
      <4>1. /\ store' = store /\ who'[t] = who[t] /\ um'[t] = store[who[t]]
            /\ \/ pc'[t] = "provision" /\ store[who[t]] = NoRecord
               \/ pc'[t] = "ensure"
        BY <1>0, <2>0, <3>2 DEF EnsureLookup
      <4> QED
        BY <4>1 DEF NoRecord
    <3>3. CASE EnsureStarted(t)
      <4>1. /\ pc[t] = "ensure"
            /\ store' = store /\ who'[t] = who[t] /\ um'[t] = um[t]
            /\ mstate' = mstate
            /\ \/ pc'[t] = "provision" /\ mstate[um[t].machine] = "destroyed"
               \/ pc'[t] \in {"touch", "start"}
        BY <1>0, <2>0, <3>3 DEF EnsureStarted, flyVars
      <4> QED
        BY <2>1, <4>1
    <3>4. CASE EnsureStart(t)
      <4>1. /\ pc[t] = "start"
            /\ store' = store
            /\ \/ pc'[t] = "touch" /\ who'[t] = who[t] /\ um'[t] = um[t]
               \/ pc'[t] = "idle"
        BY <1>0, <2>0, <3>4 DEF EnsureStart
      <4> QED
        BY <2>1, <4>1
    <3>5. CASE Provision(t)
      <4>1. /\ pc[t] = "provision"
            /\ store' = store
            /\ \/ pc'[t] = "machine" /\ who'[t] = who[t]
               \/ pc'[t] = "idle"
        BY <1>0, <2>0, <3>5 DEF Provision
      <4> QED
        BY <2>1, <4>1
    <3>6. CASE CreateMachine(t)
      <4>1. /\ pc[t] = "machine"
            /\ store' = store
            /\ \/ pc'[t] = "save" /\ who'[t] = who[t]
               \/ pc'[t] = "idle"
        BY <1>0, <2>0, <3>6 DEF CreateMachine
      <4> QED
        BY <2>1, <4>1
    <3>7. CASE SaveProvisioned(t)
      <4>1. /\ pc[t] = "save"
            /\ pc'[t] = "touch" /\ who'[t] = who[t] /\ um'[t] = um[t]
            /\ store' = store \/ store'[who[t]] = um[t]
        BY <1>0, <2>0, <3>7 DEF SaveProvisioned, Save
      <4> QED
        BY <2>1, <4>1
    <3> QED
      BY <2>7, <3>1, <3>2, <3>3, <3>4, <3>5, <3>6, <3>7 DEF EnsureStep
  <2>8. ASSUME NEW s \in Starters, EnsureStep(s), s # t PROVE After
    <3>1. Others(s) /\ s \in Threads \ {t}
      BY <1>0, <2>8, StarterFrame DEF Threads
    <3>2. store' = store \/ (s \in Writers /\ Save(s))
      BY <2>8 DEF EnsureStep, EnsureFails, EnsureLookup, EnsureStarted, EnsureStart,
                  Provision, CreateMachine, SaveProvisioned, Touch, Writers
    <3> HIDE DEF After
    <3> QED
      BY <2>5, <3>1, <3>2
  <2>9. ASSUME LoopStep PROVE After
    <3>1. Others(Loop) /\ Loop \in Threads \ {t}
      BY <1>0, <2>9, LoopFrame, ThreadsDistinct DEF Threads
    <3>2. \/ store' = store
          \/ Loop \in Writers /\ Save(Loop)
          \/ pc[Loop] \in {"drop", "forget"} /\ Delete
      BY <2>9 DEF LoopStep, StatusReturns, StatusStale, StatusDrop, DestroyStop,
                  DestroyMachine, DestroyVolume, DestroyRecord, StopMachine, StopSave,
                  Writers
    <3> HIDE DEF After
    <3> QED
      BY <2>5, <3>1, <3>2
  <2>10. ASSUME NEW a \in Admins, AdminStep(a) PROVE After
    <3>1. Others(a) /\ a \in Threads \ {t} /\ store' = store
      BY <1>0, <2>10, AdminFrame, ThreadsDistinct DEF Threads
    <3> HIDE DEF After
    <3> QED
      BY <2>5, <3>1
  <2>11. CASE Crash
    BY <2>0, <2>11 DEF Crash
  <2>12. ASSUME FlyStep \/ UNCHANGED vars PROVE After
    <3>1. pc' = pc /\ who' = who /\ um' = um /\ store' = store
      BY <2>12 DEF FlyStep, vars
    <3> HIDE DEF After
    <3> QED
      BY <2>2, <2>4, <3>1
  <2> QED
    BY <2>6, <2>7, <2>8, <2>9, <2>10, <2>11, <2>12 DEF Next
<1> QED
  BY <1>2, <1>3 DEF CopiesCurrent, Gone
-----------------------------------------------------------------------------
(* The inductive invariant.                                                *)

LEMMA TypeStep == ASSUME IInv, [Next]_vars PROVE TypeOK'
<1>0. TypeOK /\ StartersShape /\ AdminsShape
  BY DEF IInv
<1>1. CASE UNCHANGED vars
  BY <1>0, <1>1 DEF TypeOK, vars, flyVars
<1> QED
  BY <1>0, <1>1, CallType, EnsureType, LoopType, AdminType, FlyType, CrashType DEF Next

LEMMA IInvInit == Init => IInv
<1> SUFFICES ASSUME Init PROVE IInv
  OBVIOUS
<1> USE DEF Init
<1>1. TypeOK
  BY TypeInit
<1>2. MachinesWhole /\ RowsWhole /\ DataOutlivesMachine
  BY DEF MachinesWhole, RowsWhole, DataOutlivesMachine
<1>3. StartersShape /\ LoopShape /\ AdminsShape /\ SingleFlight
  BY DEF StartersShape, LoopShape, AdminsShape, SingleFlight, Threads
<1>4. VolumesApart /\ CopiesCurrent
  BY DEF VolumesApart, CopiesCurrent, Threads
<1>5. CredentialsMatch
  BY DEF CredentialsMatch, Matches, NoRecord, Threads
<1> QED
  BY <1>1, <1>2, <1>3, <1>4, <1>5 DEF IInv

LEMMA IInvStep == IInv /\ [Next]_vars => IInv'
BY TypeStep, MachinesWholeStep, StartersShapeStep, LoopShapeStep, AdminsShapeStep,
   RowsWholeStep, CredentialsMatchStep, SingleFlightStep, VolumesApartStep,
   DataOutlivesMachineStep, CopiesCurrentStep DEF IInv

(* IInv is an invariant of the orchestrator, whatever fails and whenever   *)
(* the bot is restarted.                                                   *)
THEOREM Invariance == SafeSpec => []IInv
BY IInvInit, IInvStep, PTL DEF SafeSpec

(* The state keeps its types: no operation writes a copy it has not        *)
(* filled, or looks up a machine by an empty id.                           *)
THEOREM TypeCorrect == SafeSpec => []TypeOK
<1>1. IInv => TypeOK
  BY DEF IInv
<1> QED
  BY <1>1, Invariance, PTL

(* Records name their own user's machine, its volume and its token.        *)
(* (EnsureRunning, SaveUserMachine, UpdateImage)                           *)
THEOREM RecordsAreRight == SafeSpec => []CredentialsMatch
<1>1. IInv => CredentialsMatch
  BY DEF IInv
<1> QED
  BY <1>1, Invariance, PTL

(* One EnsureRunning per user at a time.  (Orchestrator.starting)          *)
THEOREM OneStartPerUser == SafeSpec => []SingleFlight
<1>1. IInv => SingleFlight
  BY DEF IInv
<1> QED
  BY <1>1, Invariance, PTL

(* No volume is deleted under a machine that still exists.  (Destroy)      *)
THEOREM DataIsSafe == SafeSpec => []DataOutlivesMachine
<1>1. IInv => DataOutlivesMachine
  BY DEF IInv
<1> QED
  BY <1>1, Invariance, PTL

-----------------------------------------------------------------------------
(* Only Status on a 4xx, or a Destroy or Stop with an outdated copy, loses *)
(* the record of a machine that exists.  (EnsureRunning, provision)        *)
THEOREM RecordsAreKept == SafeSpec => RecordKept
<1>1. ASSUME IInv, [Next]_vars, NEW u \in Users, store[u].machine # None,
             Live(store[u].machine), store'[u].machine # store[u].machine,
             pc[Loop] # "drop"
      PROVE  /\ pc[Loop] \in {"forget", "stopsave"}
             /\ um[Loop].machine # store[u].machine
  <2>0. TypeOK /\ CopiesCurrent
    BY <1>1 DEF IInv
  <2>1. ASSUME NEW t \in Writers, Save(t)
        PROVE  t = Loop /\ pc[Loop] = "stopsave" /\ um[Loop].machine # store[u].machine
    <3>1. who[t] = u /\ store'[u] = um[t]
      BY <1>1, <2>0, <2>1 DEF Save, TypeOK
    <3>2. t \notin Starters
      BY <1>1, <2>0, <3>1, ThreadsDistinct DEF Writers, CopiesCurrent, Gone, Live
    <3> QED
      BY <1>1, <3>1, <3>2 DEF Writers
  <2>2. ASSUME pc[Loop] = "forget" PROVE um[Loop].machine # store[u].machine
    BY <1>1, <2>2 DEF IInv, LoopShape, Gone, Live
  <2> QED
    BY <1>1, <2>1, <2>2, StoreStep
<1>2. IInv /\ [Next]_vars => KeepsRecords
  BY <1>1 DEF KeepsRecords
<1> QED
  BY <1>2, Invariance, PTL DEF SafeSpec, RecordKept

-----------------------------------------------------------------------------
(* Refinement.                                                             *)

RegistryInit == Registry!Init
RegistryStep == Registry!Next \/ UNCHANGED Registry!rvars

LEMMA RegistryStart == Init => RegistryInit
BY DEF Init, RegistryInit, Registry!Init, NoRecord

(* Steps that touch nothing the registry shows.                            *)
LEMMA HiddenStep ==
  ASSUME store' = store, mowner' = mowner, mvol' = mvol, vstate' = vstate,
         \A m \in Machines : mstate'[m] = "destroyed" <=> mstate[m] = "destroyed"
  PROVE  RegistryStep
BY DEF RegistryStep, Registry!rvars

(* A write of the table is a Record or a Forget.                           *)
LEMMA TableStep ==
  ASSUME IInv, UNCHANGED flyVars,
         \/ \E t \in Writers : Save(t)
         \/ pc[Loop] \in {"drop", "forget"} /\ Delete
         \/ store' = store
  PROVE  RegistryStep
<1>0. TypeOK
  BY DEF IInv
<1>1. ASSUME NEW t \in Writers, Save(t) PROVE RegistryStep
  <2>1. PICK w \in Users, m \in Machines :
          w = who[t] /\ m = um[t].machine /\ mowner[m] = w
    BY WriterHolds
  <2>2. [u \in Users |-> store'[u].machine]
          = [[u \in Users |-> store[u].machine] EXCEPT ![w] = m]
    BY <1>0, <1>1, <2>1 DEF Save, TypeOK
  <2>3. Registry!Record(w, m)
    BY <2>1, <2>2 DEF Registry!Record, flyVars
  <2> QED
    BY <2>1, <2>3 DEF RegistryStep, Registry!Next
<1>2. CASE pc[Loop] \in {"drop", "forget"} /\ Delete
  <2>1. PICK w \in Users : w = who[Loop]
    BY <1>0, <1>2 DEF IInv, LoopShape, TypeOK, Threads
  <2>2. [u \in Users |-> store'[u].machine]
          = [[u \in Users |-> store[u].machine] EXCEPT ![w] = None]
    BY <1>0, <1>2, <2>1 DEF Delete, TypeOK, NoRecord
  <2>3. Registry!Forget(w)
    BY <2>2 DEF Registry!Forget, flyVars
  <2> QED
    BY <2>1, <2>3 DEF RegistryStep, Registry!Next
<1>3. CASE store' = store
  BY <1>3, HiddenStep DEF flyVars
<1> QED
  BY <1>1, <1>2, <1>3

(* The end of a machine is a Remove.                                       *)
LEMMA RemoveStep ==
  ASSUME IInv, NEW m \in Machines, mstate[m] # "none", SetMachine(m, "destroyed"),
         store' = store, mowner' = mowner, mvol' = mvol, vstate' = vstate
  PROVE  RegistryStep
<1>1. mowner[m] # None
  BY DEF IInv, MachinesWhole
<1>2. {n \in Machines : mstate'[n] = "destroyed"}
        = {n \in Machines : mstate[n] = "destroyed"} \cup {m}
  BY DEF SetMachine, IInv, TypeOK
<1>3. Registry!Remove(m)
  BY <1>1, <1>2 DEF Registry!Remove
<1> QED
  BY <1>3 DEF RegistryStep, Registry!Next

LEMMA RefinementStep == ASSUME IInv, [Next]_vars PROVE RegistryStep
<1> USE DEF SetMachine, Live, Asleep, flyVars
<1>0. TypeOK /\ MachinesWhole
  BY DEF IInv
<1>1. CASE Call
  BY <1>0, <1>1, CallFrame, HiddenStep
<1>2. ASSUME NEW t \in Starters, EnsureStep(t) PROVE RegistryStep
  <2>1. CASE EnsureFails(t) \/ EnsureLookup(t) \/ EnsureStarted(t)
    BY <2>1, HiddenStep DEF EnsureFails, EnsureLookup, EnsureStarted
  <2>2. CASE EnsureStart(t)
    BY <1>0, <2>2, HiddenStep DEF EnsureStart, StartCall, TypeOK
  <2>3. CASE Provision(t)
    <3>1. \A v \in Volumes : vstate'[v] = "destroyed" <=> vstate[v] = "destroyed"
      BY <1>0, <2>3 DEF Provision, TypeOK
    <3>2. store' = store /\ mowner' = mowner /\ mvol' = mvol /\ mstate' = mstate
      BY <2>3 DEF Provision
    <3> QED
      BY <3>1, <3>2 DEF RegistryStep, Registry!rvars
  <2>4. CASE CreateMachine(t)
    <3>1. PICK m \in Machines :
            /\ mstate[m] = "none"
            /\ mstate' = [mstate EXCEPT ![m] = "starting"]
            /\ mowner' = [mowner EXCEPT ![m] = who[t]]
            /\ mvol' = [mvol EXCEPT ![m] = um[t].volume]
      BY <2>4 DEF CreateMachine
    <3>2. /\ who[t] \in Users
          /\ um[t].volume \in Volumes
          /\ vstate[um[t].volume] = "live"
          /\ \A n \in Machines : mvol[n] # um[t].volume
      BY <2>4 DEF CreateMachine, IInv, StartersShape, VolumesApart, TypeOK, Record, Threads
    <3>3. mowner[m] = None
      BY <1>0, <3>1 DEF MachinesWhole
    <3>4. /\ store' = store /\ vstate' = vstate
          /\ \A n \in Machines : mstate'[n] = "destroyed" <=> mstate[n] = "destroyed"
      BY <1>0, <2>4, <3>1 DEF CreateMachine, TypeOK
    <3>5. Registry!Make(who[t], m, um[t].volume)
      BY <3>1, <3>2, <3>3, <3>4 DEF Registry!Make
    <3> QED
      BY <3>2, <3>5 DEF RegistryStep, Registry!Next
  <2>5. CASE SaveProvisioned(t) \/ Touch(t)
    BY <2>5, TableStep DEF SaveProvisioned, Touch, Writers
  <2> QED
    BY <1>2, <2>1, <2>2, <2>3, <2>4, <2>5 DEF EnsureStep
<1>3. CASE LoopStep
  <2>0. pc[Loop] # "idle" => um[Loop].machine \in Machines
    BY <1>0 DEF IInv, LoopShape, TypeOK, Record, Threads
  <2>1. CASE StatusReturns \/ StatusStale
    BY <2>1, HiddenStep DEF StatusReturns, StatusStale
  <2>2. CASE StatusDrop \/ DestroyRecord \/ StopSave
    BY <2>2, TableStep DEF StatusDrop, DestroyRecord, StopSave, Writers
  <2>3. CASE DestroyStop \/ StopMachine
    BY <1>0, <2>3, HiddenStep DEF DestroyStop, StopMachine, StopCall, TypeOK
  <2>4. CASE DestroyMachine
    <3>1. CASE mstate' = mstate
      BY <2>4, <3>1, HiddenStep DEF DestroyMachine
    <3>2. CASE DestroyCall(um[Loop].machine)
      BY <1>0, <2>0, <2>4, <3>2, RemoveStep DEF DestroyMachine, DestroyCall
    <3> QED
      BY <2>4, <3>1, <3>2 DEF DestroyMachine
  <2>5. CASE DestroyVolume
    <3>1. /\ mvol[um[Loop].machine] = um[Loop].volume
          /\ um[Loop].volume \in Volumes
          /\ mstate[um[Loop].machine] = "destroyed"
      BY <1>0, <2>5, NoneIsNoId
      DEF DestroyVolume, LoopShape, IInv, CredentialsMatch, Matches, MachinesWhole,
          Gone, TypeOK, Record, Threads
    <3>2. /\ store' = store /\ mowner' = mowner /\ mvol' = mvol /\ mstate' = mstate
          /\ vstate' = [vstate EXCEPT ![um[Loop].volume] = "destroyed"] \/ vstate' = vstate
      BY <2>5 DEF DestroyVolume
    <3>3. CASE vstate' = vstate
      BY <3>2, <3>3, HiddenStep
    <3>4. CASE vstate' = [vstate EXCEPT ![um[Loop].volume] = "destroyed"]
      <4>0. PICK w \in Volumes : w = um[Loop].volume
        BY <3>1
      <4>1. \A m \in Machines : mvol[m] = w => mstate[m] = "destroyed"
        BY <2>0, <2>5, <3>1, <4>0, NoneIsNoId DEF IInv, VolumesApart, DestroyVolume
      <4>2. {v \in Volumes : vstate'[v] = "destroyed"}
              = {v \in Volumes : vstate[v] = "destroyed"} \cup {w}
        BY <1>0, <3>1, <3>4, <4>0 DEF TypeOK
      <4>3. Registry!Erase(w)
        BY <3>2, <4>1, <4>2 DEF Registry!Erase
      <4> QED
        BY <3>1, <4>3 DEF RegistryStep, Registry!Next
    <3> QED
      BY <3>2, <3>3, <3>4
  <2> QED
    BY <1>3, <2>1, <2>2, <2>3, <2>4, <2>5 DEF LoopStep
<1>4. ASSUME NEW a \in Admins, AdminStep(a) PROVE RegistryStep
  <2>1. CASE UpdateNext(a) \/ UpdateFails(a) \/ UpdateGet(a)
    BY <2>1, HiddenStep DEF UpdateNext, UpdateFails, UpdateGet
  <2>2. CASE UpdateStop(a)
    BY <1>0, <2>2, HiddenStep DEF UpdateStop, StopCall, TypeOK
  <2>3. CASE UpdateMachine(a)
    <3>1. um[a].machine # None /\ Matches(um[a])
      BY <2>3 DEF IInv, AdminsShape, UpdateMachine
    <3>2. mvol' = mvol
      BY <1>0, <2>3, <3>1 DEF UpdateMachine, UpdateCall, Matches, TypeOK
    <3> QED
      BY <1>0, <2>3, <3>2, HiddenStep DEF UpdateMachine, UpdateCall, TypeOK
  <2> QED
    BY <1>4, <2>1, <2>2, <2>3 DEF AdminStep
<1>5. CASE FlyStep
  <2>1. ASSUME NEW m \in Machines, Boot(m) \/ Halt(m) \/ Sleep(m) PROVE RegistryStep
    BY <1>0, <1>5, <2>1, HiddenStep DEF FlyStep, Boot, Halt, Sleep, TypeOK
  <2>2. ASSUME NEW m \in Machines, RemovedByHand(m) PROVE RegistryStep
    BY <1>5, <2>2, RemoveStep DEF FlyStep, RemovedByHand
  <2> QED
    BY <1>5, <2>1, <2>2 DEF FlyStep
<1>6. CASE Crash \/ UNCHANGED vars
  BY <1>6, HiddenStep DEF Crash, vars
<1> QED
  BY <1>1, <1>2, <1>3, <1>4, <1>5, <1>6 DEF Next

(* The orchestrator is a registry of workspaces: with threads, API calls   *)
(* and failures hidden, every step of it is a step of WorkspaceRegistry.   *)
THEOREM Refinement == SafeSpec => ImplementsRegistry
<1>1. IInv /\ [Next]_vars => [Registry!Next]_(Registry!rvars)
  BY RefinementStep DEF RegistryStep
<1>2. Init => Registry!Init
  BY RegistryStart DEF RegistryInit
<1> QED
  BY <1>1, <1>2, Invariance, PTL DEF SafeSpec, ImplementsRegistry, Registry!Spec

=============================================================================
