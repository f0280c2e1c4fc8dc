--------------------- MODULE WorkspaceOnboardingProofs ---------------------
(***************************************************************************)
(* Proofs about WorkspaceOnboarding for every set of machines, volumes and *)
(* goroutines and every number of polls.                                   *)
(***************************************************************************)
EXTENDS WorkspaceOnboarding, TLAPS

(* What a session is given, it is given under one hold of the lock.        *)
SessionWhole == session.mach = session.token

(* A request can be confirmed only while its question is open.             *)
RequestOpen == pending = "fresh" => question # "closed"

(* A machine that was made has an owner and a volume, and no other can be  *)
(* removed or recorded.                                                    *)
RegistryTypes ==
  /\ owner \in [Machines -> {User, None}]
  /\ mount \in [Machines -> Volumes \cup {None}]
  /\ \A m \in Machines : owner[m] # None => mount[m] \in Volumes
  /\ gone \subseteq {m \in Machines : owner[m] # None}
  /\ record[User] # None => owner[record[User]] = User

(* EnsureRunning returns a machine of the user.                            *)
GotOwn == \A w \in Workers : got[w] # None => owner[got[w]] = User

IInv ==
  /\ TypeOK /\ SessionWhole /\ RequestOpen /\ RegistryTypes /\ GotOwn
  /\ KeyHasDeadline /\ PolledLinkIsWhole

-----------------------------------------------------------------------------
LEMMA InitIInv == Init => IInv
<1> SUFFICES ASSUME Init
             PROVE  IInv
  OBVIOUS
<1>1. TypeOK
  <2>1. session \in [on : BOOLEAN, topic : BOOLEAN, mach : Ids, token : Ids]
    BY DEF Init, NoSession, Ids
  <2>2. link \in [by : {"nobody", "loop", "poll"}, whole : BOOLEAN]
    BY DEF Init, NoLink
  <2>3. /\ wpc \in [Workers -> {"idle", "call", "ensure", "record", "store", "stored"}]
        /\ got \in [Workers -> Ids]
        /\ \A w \in Workers :
             wpc[w] \in {"record", "store", "stored"} <=> got[w] # None
    BY DEF Init, Ids
  <2>4. polls \in [Pollers -> 0..MaxPolls] /\ record \in [{User} -> Ids]
    BY PollsPositive DEF Init, Registry!Init, Ids
  <2> QED
    BY <2>1, <2>2, <2>3, <2>4 DEF Init, TypeOK, Deadlines, Questions
<1>2. RegistryTypes /\ GotOwn
  BY NoneIsNoId DEF Init, Registry!Init, RegistryTypes, GotOwn
<1>3. SessionWhole /\ RequestOpen /\ KeyHasDeadline /\ PolledLinkIsWhole
  BY DEF Init, SessionWhole, RequestOpen, KeyHasDeadline, PolledLinkIsWhole,
     NoSession, NoLink
<1> QED
  BY <1>1, <1>2, <1>3 DEF IInv

(* What a step of the loop may do to a session.                            *)
SessionType ==
  /\ session \in [on : BOOLEAN, topic : BOOLEAN, mach : Ids, token : Ids]
  /\ ~session.on => session = NoSession
  /\ SessionWhole

LEMMA SessionFacts ==
  ASSUME IInv
  PROVE  /\ SessionType
         /\ session' = NewSession => SessionType'
         /\ session' = NoSession => SessionType'
         /\ \A b \in BOOLEAN :
              session.on /\ session' = [session EXCEPT !.topic = b] => SessionType'
         /\ \A m \in Ids :
              session' = [session EXCEPT !.on = TRUE, !.mach = m, !.token = m]
                => SessionType'
<1> USE DEF IInv, TypeOK, SessionType, SessionWhole, NewSession, NoSession, Ids
<1>1. SessionType
  OBVIOUS
<1>2. CASE session' = NewSession
  BY <1>2
<1>3. CASE session' = NoSession
  BY <1>3
<1>4. ASSUME NEW b \in BOOLEAN, session.on, session' = [session EXCEPT !.topic = b]
      PROVE  SessionType'
  BY <1>4
<1>5. ASSUME NEW m \in Ids,
             session' = [session EXCEPT !.on = TRUE, !.mach = m, !.token = m]
      PROVE  SessionType'
  BY <1>5
<1> QED
  BY <1>1, <1>2, <1>3, <1>4, <1>5

(* What IInv asks of the update loop's own variables.                      *)
LoopTypes ==
  /\ SessionType
  /\ stamp \in Deadlines /\ awaiting \in BOOLEAN /\ KeyHasDeadline
  /\ pending \in Deadlines /\ question \in Questions
  /\ RequestOpen
  /\ lpc \in {"idle", "open", "read", "destroy"}
  /\ keySaved \in BOOLEAN /\ injecting \in BOOLEAN
  /\ link \in [by : {"nobody", "loop", "poll"}, whole : BOOLEAN]
  /\ PolledLinkIsWhole

GoroutineTypes ==
  /\ wpc \in [Workers -> {"idle", "call", "ensure", "record", "store", "stored"}]
  /\ got \in [Workers -> Ids]
  /\ \A w \in Workers :
       wpc[w] \in {"record", "store", "stored"} <=> got[w] # None
  /\ polls \in [Pollers -> 0..MaxPolls]

RecordTypes == record \in [{User} -> Ids] /\ RegistryTypes

LEMMA Parts == IInv <=> LoopTypes /\ GoroutineTypes /\ RecordTypes /\ GotOwn
BY DEF IInv, TypeOK, LoopTypes, GoroutineTypes, RecordTypes, SessionType

LEMMA LoopParts == LoopTypes => SessionType
BY DEF LoopTypes
-----------------------------------------------------------------------------
(* The update loop.                                                        *)

LEMMA LinkType ==
  ASSUME NEW by \in {"loop", "poll"}, NEW m, NEW t, SendWorkspaceReady(by, m, t)
  PROVE  /\ link' \in [by : {"nobody", "loop", "poll"}, whole : BOOLEAN]
         /\ link'.by = by /\ link'.whole = (m # None /\ m = t)
<1>1. (m # None /\ m = t) \in BOOLEAN
  OBVIOUS
<1> QED
  BY <1>1 DEF SendWorkspaceReady

(* Buttons and commands.                                                   *)
LEMMA AskLoop ==
  ASSUME IInv, \/ StartReady \/ StartProvisioning \/ PickSeed \/ ChooseByok
               \/ ChooseProvider \/ HandleAPIKeySetup \/ OpenWorkspace \/ Cancel
               \/ GoesPast \/ HandleDestroyCommand
  PROVE  LoopTypes'
<1>1. LoopTypes
  BY Parts
<1> USE DEF entries, keys, KeyHasDeadline, RequestOpen, PolledLinkIsWhole, Deadlines
<1>2. CASE StartReady
  <2>1. SessionType' /\ RequestOpen' /\ question' \in Questions
    BY <1>1, <1>2 DEF StartReady, LoopTypes, SessionType, SessionWhole
  <2>2. PolledLinkIsWhole' /\ link' \in [by : {"nobody", "loop", "poll"}, whole : BOOLEAN]
    BY <1>2, LinkType DEF StartReady
  <2> QED
    BY <1>1, <1>2, <2>1, <2>2 DEF StartReady, LoopTypes
<1>3. CASE StartProvisioning
  <2>1. SessionType' /\ RequestOpen' /\ question' \in Questions
    BY <1>1, <1>3 DEF StartProvisioning, LoopTypes, SessionType, SessionWhole
  <2> QED
    BY <1>1, <1>3, <2>1 DEF StartProvisioning, LoopTypes
<1>4. CASE PickSeed
  <2>1. SessionType'
    BY <1>4, SessionFacts DEF PickSeed
  <2> QED
    BY <1>1, <1>4, <2>1 DEF PickSeed, LoopTypes
<1>5. CASE ChooseByok \/ ChooseProvider
  <2>1. SessionType'
    BY <1>5, SessionFacts DEF ChooseByok, ChooseProvider
  <2>2. CASE ChooseByok
    BY <1>1, <2>1, <2>2 DEF ChooseByok, LoopTypes
  <2>3. CASE ChooseProvider
    BY <1>1, <2>1, <2>3 DEF ChooseProvider, SetAwaitingKey, LoopTypes
  <2> QED
    BY <1>5, <2>2, <2>3
<1>6. CASE HandleAPIKeySetup \/ OpenWorkspace
  <2>1. SessionType'
    BY <1>1, <1>6
    DEF HandleAPIKeySetup, OpenWorkspace, LoopTypes, SessionType, SessionWhole
  <2>2. CASE HandleAPIKeySetup
    BY <1>1, <2>1, <2>2 DEF HandleAPIKeySetup, SetAwaitingKey, LoopTypes
  <2>3. CASE OpenWorkspace
    BY <1>1, <2>1, <2>3 DEF OpenWorkspace, LoopTypes
  <2> QED
    BY <1>6, <2>2, <2>3
<1>7. CASE Cancel
  <2>1. SessionType' /\ RequestOpen' /\ question' \in Questions
    BY <1>1, <1>7 DEF Cancel, LoopTypes, SessionType, SessionWhole
  <2> QED
    BY <1>1, <1>7, <2>1 DEF Cancel, LoopTypes
<1>8. CASE HandleDestroyCommand
  <2>1. SessionType'
    BY <1>1, <1>8 DEF HandleDestroyCommand, LoopTypes, SessionType, SessionWhole
  <2>2. RequestOpen' /\ question' \in Questions
    BY <1>1, <1>8 DEF HandleDestroyCommand, LoopTypes, Questions
  <2> QED
    BY <1>1, <1>8, <2>1, <2>2 DEF HandleDestroyCommand, LoopTypes
<1>9. CASE GoesPast
  BY <1>1, <1>9 DEF GoesPast, vars, LoopTypes, SessionType, SessionWhole
<1> QED
  BY <1>2, <1>3, <1>4, <1>5, <1>6, <1>7, <1>8, <1>9

(* Texts.                                                                  *)
LEMMA TextLoop ==
  ASSUME IInv, \/ Confirm \/ AbandonDestroy \/ TextSessionExpired
               \/ TextTopic \/ TextKeyExpired \/ TextKeyRefused
               \/ TextKeySaved \/ TextElse
  PROVE  LoopTypes'
<1>1. LoopTypes
  BY Parts
<1>2. CASE Confirm \/ AbandonDestroy
  BY <1>1, <1>2
  DEF Confirm, AbandonDestroy, LoopTypes, SessionType, SessionWhole, keys,
      KeyHasDeadline, RequestOpen, PolledLinkIsWhole, Deadlines, Answers,
      Questions
<1>3. CASE \/ TextSessionExpired \/ TextTopic \/ TextKeyExpired
           \/ TextKeyRefused \/ TextKeySaved \/ TextElse
  <2>1. PlainText /\ pending' = "none"
    BY <1>3 DEF TextSessionExpired, TextTopic, TextKeyExpired, TextKeyRefused,
       TextKeySaved, TextKeyInput, TextElse, PlainText, entries
  <2>2. RequestOpen' /\ question' \in Questions
    BY <2>1 DEF PlainText, Answers, RequestOpen, Questions
  <2>3. SessionType'
    <3>1. CASE TextTopic
      <4>1. session.on
        BY <1>1, <3>1 DEF TextTopic, LoopTypes, SessionType, NoSession
      <4> QED
        BY <3>1, <4>1, SessionFacts DEF TextTopic
    <3>2. CASE UNCHANGED session
      BY <1>1, <3>2 DEF LoopTypes, SessionType, SessionWhole
    <3> QED
      BY <1>3, <3>1, <3>2 DEF TextSessionExpired, TextKeyExpired, TextKeyRefused,
         TextKeySaved, TextElse, entries
  <2>4. /\ stamp' \in Deadlines /\ awaiting' \in BOOLEAN /\ KeyHasDeadline'
        /\ lpc' \in {"idle", "open", "read", "destroy"}
        /\ keySaved' \in BOOLEAN /\ injecting' \in BOOLEAN
        /\ link' = link
    <3> USE <1>1 DEF LoopTypes, KeyHasDeadline, Deadlines
    <3>1. CASE TextSessionExpired \/ TextElse
      BY <3>1 DEF TextSessionExpired, TextElse, entries, keys
    <3>2. CASE TextTopic
      BY <3>2 DEF TextTopic, keys
    <3>3. CASE TextKeyExpired \/ TextKeyRefused
      BY <3>3 DEF TextKeyExpired, TextKeyRefused, ClearAwaitingKey, keys
    <3>4. CASE TextKeySaved
      BY <3>4 DEF TextKeySaved, ClearAwaitingKey
    <3> QED
      BY <1>3, <3>1, <3>2, <3>3, <3>4
  <2> QED
    BY <1>1, <2>1, <2>2, <2>3, <2>4 DEF LoopTypes, PolledLinkIsWhole, Deadlines
<1> QED
  BY <1>2, <1>3

(* What is no update: the ends of handlers, timers, and the restart.       *)
LEMMA OtherLoop ==
  ASSUME IInv, \/ OpenSession \/ CompleteReady \/ CompleteWaits \/ DestroyStep
               \/ Inject \/ RemovedByHand \/ Clock \/ EvictExpired \/ Restart
  PROVE  LoopTypes'
<1>1. LoopTypes
  BY Parts
<1>2. SessionType'
  <2>1. CASE UNCHANGED session
    BY <1>1, <2>1 DEF LoopTypes, SessionType, SessionWhole
  <2> QED
    BY <2>1, SessionFacts DEF OpenSession, CompleteReady, CompleteWaits,
       DestroyStep, Inject, RemovedByHand, Clock, EvictExpired, Restart, entries
<1>3. /\ link' \in [by : {"nobody", "loop", "poll"}, whole : BOOLEAN]
      /\ PolledLinkIsWhole'
  <2>1. CASE CompleteReady
    BY <2>1, LinkType DEF CompleteReady, PolledLinkIsWhole
  <2>2. CASE UNCHANGED link
    BY <1>1, <2>2 DEF LoopTypes, PolledLinkIsWhole
  <2> QED
    BY <2>1, <2>2 DEF OpenSession, CompleteWaits, DestroyStep, Inject,
       RemovedByHand, Clock, EvictExpired, Restart
<1>4. /\ pending' \in Deadlines /\ question' \in Questions
      /\ RequestOpen'
  BY <1>1 DEF OpenSession, CompleteReady, CompleteWaits, DestroyStep, Inject,
     RemovedByHand, Clock, EvictExpired, Restart, entries, LoopTypes, RequestOpen,
     Deadlines, Questions
<1>5. /\ stamp' \in Deadlines /\ awaiting' \in BOOLEAN /\ KeyHasDeadline'
      /\ lpc' \in {"idle", "open", "read", "destroy"}
      /\ keySaved' \in BOOLEAN /\ injecting' \in BOOLEAN
  <2> USE <1>1 DEF LoopTypes, KeyHasDeadline, Deadlines, entries, keys
  <2>1. CASE OpenSession
    BY <2>1 DEF OpenSession
  <2>2. CASE CompleteReady \/ CompleteWaits
    BY <2>2 DEF CompleteReady, CompleteWaits
  <2>3. CASE DestroyStep
    BY <2>3 DEF DestroyStep
  <2>4. CASE Inject
    BY <2>4 DEF Inject
  <2>5. CASE Clock
    BY <2>5 DEF Clock
  <2>6. CASE EvictExpired \/ Restart
    BY <2>6 DEF EvictExpired, Restart
  <2>7. CASE RemovedByHand
    BY <2>7 DEF RemovedByHand
  <2> QED
    BY <2>1, <2>2, <2>3, <2>4, <2>5, <2>6, <2>7
<1> QED
  BY <1>2, <1>3, <1>4, <1>5 DEF LoopTypes
-----------------------------------------------------------------------------
(* The registry: what the bot does to it is what WorkspaceRegistry allows. *)

LEMMA DestroyStepAllowed ==
  ASSUME IInv, DestroyStep
  PROVE  [Registry!Next]_(Registry!rvars)
<1> USE DEF Registry!Next
<1>1. CASE UNCHANGED registry
  BY <1>1 DEF registry, Registry!rvars
<1>2. CASE record[User] # None /\ Registry!Remove(record[User])
  BY <1>2 DEF IInv, TypeOK, Ids
<1>3. CASE record[User] \in gone /\ Registry!Erase(mount[record[User]])
  <2>1. mount[record[User]] \in Volumes
    BY <1>3 DEF IInv, RegistryTypes
  <2> QED
    BY <1>3, <2>1
<1>4. CASE Registry!Forget(User)
  BY <1>4
<1> QED
  BY <1>1, <1>2, <1>3, <1>4 DEF DestroyStep

LEMMA WorkerStepAllowed ==
  ASSUME IInv, NEW w \in Workers, WorkerStep(w)
  PROVE  [Registry!Next]_(Registry!rvars)
<1> USE DEF Registry!Next
<1>1. CASE UNCHANGED registry
  BY <1>1 DEF registry, Registry!rvars
<1>2. CASE WorkerMakes(w)
  BY <1>2 DEF WorkerMakes
<1>3. CASE WorkerRecords(w)
  <2>1. got[w] \in Machines
    BY <1>3 DEF WorkerRecords, IInv, TypeOK, Ids
  <2> QED
    BY <1>1, <1>3, <2>1 DEF WorkerRecords
<1> QED
  BY <1>1, <1>2, <1>3 DEF WorkerStep, WorkerCalls, WorkerFails, WorkerFinds,
     WorkerLocks, WorkerStores

LEMMA StepAllowed ==
  ASSUME IInv, [Next]_vars
  PROVE  [Registry!Next]_(Registry!rvars)
<1>1. CASE UNCHANGED registry
  BY <1>1 DEF registry, Registry!rvars
<1>2. CASE Registry!Forget(User)
  BY <1>2 DEF Registry!Next
<1>3. CASE Update
  BY <1>1, <1>2, <1>3 DEF Update, StartReady, StartProvisioning, PickSeed,
     ChooseByok, ChooseProvider, HandleAPIKeySetup, OpenWorkspace, Cancel,
     HandleDestroyCommand, Confirm, AbandonDestroy, TextSessionExpired,
     TextTopic, TextKeyExpired, TextKeyRefused, TextKeySaved, TextElse,
     GoesPast, vars
<1>4. CASE \/ LoopStep \/ Inject \/ Clock \/ EvictExpired \/ Restart
           \/ UNCHANGED vars \/ \E p \in Pollers : Poll(p)
  BY <1>1, <1>4 DEF LoopStep, OpenSession, CompleteReady, CompleteWaits, Inject,
     Clock, EvictExpired, Restart, vars, Poll
<1>5. CASE RemovedByHand
  <2>1. record[User] \in Machines /\ Registry!Remove(record[User])
    BY <1>5 DEF RemovedByHand, IInv, TypeOK, Ids
  <2> QED
    BY <2>1 DEF Registry!Next
<1> QED
  BY <1>3, <1>4, <1>5, DestroyStepAllowed, WorkerStepAllowed DEF Next

LEMMA RegistryKeeps ==
  ASSUME RecordTypes, [Registry!Next]_(Registry!rvars)
  PROVE  RecordTypes' /\ \A m \in Machines : owner[m] = User => owner'[m] = User
<1> USE NoneIsNoId DEF RecordTypes, RegistryTypes, Ids
<1>1. ASSUME NEW m \in Machines, NEW v \in Volumes, Registry!Make(User, m, v)
      PROVE  RecordTypes' /\ \A n \in Machines : owner[n] = User => owner'[n] = User
  BY <1>1 DEF Registry!Make
<1>2. ASSUME NEW m \in Machines, Registry!Record(User, m)
      PROVE  RecordTypes' /\ UNCHANGED owner
  BY <1>2 DEF Registry!Record
<1>3. CASE Registry!Forget(User)
  BY <1>3 DEF Registry!Forget
<1>4. ASSUME NEW m \in Machines, Registry!Remove(m)
      PROVE  RecordTypes' /\ UNCHANGED owner
  BY <1>4 DEF Registry!Remove
<1>5. ASSUME NEW v \in Volumes, Registry!Erase(v)
      PROVE  RecordTypes' /\ UNCHANGED owner
  BY <1>5 DEF Registry!Erase
<1>6. CASE UNCHANGED Registry!rvars
  BY <1>6 DEF Registry!rvars
<1> QED
  BY <1>1, <1>2, <1>3, <1>4, <1>5, <1>6 DEF Registry!Next

-----------------------------------------------------------------------------
(* The goroutines.                                                         *)

LEMMA UpdateGoroutines ==
  ASSUME IInv, \/ Update \/ LoopStep \/ DestroyStep \/ Inject \/ RemovedByHand
               \/ Clock \/ EvictExpired \/ Restart \/ UNCHANGED vars
  PROVE  GoroutineTypes' /\ \A w \in Workers : got'[w] \in {got[w], None}
<1> USE PollsPositive DEF GoroutineTypes, workers
<1>1. GoroutineTypes
  BY Parts
<1>2. CASE StartProvisioning
  BY <1>1, <1>2 DEF StartProvisioning
<1>3. CASE CompleteWaits
  BY <1>1, <1>3 DEF CompleteWaits
<1>4. CASE Restart
  BY <1>1, <1>4 DEF Restart, Ids
<1>5. CASE UNCHANGED <<workers, polls>>
  BY <1>1, <1>5
<1>6. CASE Update /\ ~StartProvisioning
  BY <1>5, <1>6 DEF Update, StartReady, PickSeed,
     ChooseByok, ChooseProvider, HandleAPIKeySetup, OpenWorkspace, Cancel,
     HandleDestroyCommand, Confirm, AbandonDestroy, TextSessionExpired,
     TextTopic, TextKeyExpired, TextKeyRefused, TextKeySaved, TextElse,
     GoesPast, vars
<1> QED
  BY <1>2, <1>3, <1>4, <1>5, <1>6 DEF LoopStep, OpenSession, CompleteReady,
     DestroyStep, Inject, RemovedByHand, Clock, EvictExpired, vars

LEMMA WorkerGoroutines ==
  ASSUME IInv, NEW w \in Workers, WorkerStep(w)
  PROVE  GoroutineTypes' /\ GotOwn' /\ LoopTypes'
<1> USE NoneIsNoId DEF GoroutineTypes, Ids
<1>1. GoroutineTypes /\ RecordTypes /\ GotOwn /\ LoopTypes
  BY Parts
<1>2. \A m \in Machines : owner[m] = User => owner'[m] = User
  BY <1>1, WorkerStepAllowed, RegistryKeeps
<1>3. UNCHANGED polls
  BY DEF WorkerStep, WorkerCalls, WorkerFails, WorkerFinds, WorkerMakes,
     WorkerRecords, WorkerLocks, WorkerStores
<1>4. LoopTypes'
  <2>1. SessionType'
    <3>1. CASE WorkerStores(w)
      BY <1>1, <3>1, SessionFacts DEF WorkerStores
    <3>2. CASE UNCHANGED session
      BY <1>1, <3>2 DEF LoopTypes, SessionType, SessionWhole
    <3> QED
      BY <3>1, <3>2 DEF WorkerStep, WorkerCalls, WorkerFails, WorkerFinds,
         WorkerMakes, WorkerRecords, WorkerLocks, entries
  <2>2. UNCHANGED <<stamp, awaiting, pending, lpc, keys, link, question>>
    BY DEF WorkerStep, WorkerCalls, WorkerFails, WorkerFinds, WorkerMakes,
       WorkerRecords, WorkerLocks, WorkerStores, entries
  <2> QED
    BY <1>1, <2>1, <2>2
    DEF LoopTypes, KeyHasDeadline, RequestOpen, PolledLinkIsWhole, keys
<1>5. GoroutineTypes' /\ GotOwn'
  <2>1. CASE WorkerCalls(w)
    BY <1>1, <1>2, <1>3, <2>1 DEF WorkerCalls, GotOwn
  <2>2. CASE WorkerFails(w)
    BY <1>1, <1>2, <1>3, <2>2 DEF WorkerFails, WorkerDone, GotOwn
  <2>3. CASE WorkerFinds(w)
    <3>1. record[User] \in Machines /\ owner[record[User]] = User
      BY <1>1, <2>3 DEF WorkerFinds, RecordTypes, RegistryTypes
    <3> QED
      BY <1>1, <1>2, <1>3, <2>3, <3>1 DEF WorkerFinds, WorkerWith, GotOwn
  <2>4. CASE WorkerMakes(w)
    <3>1. \/ \E m \in Machines : owner'[m] = User /\ WorkerWith(w, m, "record")
          \/ WorkerDone(w)
      BY <1>1, <2>4 DEF WorkerMakes, Registry!Make, RecordTypes, RegistryTypes
    <3> QED
      BY <1>1, <1>2, <1>3, <2>4, <3>1 DEF WorkerMakes, WorkerWith, WorkerDone, GotOwn
  <2>5. CASE WorkerRecords(w)
    BY <1>1, <1>2, <1>3, <2>5 DEF WorkerRecords, GotOwn
  <2>6. CASE WorkerLocks(w)
    BY <1>1, <1>2, <1>3, <2>6 DEF WorkerLocks, GotOwn
  <2>7. CASE WorkerStores(w)
    BY <1>1, <1>2, <1>3, <2>7 DEF WorkerStores, WorkerDone, GotOwn
  <2> QED
    BY <2>1, <2>2, <2>3, <2>4, <2>5, <2>6, <2>7 DEF WorkerStep
<1> QED
  BY <1>4, <1>5

LEMMA PollTypes ==
  ASSUME IInv, NEW p \in Pollers, Poll(p)
  PROVE  GoroutineTypes' /\ LoopTypes' /\ UNCHANGED <<got, owner>>
<1>1. GoroutineTypes /\ LoopTypes /\ session.mach = session.token
  BY Parts DEF LoopTypes, SessionType, SessionWhole
<1>2. GoroutineTypes'
  BY <1>1, PollsPositive DEF Poll, GoroutineTypes, workers
<1>3. PolledLinkIsWhole' /\ link' \in [by : {"nobody", "loop", "poll"}, whole : BOOLEAN]
  <2>1. CASE session.token # None
    BY <1>1, <2>1, LinkType DEF Poll, PolledLinkIsWhole
  <2>2. CASE session.token = None
    BY <1>1, <2>2 DEF Poll, LoopTypes, PolledLinkIsWhole
  <2> QED
    BY <2>1, <2>2
<1> QED
  BY <1>1, <1>2, <1>3 DEF Poll, LoopTypes, SessionType, SessionWhole, KeyHasDeadline,
     RequestOpen, entries, keys, workers, registry

LEMMA StepIInv == IInv /\ [Next]_vars => IInv'
<1> SUFFICES ASSUME IInv, [Next]_vars
             PROVE  LoopTypes' /\ GoroutineTypes' /\ RecordTypes' /\ GotOwn'
  BY DEF IInv, TypeOK, LoopTypes, GoroutineTypes, RecordTypes, SessionType
<1>1. RecordTypes' /\ \A m \in Machines : owner[m] = User => owner'[m] = User
  BY Parts, StepAllowed, RegistryKeeps
<1>2. ASSUME \A w \in Workers : got'[w] \in {got[w], None}
      PROVE  GotOwn'
  BY <1>1, <1>2 DEF IInv, TypeOK, GotOwn, Ids
<1>3. CASE \/ Update \/ LoopStep \/ DestroyStep \/ Inject \/ RemovedByHand
           \/ Clock \/ EvictExpired \/ Restart
  BY <1>1, <1>2, <1>3, UpdateGoroutines, AskLoop, TextLoop, OtherLoop
  DEF Update, LoopStep
<1>4. ASSUME NEW w \in Workers, WorkerStep(w)
      PROVE  LoopTypes' /\ GoroutineTypes' /\ GotOwn'
  BY <1>4, WorkerGoroutines
<1>5. ASSUME NEW p \in Pollers, Poll(p)
      PROVE  LoopTypes' /\ GoroutineTypes' /\ GotOwn'
  BY <1>2, <1>5, PollTypes
<1>6. CASE UNCHANGED vars
  <2>1. LoopTypes'
    BY <1>6, Parts DEF vars, entries, keys, LoopTypes, SessionType, SessionWhole,
       KeyHasDeadline, RequestOpen, PolledLinkIsWhole
  <2>2. GoroutineTypes'
    BY <1>6, Parts DEF vars, workers, GoroutineTypes
  <2>3. GotOwn'
    BY <1>2, <1>6 DEF vars, workers
  <2> QED
    BY <1>1, <2>1, <2>2, <2>3
<1> QED
  BY <1>1, <1>3, <1>4, <1>5, <1>6 DEF Next

LEMMA Invariance == SafeSpec => []IInv
BY InitIInv, StepIInv, PTL DEF SafeSpec

-----------------------------------------------------------------------------
(* The shared entries keep their types, and a goroutine holds a machine    *)
(* exactly while it has one to record or store.                            *)
THEOREM OnboardingTypes == SafeSpec => []TypeOK
BY Invariance, PTL DEF IInv

(* A key prompt has a deadline.  (getAwaitingKey, clear, evictExpired)     *)
THEOREM PromptsExpire == SafeSpec => []KeyHasDeadline
BY Invariance, PTL DEF IInv

(* A polled Open Terminal button leads to one workspace.                   *)
(* (handleWorkspaceComplete)                                               *)
THEOREM PolledLinksWork == SafeSpec => []PolledLinkIsWhole
BY Invariance, PTL DEF IInv

(* A workspace is destroyed at most once on a question, within its minute  *)
(* and before any text has reached the confirmation.                       *)
(* (handleDestroyConfirmation)                                             *)
THEOREM DestroyNeedsConfirmation == SafeSpec => DestroyIsConfirmed
<1>1. ASSUME IInv, Next, lpc' = "destroy", lpc # "destroy"
      PROVE  question # "closed" /\ question' = "closed"
  <2>1. ~Confirm => FALSE
    BY <1>1 DEF Next, Update, LoopStep, StartReady, StartProvisioning, PickSeed,
       ChooseByok, ChooseProvider, HandleAPIKeySetup, OpenWorkspace, Cancel,
       HandleDestroyCommand, AbandonDestroy, TextSessionExpired, TextTopic,
       TextKeyExpired, TextKeyRefused, TextKeySaved, TextElse, GoesPast,
       vars, OpenSession, CompleteReady,
       CompleteWaits, DestroyStep, WorkerStep, WorkerCalls, WorkerFails,
       WorkerFinds, WorkerMakes, WorkerRecords, WorkerLocks, WorkerStores, Poll,
       Inject, RemovedByHand, Clock, EvictExpired, Restart
  <2> QED
    BY <1>1, <2>1 DEF Confirm, Answers, IInv, RequestOpen
<1>2. IInv /\ [Next]_vars =>
        [lpc' = "destroy" /\ lpc # "destroy" =>
           question # "closed" /\ question' = "closed"]_vars
  BY <1>1
<1> QED
  BY <1>2, Invariance, PTL DEF SafeSpec, DestroyIsConfirmed

(* The bot uses the orchestrator as WorkspaceRegistry promises it, which   *)
(* is what Orchestrator implements: it makes machines for the user only on *)
(* unused volumes, records only machines of the user, and asks for no      *)
(* volume to be erased under a machine that exists.                        *)
THEOREM UsesTheRegistry == SafeSpec => Registry!Spec
<1>1. Init => Registry!Init
  BY DEF Init
<1>2. IInv /\ [Next]_vars => [Registry!Next]_(Registry!rvars)
  BY StepAllowed
<1> QED
  BY <1>1, <1>2, Invariance, PTL DEF SafeSpec, Registry!Spec

(* A provisioning goroutine stores only a machine made for its user.       *)
THEOREM StoresOwnMachine == SafeSpec => []GotOwn
BY Invariance, PTL DEF IInv
=============================================================================
