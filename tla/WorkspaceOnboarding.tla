------------------------ MODULE WorkspaceOnboarding ------------------------
(***************************************************************************)
(* internal/bot: the conversation that gives one user a workspace.  The    *)
(* update loop handles the user's messages and button presses one by one;  *)
(* meanwhile goroutines provision the machine, wait for it, and put an API *)
(* key into it, and the clock and the eviction ticker run.  All of them    *)
(* share onboardingState, whose maps are reduced here to the entries of    *)
(* one user (no handler touches another user's).  What EnsureRunning and   *)
(* Destroy do is taken from WorkspaceRegistry, the abstract specification  *)
(* that Orchestrator implements.                                           *)
(*                                                                         *)
(* An entry with a deadline is "fresh" until Clock makes it "old".  A      *)
(* button of an old message can be pressed at any time.  Left out: the     *)
(* wording of messages, authType, provider, the names of seeds, SeedVault  *)
(* and analytics (no state here), awaitingModel (nothing sets it), invite  *)
(* codes, /newbot and /import, which keep entries of their own.            *)
(***************************************************************************)
EXTENDS Naturals, FiniteSets

CONSTANTS User,      \* the user
          Machines,  \* ids of machines; a machine's token goes by its id
          Volumes,   \* ids of volumes
          Workers,   \* bound: goroutines of /start that run EnsureRunning
          Pollers,   \* bound: goroutines of handleWorkspaceComplete
          MaxPolls,  \* polls before "taking longer than expected" (15)
          None       \* no id

ASSUME PollsPositive == MaxPolls \in Nat \ {0}
ASSUME NoneIsNoId == None \notin Machines \cup Volumes \cup {User}

VARIABLES
  session,   \* workspaces[user]
  stamp,     \* timestamps[user]
  awaiting,  \* the user has an entry in awaitingKey
  pending,   \* pendingDestroy[user]
  lpc,       \* where the update loop is
  wpc,       \* where each provisioning goroutine is
  got,       \* the machine its EnsureRunning returns
  polls,     \* polls each poller has left, 0 when there is none
  injecting, \* an injectWorkspaceAPIKey goroutine is running
  keySaved,  \* the store holds the user's API key
  link,      \* who sent the last Open Terminal button, and was it whole
  question,  \* history: what became of the last "Type DESTROY" in the chat
  record, owner, mount, gone, erased  \* the registry

Registry == INSTANCE WorkspaceRegistry WITH Users <- {User}

registry == <<record, owner, mount, gone, erased>>
entries  == <<session, stamp, awaiting, pending>>
workers  == <<wpc, got>>
keys     == <<injecting, keySaved>>
vars == <<entries, lpc, workers, polls, keys, link, question, registry>>

NoSession == [on |-> FALSE, topic |-> FALSE, mach |-> None, token |-> None]
NewSession == [NoSession EXCEPT !.on = TRUE]
NoLink    == [by |-> "nobody", whole |-> TRUE]
Deadlines == {"none", "fresh", "old"}
Ids       == Machines \cup {None}

(* Open for 60 seconds or until a text gets as far as the confirmation.    *)
Questions == {"closed", "open"}

TypeOK ==
  /\ session \in [on : BOOLEAN, topic : BOOLEAN, mach : Ids, token : Ids]
  /\ ~session.on => session = NoSession
  /\ stamp \in Deadlines
  /\ awaiting \in BOOLEAN
  /\ pending \in Deadlines
  /\ lpc \in {"idle", "open", "read", "destroy"}
  /\ wpc \in [Workers -> {"idle", "call", "ensure", "record", "store", "stored"}]
  /\ got \in [Workers -> Ids]
  /\ \A w \in Workers :
       wpc[w] \in {"record", "store", "stored"} <=> got[w] # None
  /\ polls \in [Pollers -> 0..MaxPolls]
  /\ injecting \in BOOLEAN
  /\ keySaved \in BOOLEAN
  /\ link \in [by : {"nobody", "loop", "poll"}, whole : BOOLEAN]
  /\ question \in Questions
  /\ record \in [{User} -> Ids]

Init ==
  /\ session = NoSession
  /\ stamp = "none"
  /\ awaiting = FALSE
  /\ pending = "none"
  /\ lpc = "idle"
  /\ wpc = [w \in Workers |-> "idle"]
  /\ got = [w \in Workers |-> None]
  /\ polls = [p \in Pollers |-> 0]
  /\ injecting = FALSE
  /\ keySaved = FALSE
  /\ link = NoLink
  /\ question = "closed"
  /\ Registry!Init

(* A goroutine that stores its result holds onboarding.mu meanwhile.       *)
Unlocked == \A w \in Workers : wpc[w] # "stored"

(* The update loop takes up the next update; handlers lock and unlock.     *)
Handles == lpc = "idle" /\ Unlocked

(* A text that reaches handleDestroyConfirmation, first in the cascade.    *)
Answers == question' = "closed"

(* The Open Terminal button: its URL holds a token and a machine to route  *)
(* to, which should be the token of that machine.                          *)
SendWorkspaceReady(by, mach, token) ==
  link' = [by |-> by, whole |-> mach # None /\ mach = token]

-----------------------------------------------------------------------------
(* handleWorkspaceStart.  Status finds a record: the button is sent.       *)
StartReady ==
  /\ Handles
  /\ record[User] # None
  /\ SendWorkspaceReady("loop", record[User], record[User])
  /\ UNCHANGED <<entries, lpc, workers, polls, keys, question, registry>>

(* Status finds none, fails, or drops the record: EnsureRunning is started *)
(* in a goroutine, and the loop goes on to OpenSession.                    *)
StartProvisioning ==
  /\ Handles
  /\ Registry!Forget(User) \/ UNCHANGED registry
  /\ \E w \in Workers : wpc[w] = "idle" /\ wpc' = [wpc EXCEPT ![w] = "call"]
  /\ lpc' = "open"
  /\ UNCHANGED <<entries, got, polls, keys, link, question>>

OpenSession ==
  /\ lpc = "open"
  /\ Unlocked
  /\ session' = NewSession
  /\ stamp' = "fresh"
  /\ lpc' = "idle"
  /\ UNCHANGED <<awaiting, pending, workers, polls, keys, link, question, registry>>

(* Every workspace button is refused without a session.  A seed with a     *)
(* topic waits for a text, the other seeds do not.                         *)
PickSeed ==
  /\ Handles
  /\ session.on
  /\ \E topical \in BOOLEAN : session' = [session EXCEPT !.topic = topical]
  /\ UNCHANGED <<stamp, awaiting, pending, lpc, workers, polls, keys, link,
                 question, registry>>

(* "I have an API key instead" shows the providers.                        *)
ChooseByok ==
  /\ Handles
  /\ session.on
  /\ session' = [session EXCEPT !.topic = FALSE]
  /\ UNCHANGED <<stamp, awaiting, pending, lpc, workers, polls, keys, link,
                 question, registry>>

SetAwaitingKey == awaiting' = TRUE /\ stamp' = "fresh"

ChooseProvider ==
  /\ Handles
  /\ session.on
  /\ session' = [session EXCEPT !.topic = FALSE]
  /\ SetAwaitingKey
  /\ UNCHANGED <<pending, lpc, workers, polls, keys, link, question, registry>>

(* The API key button of /onboard and /settings asks for a key too, with   *)
(* a workspace session or without.                                         *)
HandleAPIKeySetup ==
  /\ Handles
  /\ SetAwaitingKey
  /\ UNCHANGED <<session, pending, lpc, workers, polls, keys, link, question,
                 registry>>

(* "Open my workspace".  handleWorkspaceComplete takes the session out of  *)
(* the map and lets go of the lock before it reads it.                     *)
OpenWorkspace ==
  /\ Handles
  /\ session.on
  /\ lpc' = "read"
  /\ UNCHANGED <<entries, workers, polls, keys, link, question, registry>>

(* What an unlocked read of the session can return while a worker is       *)
(* storing: each field may be the old or the new one.                      *)
Readings ==
  [mach : {session.mach} \cup {got[w] : w \in {v \in Workers : wpc[v] = "stored"}},
   token : {session.token} \cup {got[w] : w \in {v \in Workers : wpc[v] = "stored"}}]

CompleteReady ==
  /\ lpc = "read"
  /\ \E r \in Readings :
       /\ r.token # None
       /\ SendWorkspaceReady("loop", r.mach, r.token)
  /\ lpc' = "idle"
  /\ UNCHANGED <<entries, workers, polls, keys, question, registry>>

CompleteWaits ==
  /\ lpc = "read"
  /\ \E r \in Readings : r.token = None
  /\ \E p \in Pollers : polls[p] = 0 /\ polls' = [polls EXCEPT ![p] = MaxPolls]
  /\ lpc' = "idle"
  /\ UNCHANGED <<entries, workers, keys, link, question, registry>>

-----------------------------------------------------------------------------
(* Commands.  /cancel calls clear, which keeps the session and pending.    *)
Cancel ==
  /\ Handles
  /\ awaiting' = FALSE
  /\ stamp' = "none"
  /\ UNCHANGED <<session, pending, lpc, workers, polls, keys, link, question,
                 registry>>

(* A text dropped by the inbound rate limit, a reply to an agent's message,*)
(* which HandleReply takes, and an uploaded file: handleUpdate returns     *)
(* before its text handlers.  Nothing here changes, and a destroy goes on  *)
(* waiting for its confirmation.                                           *)
GoesPast == Handles /\ UNCHANGED vars

(* /destroy asks for a confirmation if Status returns a machine; Status    *)
(* may drop the record instead.                                            *)
HandleDestroyCommand ==
  /\ Handles
  /\ record[User] # None
  /\ \/ /\ pending' = "fresh"
        /\ question' = "open"
        /\ UNCHANGED registry
     \/ /\ Registry!Forget(User)
        /\ UNCHANGED <<pending, question>>
  /\ UNCHANGED <<session, stamp, awaiting, lpc, workers, polls, keys, link>>

(* A plain text that handleUpdate lets through goes down the cascade: a    *)
(* destroy that waits for its confirmation, the topic, the key, the AI.    *)
Confirm ==
  /\ Handles
  /\ pending = "fresh"
  /\ pending' = "none"
  /\ lpc' = "destroy"
  /\ Answers
  /\ UNCHANGED <<session, stamp, awaiting, workers, polls, keys, link, registry>>

(* Mutant: a text other than DESTROY leaves the request open.              *)
AbandonDestroyKept ==
  /\ Handles
  /\ pending # "none"
  /\ Answers
  /\ UNCHANGED <<entries, lpc, workers, polls, keys, link, registry>>

(* Any other text, or DESTROY after 60 seconds.                            *)
AbandonDestroy ==
  /\ Handles
  /\ pending # "none"
  /\ pending' = "none"
  /\ Answers
  /\ UNCHANGED <<session, stamp, awaiting, lpc, workers, polls, keys, link,
                 registry>>

PlainText == Handles /\ pending = "none" /\ Answers

(* handleWorkspaceTopicInput: no session but a timestamp.                  *)
TextSessionExpired ==
  /\ PlainText
  /\ ~session.on
  /\ stamp # "none"
  /\ UNCHANGED <<entries, lpc, workers, polls, keys, link, registry>>

TextTopic ==
  /\ PlainText
  /\ session.topic
  /\ session' = [session EXCEPT !.topic = FALSE]
  /\ UNCHANGED <<stamp, awaiting, pending, lpc, workers, polls, keys, link,
                 registry>>

(* handleOnboardingInput gets the texts the topic input lets through.      *)
TopicLetsThrough == IF session.on THEN ~session.topic ELSE stamp = "none"

TextKeyInput == PlainText /\ awaiting /\ TopicLetsThrough

TextKeyExpired ==
  /\ TextKeyInput
  /\ stamp = "old"
  /\ awaiting' = FALSE
  /\ stamp' = "none"
  /\ UNCHANGED <<session, pending, lpc, workers, polls, keys, link, registry>>

ClearAwaitingKey == awaiting' = FALSE /\ stamp' = "none"

(* Too short for a key, or it cannot be encrypted or saved.                *)
TextKeyRefused ==
  /\ TextKeyInput
  /\ stamp # "old"
  /\ ClearAwaitingKey
  /\ UNCHANGED <<session, pending, lpc, workers, polls, keys, link, registry>>

(* Saved; with a session it is injected and the onboarding completes.      *)
TextKeySaved ==
  /\ TextKeyInput
  /\ stamp # "old"
  /\ ClearAwaitingKey
  /\ keySaved' = TRUE
  /\ IF session.on
     THEN ~injecting /\ injecting' = TRUE /\ lpc' = "read"
     ELSE UNCHANGED <<injecting, lpc>>
  /\ UNCHANGED <<session, pending, workers, polls, link, registry>>

(* The AI or the vault search gets what nothing else took.                 *)
TextElse ==
  /\ PlainText
  /\ TopicLetsThrough
  /\ ~awaiting
  /\ UNCHANGED <<entries, lpc, workers, polls, keys, link, registry>>

LoopStep ==
  \/ OpenSession \/ CompleteReady \/ CompleteWaits

Update ==
  \/ StartReady \/ StartProvisioning \/ PickSeed \/ ChooseByok
  \/ ChooseProvider \/ HandleAPIKeySetup \/ OpenWorkspace \/ Cancel
  \/ GoesPast \/ HandleDestroyCommand \/ Confirm \/ AbandonDestroy
  \/ TextSessionExpired \/ TextTopic \/ TextKeyExpired \/ TextKeyRefused
  \/ TextKeySaved \/ TextElse

-----------------------------------------------------------------------------
(* Orchestrator.Destroy on the loop: the machine, its volume, the record;  *)
(* an error ends it, and a failed delete of the volume or record does not. *)
DestroyStep ==
  /\ lpc = "destroy"
  /\ \/ /\ \/ record[User] # None /\ Registry!Remove(record[User])
           \/ record[User] \in gone /\ Registry!Erase(mount[record[User]])
           \/ record[User] \in gone /\ Registry!Forget(User)
        /\ UNCHANGED lpc
     \/ lpc' = "idle" /\ UNCHANGED registry
  /\ UNCHANGED <<entries, workers, polls, keys, link, question>>

(* The provisioning goroutine.  EnsureRunning's guard lets one in at once, *)
(* any other returns an error, and the user is told.                       *)
WorkerDone(w) ==
  /\ wpc' = [wpc EXCEPT ![w] = "idle"]
  /\ got' = [got EXCEPT ![w] = None]

Busy == \E w \in Workers : wpc[w] \in {"ensure", "record"}

WorkerCalls(w) ==
  /\ wpc[w] = "call"
  /\ ~Busy
  /\ wpc' = [wpc EXCEPT ![w] = "ensure"]
  /\ UNCHANGED <<entries, lpc, got, polls, keys, link, question, registry>>

WorkerFails(w) ==
  /\ \/ wpc[w] = "call" /\ Busy
     \/ wpc[w] = "ensure"
  /\ WorkerDone(w)
  /\ UNCHANGED <<entries, lpc, polls, keys, link, question, registry>>

WorkerWith(w, m, label) ==
  /\ got' = [got EXCEPT ![w] = m]
  /\ wpc' = [wpc EXCEPT ![w] = label]

(* Mutant: a machine id is returned although there is none.                *)
WorkerFindsAny(w) ==
  /\ wpc[w] = "ensure"
  /\ WorkerWith(w, record[User], "store")
  /\ UNCHANGED <<entries, lpc, polls, keys, link, question, registry>>

WorkerFinds(w) ==
  /\ wpc[w] = "ensure"
  /\ record[User] \notin gone \cup {None}
  /\ WorkerWith(w, record[User], "store")
  /\ UNCHANGED <<entries, lpc, polls, keys, link, question, registry>>

WorkerMakes(w) ==
  /\ wpc[w] = "ensure"
  /\ record[User] \in gone \cup {None}
  /\ \E m \in Machines, v \in Volumes :
       /\ Registry!Make(User, m, v)
       /\ WorkerWith(w, m, "record") \/ WorkerDone(w)  \* the reply is lost
  /\ UNCHANGED <<entries, lpc, polls, keys, link, question>>

(* The record is saved, or the save fails and is logged.                   *)
WorkerRecords(w) ==
  /\ wpc[w] = "record"
  /\ Registry!Record(User, got[w]) \/ UNCHANGED registry
  /\ wpc' = [wpc EXCEPT ![w] = "store"]
  /\ UNCHANGED <<entries, lpc, got, polls, keys, link, question>>

(* The result goes into the session there is, or a new one, under the lock.*)
WorkerLocks(w) ==
  /\ wpc[w] = "store"
  /\ Unlocked
  /\ wpc' = [wpc EXCEPT ![w] = "stored"]
  /\ UNCHANGED <<entries, lpc, got, polls, keys, link, question, registry>>

WorkerStores(w) ==
  /\ wpc[w] = "stored"
  /\ session' = [session EXCEPT !.on = TRUE, !.mach = got[w], !.token = got[w]]
  /\ WorkerDone(w)
  /\ UNCHANGED <<stamp, awaiting, pending, lpc, polls, keys, link, question,
                 registry>>

WorkerStep(w) ==
  \/ WorkerCalls(w) \/ WorkerFails(w) \/ WorkerFinds(w) \/ WorkerMakes(w)
  \/ WorkerRecords(w) \/ WorkerLocks(w) \/ WorkerStores(w)

(* Mutant: it reads without the lock.                                      *)
PollUnlocked(p) ==
  /\ polls[p] > 0
  /\ \E r \in Readings :
       IF r.token # None
       THEN /\ SendWorkspaceReady("poll", r.mach, r.token)
            /\ polls' = [polls EXCEPT ![p] = 0]
       ELSE /\ polls' = [polls EXCEPT ![p] = @ - 1]
            /\ UNCHANGED link
  /\ UNCHANGED <<entries, lpc, workers, keys, question, registry>>

(* The poller looks at whatever session there is by then.  After the last  *)
(* poll the user is told to try /start again.                              *)
Poll(p) ==
  /\ polls[p] > 0
  /\ Unlocked
  /\ IF session.token # None
     THEN /\ SendWorkspaceReady("poll", session.mach, session.token)
          /\ polls' = [polls EXCEPT ![p] = 0]
     ELSE /\ polls' = [polls EXCEPT ![p] = @ - 1]
          /\ UNCHANGED link
  /\ UNCHANGED <<entries, lpc, workers, keys, question, registry>>

(* injectWorkspaceAPIKey ends: InjectAPIKey has written the key into the   *)
(* machine the record names, or there is none, or the call fails: it gives *)
(* up and logs.                                                            *)
Inject ==
  /\ injecting
  /\ injecting' = FALSE
  /\ UNCHANGED <<entries, lpc, workers, polls, keySaved, link, question, registry>>

(* The machine is removed by hand in the Fly console.                      *)
RemovedByHand ==
  /\ record[User] \notin gone \cup {None}
  /\ Registry!Remove(record[User])
  /\ UNCHANGED <<entries, lpc, workers, polls, keys, link, question>>

(* Time passes.                                                            *)
Clock ==
  /\ \/ stamp = "fresh" /\ stamp' = "old" /\ UNCHANGED <<pending, question>>
     \/ /\ question # "closed"
        /\ question' = "closed"
        /\ pending' = IF pending = "fresh" THEN "old" ELSE pending
        /\ UNCHANGED stamp
  /\ UNCHANGED <<session, awaiting, lpc, workers, polls, keys, link, registry>>

(* Mutant: only the timestamp is evicted.                                  *)
EvictExpiredStamp ==
  /\ Unlocked
  /\ stamp = "old"
  /\ stamp' = "none"
  /\ UNCHANGED <<session, awaiting, pending, lpc, workers, polls, keys, link,
                 question, registry>>

(* The ticker, every 5 minutes.                                            *)
EvictExpired ==
  /\ Unlocked
  /\ stamp = "old"
  /\ stamp' = "none"
  /\ awaiting' = FALSE
  /\ UNCHANGED <<session, pending, lpc, workers, polls, keys, link, question,
                 registry>>

(* The bot is restarted: the store, Fly and the chat stay.                 *)
Restart ==
  /\ session' = NoSession
  /\ stamp' = "none"
  /\ awaiting' = FALSE
  /\ pending' = "none"
  /\ lpc' = "idle"
  /\ wpc' = [w \in Workers |-> "idle"]
  /\ got' = [w \in Workers |-> None]
  /\ polls' = [p \in Pollers |-> 0]
  /\ injecting' = FALSE
  /\ UNCHANGED <<keySaved, link, question, registry>>

Next ==
  \/ Update
  \/ LoopStep
  \/ DestroyStep
  \/ \E w \in Workers : WorkerStep(w)
  \/ \E p \in Pollers : Poll(p)
  \/ Inject
  \/ RemovedByHand
  \/ Clock
  \/ EvictExpired
  \/ Restart

(* The loop returns to its next update, and the goroutines run on: every   *)
(* call they make has a timeout.  A poller competes for the lock with other *)
(* goroutines, and a Go mutex starves none of them: hence SF.  Nobody has  *)
(* to send or press anything.                                              *)
Fairness ==
  /\ WF_vars(LoopStep)
  /\ \A w \in Workers : WF_vars(WorkerStep(w))
  /\ \A p \in Pollers : SF_vars(Poll(p))

SafeSpec == Init /\ [][Next]_vars
Spec == SafeSpec /\ Fairness

-----------------------------------------------------------------------------
(* Properties                                                              *)

(* An open key prompt always has a timestamp, hence a deadline: whatever   *)
(* order of buttons, commands, texts and evictions led to it, a message    *)
(* sent hours later is not taken for an API key, deleted and stored.       *)
(* (getAwaitingKey, clearAwaitingKey, clear, evictExpired)                 *)
KeyHasDeadline == awaiting => stamp # "none"

(* A button sent by a poller carries the machine and the token of one and  *)
(* the same workspace, although the session it reads is replaced by /start *)
(* and filled in by another goroutine.  (handleWorkspaceComplete)          *)
PolledLinkIsWhole ==
  link.by = "poll" => link.whole

(* Every question to type DESTROY leads to at most one Destroy, and to     *)
(* none once 60 seconds have passed or a text, whatever it said, has got   *)
(* as far as the confirmation, whatever was sent, pressed or restarted in  *)
(* between.  A text that does not get there, a command and a button leave  *)
(* the question open.  (handleDestroyCommand, handleDestroyConfirmation)   *)
DestroyIsConfirmed ==
  [][lpc' = "destroy" /\ lpc # "destroy" =>
       question # "closed" /\ question' = "closed"]_vars

(* The key is pushed into a running workspace.                             *)
(* (workspace_onboarding.go:701)                                           *)
InjectsIntoRunning == injecting => record[User] # None
=============================================================================
