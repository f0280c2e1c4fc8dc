--------------------------- MODULE ReviewsProofs ---------------------------
(***************************************************************************)
(* Proofs about Reviews for every set of file names, in any order.         *)
(***************************************************************************)
EXTENDS Reviews, TLAPS

Stages == {"idle", "intent", "stamp", "rename", "result"}

\* What the update loop holds, as a record.
JobType ==
  job \in [at : Stages,
           by : {"none", "name", "number", "button", "list"},
           arg : Names \cup {"none"},
           from : {"none", "pending", "dpending"},
           name : Names \cup {"none"},
           action : Actions \cup {"none"}]

Reviewing(at) == job.from = "pending" /\ job.at \in at

\* The audit log and the entries lost from it in terms of the stage a review
\* is in.  A decision has stages too, but logs nothing.
AuditShape ==
  /\ log["ok"] + (IF Reviewing({"result"}) THEN 1 ELSE 0) <= moves
  /\ moves + log["failed"] + (IF Reviewing({"stamp", "rename"}) THEN 1 ELSE 0)
       <= log["intent"] + lost["intent"]
  /\ log["intent"] <= log["ok"] + log["failed"] + crashes
       + lost["ok"] + lost["failed"]
       + (IF Reviewing({"stamp", "rename", "result"}) THEN 1 ELSE 0)

\* Between the stamp and the rename an agent may take the file away or put
\* a new one in its place, but no one writes the other stamp.
StampIsFresh ==
  job.at = "rename" => files[job.from][job.name] \in {"absent", "none", job.action}

IInv == TypeOK /\ JobType /\ AuditShape /\ StampIsFresh /\ StampAgrees

-----------------------------------------------------------------------------
LEMMA InitIInv == Init => IInv
<1> SUFFICES ASSUME Init
             PROVE  IInv
  OBVIOUS
<1>1. TypeOK
  BY BoundsAreNumbers DEF Init, TypeOK, Idle, Paths, Results
<1>2. JobType
  BY DEF Init, JobType, Idle, Stages
<1>3. AuditShape
  BY BoundsAreNumbers DEF Init, AuditShape, Reviewing, Idle, Results
<1>4. StampIsFresh /\ StampAgrees
  BY DEF Init, StampIsFresh, StampAgrees, Idle, Places
<1> QED
  BY <1>1, <1>2, <1>3, <1>4 DEF IInv

Stamps == {"absent", "none"} \cup Actions

LEMMA PutFile ==
  ASSUME TypeOK, NEW p \in Places, NEW n \in Names, NEW s \in Stamps, Put(p, n, s)
  PROVE  /\ files' \in [Places -> [Names -> Stamps]]
         /\ \A q \in Places, m \in Names :
              files'[q][m] = IF q = p /\ m = n THEN s ELSE files[q][m]
BY DEF TypeOK, Put, Stamps

LEMMA PlacesApart ==
  /\ Inboxes \subseteq Places
  /\ \A q \in Inboxes : q \notin {"approved", "rejected", "dapproved", "drejected"}
  /\ {"approved", "rejected", "dapproved", "drejected"} \subseteq Places
BY DEF Places, Inboxes

\* An agent writes or removes a file in an inbox.
LEMMA AgentIInv ==
  ASSUME IInv, Agent
  PROVE  IInv'
<1>1. ASSUME NEW n \in Names, NEW p \in Inboxes, Submit(p, n) \/ Withdraw(p, n)
      PROVE  IInv'
  <2>1. PICK s \in {"absent", "none"} : Put(p, n, s)
    BY <1>1 DEF Submit, Withdraw
  <2>2. /\ files' \in [Places -> [Names -> Stamps]]
        /\ \A q \in Places, m \in Names :
             files'[q][m] = IF q = p /\ m = n THEN s ELSE files[q][m]
    BY <2>1, PutFile, PlacesApart DEF IInv, Stamps
  <2>3. UNCHANGED <<job, audit, moves, watch, seen, batch, buttons, crashes>>
    BY <1>1 DEF Submit, Withdraw, watcher, bounds
  <2>4. TypeOK'
    <3>1. debounce' \subseteq Paths /\ (watch # "watching" => debounce' = {})
      BY <1>1 DEF Submit, Withdraw, Event, IInv, TypeOK, Paths, watcher
    <3>2. submits' \in 0..MaxSubmits
      BY <1>1, BoundsAreNumbers DEF Submit, Withdraw, IInv, TypeOK, bounds
    <3> QED
      BY <2>2, <2>3, <3>1, <3>2 DEF IInv, TypeOK, audit, Stamps
  <2>5. StampIsFresh'
    BY <2>2, <2>3, PlacesApart DEF IInv, StampIsFresh, TypeOK, Inboxes
  <2>6. StampAgrees'
    BY <2>2, PlacesApart DEF IInv, StampAgrees
  <2>7. JobType' /\ AuditShape'
    BY <2>3 DEF IInv, JobType, AuditShape, Reviewing, audit
  <2> QED
    BY <2>4, <2>5, <2>6, <2>7 DEF IInv
<1> QED
  BY <1>1 DEF Agent

LEMMA AskIInv ==
  ASSUME IInv, Ask
  PROVE  IInv'
<1>1. /\ UNCHANGED <<files, audit, moves, watcher, buttons, bounds>>
      /\ job = Idle
  BY DEF Ask, ByNumber, ByName, ByButton, ByDecisionList
<1>2. \E a \in Actions, n \in Names, arg \in Names :
        \/ \E by \in {"name", "number", "button"} :
             Begin(by, arg, "pending", n, a, "intent")
        \/ Begin("list", arg, "dpending", n, a, "stamp")
  BY DEF Ask, ByNumber, ByName, ByButton, ByDecisionList
<1>3. /\ JobType'
      /\ job' # Idle /\ job'.at \in {"intent", "stamp"}
      /\ job'.by \in {"name", "number", "button", "list"}
      /\ job'.from \in {"pending", "dpending"}
      /\ job'.name \in Names /\ job'.action \in Actions
      /\ job'.from = "dpending" <=> job'.at = "stamp"
  BY <1>2 DEF JobType, Begin, Stages, Idle
<1>4. TypeOK'
  BY <1>1, <1>3 DEF IInv, TypeOK, audit, watcher, bounds
<1>5. AuditShape'
  BY <1>1, <1>3 DEF IInv, AuditShape, Reviewing, audit, bounds, Idle
<1>6. StampIsFresh' /\ StampAgrees'
  BY <1>1, <1>3 DEF IInv, StampIsFresh, StampAgrees
<1> QED
  BY <1>3, <1>4, <1>5, <1>6 DEF IInv

\* The next stage of the job keeps the rest of the record.
LEMMA NextStage ==
  ASSUME JobType, NEW s \in Stages, job' = [job EXCEPT !.at = s]
  PROVE  /\ JobType'
         /\ job'.at = s /\ job'.by = job.by /\ job'.from = job.from
         /\ job'.name = job.name /\ job'.action = job.action
BY DEF JobType, Stages

LEMMA IdleJob ==
  ASSUME job' = Idle
  PROVE  JobType' /\ job'.at = "idle" /\ job'.from = "none"
BY DEF JobType, Idle, Stages

\* An entry is written or lost, and no other counter changes.
LEMMA LoggedType ==
  ASSUME TypeOK, NEW r \in Results, Logged(r)
  PROVE  /\ log' \in [Results -> Nat] /\ lost' \in [Results -> Nat]
         /\ \/ log'[r] = log[r] + 1 /\ lost'[r] = lost[r]
            \/ log'[r] = log[r] /\ lost'[r] = lost[r] + 1
         /\ \A q \in Results \ {r} : log'[q] = log[q] /\ lost'[q] = lost[q]
<1>1. CASE log' = [log EXCEPT ![r] = @ + 1] /\ UNCHANGED lost
  BY <1>1 DEF TypeOK
<1>2. CASE lost' = [lost EXCEPT ![r] = @ + 1] /\ UNCHANGED log
  BY <1>2 DEF TypeOK
<1> QED
  BY <1>1, <1>2 DEF Logged

LEMMA ResultsApart ==
  /\ Results = {"intent", "failed", "ok"}
  /\ "intent" \in Results /\ "failed" \in Results /\ "ok" \in Results
BY DEF Results

LEMMA LogIntentIInv ==
  ASSUME IInv, LogIntent
  PROVE  IInv'
<1>1. /\ JobType' /\ job.at = "intent"
      /\ job'.at = "stamp" /\ job'.by = job.by /\ job'.from = job.from
      /\ job'.name = job.name /\ job'.action = job.action
      /\ job.from = "pending" /\ job' # Idle
  BY NextStage DEF LogIntent, IInv, TypeOK, Stages, Idle
<1>2. /\ log' \in [Results -> Nat] /\ lost' \in [Results -> Nat]
      /\ \/ log'["intent"] = log["intent"] + 1 /\ lost'["intent"] = lost["intent"]
         \/ log'["intent"] = log["intent"] /\ lost'["intent"] = lost["intent"] + 1
      /\ log'["ok"] = log["ok"] /\ lost'["ok"] = lost["ok"]
      /\ log'["failed"] = log["failed"] /\ lost'["failed"] = lost["failed"]
  BY LoggedType, ResultsApart DEF LogIntent, IInv
<1>3. UNCHANGED <<files, moves, watcher, buttons, bounds>>
  BY DEF LogIntent
<1>4. TypeOK'
  BY <1>1, <1>2, <1>3 DEF IInv, TypeOK, audit, watcher, bounds
<1>5. AuditShape'
  BY <1>1, <1>2, <1>3 DEF IInv, TypeOK, AuditShape, Reviewing, Results, audit, bounds
<1>6. StampIsFresh' /\ StampAgrees'
  BY <1>1, <1>3 DEF IInv, StampIsFresh, StampAgrees
<1> QED
  BY <1>1, <1>4, <1>5, <1>6 DEF IInv

LEMMA StampIInv ==
  ASSUME IInv, Stamp
  PROVE  IInv'
<1>1. /\ JobType' /\ job.at = "stamp"
      /\ job'.at = "rename" /\ job'.by = job.by /\ job'.from = job.from
      /\ job'.name = job.name /\ job'.action = job.action
      /\ job' # Idle
  BY NextStage DEF Stamp, IInv, Stages, Idle
<1>2. /\ job.from \in Inboxes /\ job.name \in Names /\ job.action \in Stamps
      /\ job.action \in Actions
  BY <1>1 DEF IInv, TypeOK, Inboxes, Stamps
<1>3. UNCHANGED <<audit, moves, watch, seen, batch, buttons, bounds>>
  BY DEF Stamp
<1>4. /\ files' \in [Places -> [Names -> Stamps]]
      /\ files'[job.from][job.name] \in {"absent", job.action}
      /\ \A q \in Places, m \in Names :
           q # job.from => files'[q][m] = files[q][m]
  <2>1. CASE Exists(job.from, job.name)
    BY <1>2, <2>1, PutFile, PlacesApart DEF Stamp, IInv
  <2>2. CASE ~Exists(job.from, job.name)
    BY <1>2, <2>2, PlacesApart DEF Stamp, IInv, TypeOK, Exists, Stamps
  <2> QED
    BY <2>1, <2>2
<1>5. debounce' \subseteq Paths /\ (watch # "watching" => debounce' = {})
  BY <1>2 DEF Stamp, Event, IInv, TypeOK, Paths
<1>6. TypeOK'
  BY <1>1, <1>3, <1>4, <1>5 DEF IInv, TypeOK, audit, Stamps, bounds
<1>7. AuditShape'
  BY <1>1, <1>3 DEF IInv, AuditShape, Reviewing, audit, bounds
<1>8. StampIsFresh' /\ StampAgrees'
  BY <1>1, <1>2, <1>4, PlacesApart DEF IInv, StampIsFresh, StampAgrees
<1> QED
  BY <1>1, <1>6, <1>7, <1>8 DEF IInv

LEMMA RenameIInv ==
  ASSUME IInv, Rename
  PROVE  IInv'
<1> DEFINE to == Target(job.from, job.action)
<1>1. /\ job.at = "rename" /\ job # Idle
      /\ job.from \in Inboxes /\ job.from \in {"pending", "dpending"}
      /\ job.name \in Names /\ job.action \in Actions
  BY DEF Rename, IInv, TypeOK, Inboxes, Idle
<1>2. UNCHANGED <<watcher, buttons, bounds>>
  BY DEF Rename
<1>3. /\ to \in Places \ Inboxes
      /\ job.action = "rejected" => to \notin {"approved", "dapproved"}
      /\ job.action = "approved" => to \notin {"rejected", "drejected"}
  BY <1>1 DEF Target, Places, Inboxes, Actions
<1>4. /\ files' \in [Places -> [Names -> Stamps]]
      /\ \A q \in Places \ Inboxes, m \in Names :
           \/ files'[q][m] = files[q][m]
           \/ q = to /\ files'[q][m] \in {"none", job.action}
  <2>1. CASE Exists(job.from, job.name)
    <3>1. files' = [files EXCEPT ![job.from][job.name] = "absent",
                                 ![to][job.name] = files[job.from][job.name]]
      BY <2>1 DEF Rename
    <3>2. files[job.from][job.name] \in {"none", job.action}
      BY <1>1, <2>1 DEF IInv, StampIsFresh, Exists
    <3>3. job.from \in Places /\ files \in [Places -> [Names -> Stamps]]
      BY <1>1, PlacesApart DEF IInv, TypeOK, Stamps
    <3> HIDE DEF to
    <3> QED
      BY <1>1, <1>3, <3>1, <3>2, <3>3 DEF Stamps
  <2>2. CASE ~Exists(job.from, job.name)
    BY <2>2 DEF Rename, IInv, TypeOK, Stamps
  <2> QED
    BY <2>1, <2>2
<1>5. /\ JobType'
      /\ \/ job' = Idle /\ job'.at = "idle"
         \/ /\ job'.at = "result" /\ job.from = "pending" /\ job' # Idle
            /\ job'.by = job.by /\ job'.from = job.from
            /\ job'.name = job.name /\ job'.action = job.action
  <2>1. \/ job' = Idle
        \/ job' = [job EXCEPT !.at = "result"] /\ job.from = "pending"
    BY <1>1 DEF Rename
  <2>2. CASE job' = Idle
    BY <2>2, IdleJob
  <2>3. CASE job' = [job EXCEPT !.at = "result"] /\ job.from = "pending"
    <3>1. "result" \in Stages /\ JobType
      BY DEF IInv, Stages
    <3>2. /\ JobType' /\ job'.at = "result" /\ job'.by = job.by
          /\ job'.from = job.from
          /\ job'.name = job.name /\ job'.action = job.action
      BY <2>3, <3>1, NextStage
    <3> QED
      BY <2>3, <3>2 DEF Idle
  <2> QED
    BY <2>1, <2>2, <2>3
<1>6. TypeOK' /\ AuditShape'
  <2>1. CASE job.from = "dpending"
    <3>1. job' = Idle /\ UNCHANGED <<audit, moves>>
      BY <2>1 DEF Rename
    <3>2. AuditShape'
      BY <1>2, <2>1, <3>1, IdleJob DEF IInv, AuditShape, Reviewing, audit, bounds
    <3> QED
      BY <1>2, <1>4, <3>1, <3>2, IdleJob DEF IInv, TypeOK, audit, watcher, bounds, Stamps
  <2>2. CASE job.from = "pending" /\ Exists(job.from, job.name)
    <3>1. /\ job' = [job EXCEPT !.at = "result"]
          /\ moves' = moves + 1 /\ UNCHANGED audit
      BY <2>2 DEF Rename
    <3>2. job'.at = "result" /\ job'.from = "pending"
      BY <2>2, <3>1, <1>5, IdleJob, NextStage DEF IInv, Stages
    <3>3. AuditShape'
      BY <1>1, <1>2, <2>2, <3>1, <3>2
      DEF IInv, TypeOK, AuditShape, Reviewing, Results, audit, bounds
    <3> QED
      BY <1>1, <1>2, <1>4, <1>5, <3>1, <3>2, <3>3, IdleJob
      DEF IInv, TypeOK, audit, watcher, bounds, Stamps
  <2>3. CASE job.from = "pending" /\ ~Exists(job.from, job.name)
    <3>1. job' = Idle /\ Logged("failed") /\ UNCHANGED moves
      BY <2>3 DEF Rename
    <3>2. /\ log' \in [Results -> Nat] /\ lost' \in [Results -> Nat]
          /\ \/ log'["failed"] = log["failed"] + 1 /\ lost'["failed"] = lost["failed"]
             \/ log'["failed"] = log["failed"] /\ lost'["failed"] = lost["failed"] + 1
          /\ log'["ok"] = log["ok"] /\ lost'["ok"] = lost["ok"]
          /\ log'["intent"] = log["intent"] /\ lost'["intent"] = lost["intent"]
      BY <3>1, LoggedType, ResultsApart DEF IInv
    <3>3. AuditShape'
      BY <1>1, <1>2, <2>3, <3>1, <3>2, IdleJob
      DEF IInv, TypeOK, AuditShape, Reviewing, Results, audit, bounds
    <3> QED
      BY <1>2, <1>4, <3>1, <3>2, <3>3, IdleJob
      DEF IInv, TypeOK, audit, watcher, bounds, Stamps
  <2> QED
    BY <1>1, <2>1, <2>2, <2>3
<1>7. StampIsFresh'
  BY <1>5 DEF StampIsFresh
<1>8. StampAgrees'
  <2> HIDE DEF to
  <2> QED
    BY <1>1, <1>3, <1>4 DEF IInv, StampAgrees, Places, Inboxes, Actions
<1> QED
  BY <1>5, <1>6, <1>7, <1>8 DEF IInv

LEMMA LogOkIInv ==
  ASSUME IInv, LogOk
  PROVE  IInv'
<1>1. /\ job.at = "result" /\ job.from = "pending"
      /\ job' = Idle
      /\ UNCHANGED <<files, moves, watcher, buttons, bounds>>
  BY DEF LogOk, IInv, TypeOK, Idle
<1>2. /\ log' \in [Results -> Nat] /\ lost' \in [Results -> Nat]
      /\ \/ log'["ok"] = log["ok"] + 1 /\ lost'["ok"] = lost["ok"]
         \/ log'["ok"] = log["ok"] /\ lost'["ok"] = lost["ok"] + 1
      /\ log'["failed"] = log["failed"] /\ lost'["failed"] = lost["failed"]
      /\ log'["intent"] = log["intent"] /\ lost'["intent"] = lost["intent"]
  BY LoggedType, ResultsApart DEF LogOk, IInv
<1>3. TypeOK'
  BY <1>1, <1>2, IdleJob DEF IInv, TypeOK, audit, watcher, bounds
<1>4. AuditShape'
  BY <1>1, <1>2, IdleJob DEF IInv, TypeOK, AuditShape, Reviewing, Results, audit, bounds
<1>5. JobType' /\ StampIsFresh' /\ StampAgrees'
  BY <1>1, IdleJob DEF IInv, StampIsFresh, StampAgrees
<1> QED
  BY <1>3, <1>4, <1>5 DEF IInv

LEMMA WatchIInv ==
  ASSUME IInv, Watch
  PROVE  IInv'
<1>1. UNCHANGED <<files, job, audit, moves, bounds>>
  BY DEF Watch, Seed, AddWatches, TimerFires, ProcessFile
<1> DEFINE WatcherTypes ==
             /\ watch \in {"down", "seeded", "watching"}
             /\ seen \subseteq Paths
             /\ debounce \subseteq Paths /\ batch \subseteq Paths
             /\ buttons \subseteq Names
             /\ watch # "watching" => debounce = {} /\ batch = {}
<1>2. WatcherTypes'
  <2> USE DEF IInv, TypeOK
  <2>1. CASE Seed
    BY <2>1 DEF Seed
  <2>2. CASE AddWatches
    BY <2>2 DEF AddWatches
  <2>3. CASE TimerFires
    BY <2>3 DEF TimerFires
  <2>4. ASSUME NEW x \in Paths, ProcessFile(x)
        PROVE  WatcherTypes'
    BY <2>4 DEF ProcessFile, MarksSeen, Announce, Paths
  <2> QED
    BY <2>1, <2>2, <2>3, <2>4 DEF Watch
<1>3. TypeOK'
  BY <1>1, <1>2 DEF IInv, TypeOK, audit, bounds
<1>4. JobType' /\ AuditShape' /\ StampIsFresh' /\ StampAgrees'
  BY <1>1 DEF IInv, JobType, AuditShape, Reviewing, StampIsFresh, StampAgrees,
     audit, bounds
<1> QED
  BY <1>3, <1>4 DEF IInv

LEMMA CrashIInv ==
  ASSUME IInv, Crash
  PROVE  IInv'
<1>1. /\ crashes' = crashes + 1 /\ crashes' \in 0..MaxCrashes /\ job' = Idle
      /\ UNCHANGED <<files, audit, moves, buttons, submits>>
  BY BoundsAreNumbers DEF Crash, IInv, TypeOK
<1>2. TypeOK'
  BY <1>1, IdleJob DEF IInv, TypeOK, audit, Crash
<1>3. AuditShape'
  BY <1>1, IdleJob, ResultsApart DEF IInv, TypeOK, AuditShape, Reviewing, audit
<1>4. JobType' /\ StampIsFresh' /\ StampAgrees'
  BY <1>1, IdleJob DEF IInv, StampIsFresh, StampAgrees
<1> QED
  BY <1>2, <1>3, <1>4 DEF IInv

LEMMA StepIInv == IInv /\ [Next]_vars => IInv'
<1> SUFFICES ASSUME IInv, [Next]_vars
             PROVE  IInv'
  OBVIOUS
<1>1. CASE UNCHANGED vars
  BY <1>1 DEF vars, audit, watcher, bounds, IInv, TypeOK, JobType, AuditShape,
     Reviewing, StampIsFresh, StampAgrees
<1> QED
  BY <1>1, AgentIInv, AskIInv, LogIntentIInv, StampIInv, RenameIInv,
     LogOkIInv, WatchIInv, CrashIInv DEF Next, Handle

LEMMA Invariance == SafeSpec => []IInv
BY InitIInv, StepIInv, PTL DEF SafeSpec

-----------------------------------------------------------------------------
\* The state keeps its types: each stage of a request has a file name, a
\* directory and a decision, and the watcher holds paths only while it runs.
THEOREM ReviewTypes == SafeSpec => []TypeOK
BY Invariance, PTL DEF IInv

\* The audit log and the entries that could not be written bound what was
\* moved, across any number of crashes: where none was lost, the log alone
\* does.  (moveReview, LogReviewAction)
THEOREM AuditCanBeTrusted == SafeSpec => []AuditAccounts
<1>1. IInv => AuditAccounts
  BY DEF IInv, TypeOK, AuditShape, AuditAccounts, Reviewing, Results
<1> QED
  BY <1>1, Invariance, PTL

\* A file in a directory of decided files does not carry the other stamp,
\* whatever agents write under its name meanwhile.  (moveReview,
\* handleDecisionAction)
THEOREM StampsAgree == SafeSpec => []StampAgrees
BY Invariance, PTL DEF IInv
=============================================================================
