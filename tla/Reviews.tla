------------------------------ MODULE Reviews ------------------------------
(***************************************************************************)
(* Files that agents leave for the admin, and what the bot does with them. *)
(* Agents write to reviews/pending ("pending"), decisions ("decisions") or *)
(* decisions/pending ("dpending").  ReviewWatcher watches the first two    *)
(* and announces new files.  The admin approves or rejects a review by its *)
(* number, its name or part of it (moveReview), or a decision by a button  *)
(* of /decisions (handleDecisionAction).  The update loop handles one      *)
(* request at a time; agents and the watcher move meanwhile, and the       *)
(* daemon may crash and be started again.                                  *)
(*                                                                         *)
(* A file is reduced to the last admin stamp in it.  Opening a file to     *)
(* stamp it and renaming it fail when it is not there; an entry of the     *)
(* audit log may be lost to any error, which nobody is told of.  Other I/O *)
(* errors, summaries, message texts and the polling fallback are left out, *)
(* and so are messages/inbound and configured directories, which the       *)
(* watcher treats as it does reviews/pending.                              *)
(***************************************************************************)
EXTENDS Naturals, Sequences, FiniteSets

CONSTANTS Names,       \* file names
          Order,       \* Names in the order ReadDir lists them
          Contains,    \* the names that contain each name as a part
          Alike,       \* the names that differ from each in the extension
          MaxSubmits,  \* bound: files that agents write
          MaxCrashes,  \* bound: crashes of the daemon
          MaxLost      \* bound: entries of the audit log lost to errors

ASSUME OrderListsNames == \A n \in Names : \E i \in 1..Len(Order) : Order[i] = n
ASSUME BoundsAreNumbers ==
  MaxSubmits \in Nat /\ MaxCrashes \in Nat /\ MaxLost \in Nat
ASSUME ContainsItself == \A n \in Names : n \in Contains[n]

Inboxes == {"pending", "decisions", "dpending"}
Watched == {"pending", "decisions"}
Places  == Inboxes \cup {"approved", "rejected", "dapproved", "drejected"}
Actions == {"approved", "rejected"}
Target(from, action) ==
  CASE from = "pending" -> action
    [] from = "dpending" /\ action = "approved" -> "dapproved"
    [] from = "dpending" /\ action = "rejected" -> "drejected"

VARIABLES
  files,     \* the last stamp of each file, "none", or "absent"
  job,       \* what the update loop is at
  log,       \* entries of reviews/audit.log by result
  lost,      \* history: entries that could not be written
  moves,     \* history: reviews moved
  watch,     \* the review watcher
  seen,      \* its seen map
  debounce,  \* the paths of the next batch
  batch,     \* what is left of the present one
  buttons,   \* decision files whose announcement is in the chat
  submits, crashes

audit == <<log, lost>>
watcher == <<watch, seen, debounce, batch>>
bounds == <<submits, crashes>>
vars == <<files, job, audit, moves, watcher, buttons, bounds>>

Idle == [at |-> "idle", by |-> "none", arg |-> "none",
         from |-> "none", name |-> "none", action |-> "none"]
Paths == Watched \X Names
Results == {"intent", "failed", "ok"}

Exists(p, n) == files[p][n] # "absent"

\* Every stage of a request has what it needs, and the counters agree with
\* the bounds.
TypeOK ==
  /\ files \in [Places -> [Names -> {"absent", "none"} \cup Actions]]
  /\ job.at \in {"idle", "intent", "stamp", "rename", "result"}
  /\ job.at = "idle" <=> job = Idle
  /\ job.at # "idle" => /\ job.by \in {"name", "number", "button", "list"}
                        /\ job.from \in {"pending", "dpending"}
                        /\ job.name \in Names /\ job.action \in Actions
                        /\ job.from = "dpending" => job.at \in {"stamp", "rename"}
  /\ log \in [Results -> Nat] /\ lost \in [Results -> Nat]
  /\ moves \in Nat
  /\ watch \in {"down", "seeded", "watching"}
  /\ seen \subseteq Paths /\ debounce \subseteq Paths /\ batch \subseteq Paths
  /\ buttons \subseteq Names
  /\ submits \in 0..MaxSubmits /\ crashes \in 0..MaxCrashes
  /\ watch # "watching" => debounce = {} /\ batch = {}

Init ==
  /\ files = [p \in Places |-> [n \in Names |-> "absent"]]
  /\ job = Idle
  /\ log = [r \in Results |-> 0]
  /\ lost = [r \in Results |-> 0]
  /\ moves = 0
  /\ watch = "down"
  /\ seen = {} /\ debounce = {} /\ batch = {}
  /\ buttons = {}
  /\ submits = 0 /\ crashes = 0

\* fsnotify: a write or a creation in a watched directory restarts the timer.
Event(p, n) ==
  debounce' = IF watch = "watching" /\ p \in Watched
              THEN debounce \cup {<<p, n>>} ELSE debounce
Put(p, n, stamp) == files' = [files EXCEPT ![p][n] = stamp]

-----------------------------------------------------------------------------
(* Agents.                                                                 *)

Submit(p, n) ==
  /\ submits < MaxSubmits
  /\ submits' = submits + 1
  /\ Put(p, n, "none")
  /\ Event(p, n)
  /\ UNCHANGED <<job, audit, moves, watch, seen, batch, buttons, crashes>>

Withdraw(p, n) ==
  /\ Exists(p, n)
  /\ Put(p, n, "absent")
  /\ UNCHANGED <<job, audit, moves, watcher, buttons, bounds>>

-----------------------------------------------------------------------------
(* The update loop: moveReview and handleDecisionAction.                   *)

\* n is the i-th review of the list: it exists, with i - 1 before it.
Listed(i, n) ==
  \E k \in 1..Len(Order) :
    /\ n = Order[k] /\ Exists("pending", n)
    /\ i = Cardinality({j \in 1..k : Exists("pending", Order[j])})

Begin(by, arg, from, name, action, at) ==
  job' = [at |-> at, by |-> by, arg |-> arg, from |-> from,
          name |-> name, action |-> action]

PartMatch(arg, n) ==  \* the first listed name that contains arg
  LET Match(m) == Exists("pending", m) /\ m \in Contains[arg]
  IN \E k \in 1..Len(Order) :
       /\ n = Order[k] /\ Match(n)
       /\ \A j \in 1..(k - 1) : ~Match(Order[j])

\* resolveReviewFile: the exact name, or else the first that contains it.
Resolves(arg, n) ==
  IF Exists("pending", arg) THEN n = arg ELSE PartMatch(arg, n)

\* /approve or /reject with a number of the list as it is now.
ByNumber(i, action) ==
  /\ job = Idle
  /\ \E n \in Names : /\ Listed(i, n)
                      /\ Begin("number", n, "pending", n, action, "intent")
  /\ UNCHANGED <<files, audit, moves, watcher, buttons, bounds>>

ByName(arg, action) ==
  /\ job = Idle
  /\ \E n \in Names : /\ Resolves(arg, n)
                      /\ Begin("name", arg, "pending", n, action, "intent")
  /\ UNCHANGED <<files, audit, moves, watcher, buttons, bounds>>

\* A button of an announced decision carries review_approve or review_reject.
ByButton(arg, action) ==
  /\ job = Idle
  /\ arg \in buttons
  /\ \E n \in Names : /\ Resolves(arg, n)
                      /\ Begin("button", arg, "pending", n, action, "intent")
  /\ UNCHANGED <<files, audit, moves, watcher, buttons, bounds>>

\* The first file listed whose name is that of the button, whatever its
\* extension.
FirstAlike(arg, n) ==
  LET Match(m) == Exists("dpending", m) /\ m \in Alike[arg]
  IN \E k \in 1..Len(Order) :
       /\ n = Order[k] /\ Match(n)
       /\ \A j \in 1..(k - 1) : ~Match(Order[j])

\* mutant: a decision goes through the steps of a review
ByDecisionListLogged(arg, action) ==
  /\ job = Idle
  /\ \E n \in Names : /\ FirstAlike(arg, n)
                      /\ Begin("list", arg, "dpending", n, action, "intent")
  /\ UNCHANGED <<files, audit, moves, watcher, buttons, bounds>>

\* A button of /decisions, perhaps of an old list.
ByDecisionList(arg, action) ==
  /\ job = Idle
  /\ \E n \in Names : /\ FirstAlike(arg, n)
                      /\ Begin("list", arg, "dpending", n, action, "stamp")
  /\ UNCHANGED <<files, audit, moves, watcher, buttons, bounds>>

\* LogReviewAction returns without a word when it cannot make the directory,
\* open the file or write the line, and its caller goes on.
Logged(r) ==
  \/ log' = [log EXCEPT ![r] = @ + 1] /\ UNCHANGED lost
  \/ /\ lost["intent"] + lost["failed"] + lost["ok"] < MaxLost
     /\ lost' = [lost EXCEPT ![r] = @ + 1]
     /\ UNCHANGED log

LogIntentLate ==  \* mutant: nothing is logged before the move
  /\ job.at = "intent"
  /\ job' = [job EXCEPT !.at = "stamp"]
  /\ UNCHANGED <<files, audit, moves, watcher, buttons, bounds>>

LogIntent ==
  /\ job.at = "intent"
  /\ Logged("intent")
  /\ job' = [job EXCEPT !.at = "stamp"]
  /\ UNCHANGED <<files, moves, watcher, buttons, bounds>>

StampOnce ==  \* mutant: a file that already has a stamp keeps it
  /\ job.at = "stamp"
  /\ IF files[job.from][job.name] = "none"
     THEN /\ Put(job.from, job.name, job.action)
          /\ Event(job.from, job.name)
     ELSE UNCHANGED <<files, debounce>>
  /\ job' = [job EXCEPT !.at = "rename"]
  /\ UNCHANGED <<audit, moves, watch, seen, batch, buttons, bounds>>

\* The stamp is appended to whatever file has the name now.
Stamp ==
  /\ job.at = "stamp"
  /\ IF Exists(job.from, job.name)
     THEN /\ Put(job.from, job.name, job.action)
          /\ Event(job.from, job.name)
     ELSE UNCHANGED <<files, debounce>>
  /\ job' = [job EXCEPT !.at = "rename"]
  /\ UNCHANGED <<audit, moves, watch, seen, batch, buttons, bounds>>

\* A rename replaces a file of the same name decided earlier.
Rename ==
  /\ job.at = "rename"
  /\ LET to == Target(job.from, job.action)
     IN IF Exists(job.from, job.name)
        THEN files' = [files EXCEPT ![job.from][job.name] = "absent",
                                    ![to][job.name] = files[job.from][job.name]]
        ELSE UNCHANGED files
  /\ IF job.from = "dpending"
     THEN job' = Idle /\ UNCHANGED <<audit, moves>>
     ELSE IF Exists(job.from, job.name)
     THEN job' = [job EXCEPT !.at = "result"] /\ moves' = moves + 1 /\ UNCHANGED audit
     ELSE job' = Idle /\ Logged("failed") /\ UNCHANGED moves
  /\ UNCHANGED <<watcher, buttons, bounds>>

LogOk ==
  /\ job.at = "result"
  /\ Logged("ok")
  /\ job' = Idle
  /\ UNCHANGED <<files, moves, watcher, buttons, bounds>>

-----------------------------------------------------------------------------
(* The review watcher.                                                     *)

Seed ==
  /\ watch = "down"
  /\ watch' = "seeded"
  /\ seen' = {x \in Paths : Exists(x[1], x[2])}
  /\ UNCHANGED <<files, job, audit, moves, debounce, batch, buttons, bounds>>

\* Files that came since the seeding raise no event.
AddWatches ==
  /\ watch = "seeded"
  /\ watch' = "watching"
  /\ UNCHANGED <<files, job, audit, moves, seen, debounce, batch, buttons, bounds>>

TimerFiresFirst ==  \* mutant: one path of the batch, the others are dropped
  /\ debounce # {} /\ batch = {}
  /\ \E x \in debounce : batch' = {x}
  /\ debounce' = {}
  /\ UNCHANGED <<files, job, audit, moves, watch, seen, buttons, bounds>>

\* 500 ms without an event; the loop does not read events during a batch.
TimerFires ==
  /\ debounce # {} /\ batch = {}
  /\ batch' = debounce
  /\ debounce' = {}
  /\ UNCHANGED <<files, job, audit, moves, watch, seen, buttons, bounds>>

\* SendReviewNotification, with buttons under a decision.
Announce(x) ==
  buttons' = IF x[1] = "decisions" THEN buttons \cup {x[2]} ELSE buttons

MarksSeen(x) == seen' = seen \cup {x}

\* A path is marked before its file is looked at: one that has gone is not
\* announced, nor a later one of the same name.
ProcessFile(x) ==
  /\ x \in batch
  /\ batch' = batch \ {x}
  /\ IF x \in seen THEN UNCHANGED <<seen, buttons>>
     ELSE /\ MarksSeen(x)
          /\ IF Exists(x[1], x[2]) THEN Announce(x) ELSE UNCHANGED buttons
  /\ UNCHANGED <<files, job, audit, moves, watch, debounce, bounds>>

\* The daemon dies between any two steps; messages stay in the chat.
Crash ==
  /\ crashes < MaxCrashes
  /\ crashes' = crashes + 1
  /\ job' = Idle
  /\ watch' = "down"
  /\ seen' = {} /\ debounce' = {} /\ batch' = {}
  /\ UNCHANGED <<files, audit, moves, buttons, submits>>

Agent == \E n \in Names, p \in Inboxes : Submit(p, n) \/ Withdraw(p, n)
Ask   == \E a \in Actions :
           \/ \E i \in 1..Len(Order) : ByNumber(i, a)
           \/ \E n \in Names : ByName(n, a) \/ ByButton(n, a) \/ ByDecisionList(n, a)
Handle == LogIntent \/ Stamp \/ Rename \/ LogOk
Watch  == Seed \/ AddWatches \/ TimerFires \/ \E x \in Paths : ProcessFile(x)

Next == Agent \/ Ask \/ Handle \/ Watch \/ Crash

SafeSpec == Init /\ [][Next]_vars

(* Handlers and the watcher's loop run.  The timer expires because agents  *)
(* do not write every half second for ever.                                *)
Spec == SafeSpec /\ WF_vars(Handle) /\ WF_vars(Watch)

-----------------------------------------------------------------------------
\* What reviews/audit.log can be trusted for across crashes and lost
\* entries: a move without an intent before it is one whose intent was
\* lost, no "ok" is written without a move, and an intent without a result
\* is one in progress, one that crashed or one whose result was lost.
AuditAccounts ==
  /\ log["ok"] <= moves
  /\ moves + log["failed"] <= log["intent"] + lost["intent"]
  /\ log["intent"] <= log["ok"] + log["failed"] + crashes
                      + lost["ok"] + lost["failed"]
                      + (IF job.at \in {"stamp", "rename", "result"} THEN 1 ELSE 0)

\* A decided file is not found in one directory with the stamp of the other,
\* whatever was interrupted, decided again or rewritten before.
StampAgrees ==
  \A n \in Names :
    /\ files["approved"][n] # "rejected" /\ files["dapproved"][n] # "rejected"
    /\ files["rejected"][n] # "approved" /\ files["drejected"][n] # "approved"

\* A path the watcher has heard of is dealt with, unless the daemon stops.
EventsAreHeard ==
  \A x \in Paths : x \in debounce ~> x \in seen \/ watch = "down"
=============================================================================
