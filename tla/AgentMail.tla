----------------------------- MODULE AgentMail -----------------------------
(***************************************************************************)
(* Messages from agents to the admins and replies to them.  An agent runs  *)
(* "same-telegram message", which writes <agent>-<second>.json to          *)
(* messages/outbound.  The daemon's Watcher scans that directory, sends    *)
(* each message to every allowed user and archives the file.  The update   *)
(* loop turns a user's reply to such a message into reply-<second>.json in *)
(* messages/inbound.  The reply tracker that connects the two is kept in   *)
(* memory, so a crash of the daemon loses it.                              *)
(*                                                                         *)
(* A message is a number; its file is written in two steps, and is no JSON *)
(* before the second.  Telegram's ids of messages are those of the order   *)
(* of sending.  One agent writes one message at a time.                    *)
(***************************************************************************)
EXTENDS Naturals, Sequences, FiniteSets

CONSTANTS Agents, Users,
          MaxMessages,  \* bound: messages written
          MaxTime,      \* bound: seconds of the clock
          MaxReplies,   \* bound: replies that reach the update loop
          MaxFaults     \* bound: crashes, lost answers and failed archivings

ASSUME BoundsAreNumbers == /\ {MaxMessages, MaxReplies, MaxFaults} \subseteq Nat
                           /\ MaxTime \in Nat \ {0}
ASSUME AgentsAndUsers == Agents # {} /\ Users # {}

Seconds  == 1..MaxTime
Names    == Agents \X Seconds       \* file names in messages/outbound
Messages == 1..MaxMessages
NoName   == <<"none", 0>>

VARIABLES
  now,       \* the second
  written,   \* history: the file name of each message written so far
  whole,     \* messages whose file has all its bytes
  writing,   \* the message each agent is at, or 0
  outbox,    \* the message in each file of messages/outbound, or 0
  w,         \* the Watcher
  chat,      \* messages shown in Telegram
  tracker,   \* replyTracker.pending: the file name behind a shown message
  answers,   \* history: replies written
  inbox,     \* the reply in each file of messages/inbound, or 0
  offered,   \* history: users for whom a message's sending has ended
  asked, lost, crashes,
  unmoved    \* history: files that ArchiveMessage could not move

agentVars == <<written, whole, writing>>
replyVars == <<answers, inbox, asked>>
vars == <<now, agentVars, outbox, w, chat, tracker, replyVars, offered, lost, crashes, unmoved>>

Asleep == [at |-> "idle", todo |-> {}, name |-> NoName, msg |-> 0,
           left |-> {}, user |-> "none", try |-> 1, id |-> 0]

MoreFaults == lost + crashes + unmoved < MaxFaults

\* A stage of the watcher has what it needs, a file
\* holds a message that was written to it, and what is tracked was shown.
TypeOK ==
  /\ now \in Seconds
  /\ written \in Seq(Names) /\ Len(written) <= MaxMessages
  /\ whole \subseteq 1..Len(written)
  /\ \A a \in Agents : writing[a] \in (0..Len(written)) \ whole
  /\ \A n \in Names : outbox[n] # 0 => outbox[n] \in 1..Len(written)
                                       /\ written[outbox[n]] = n
  /\ w.at \in {"idle", "next", "send", "track", "bad"}
  /\ w.at = "idle" => w = Asleep
  /\ w.todo \subseteq Names /\ w.left \subseteq Users /\ w.try \in 1..2
  /\ w.at \in {"send", "track"} => w.msg \in whole /\ written[w.msg] = w.name
  /\ w.at = "track" => w.id \in 1..Len(chat)
  /\ \A i \in 1..Len(chat) : chat[i].user \in Users /\ chat[i].msg \in whole
  /\ DOMAIN tracker \subseteq 1..Len(chat)
  /\ Len(answers) <= MaxReplies /\ asked \in 0..MaxReplies
  /\ \A s \in Seconds : inbox[s] \in 0..Len(answers)
  /\ lost \in Nat /\ crashes \in Nat /\ unmoved \in Nat
  /\ lost + crashes + unmoved <= MaxFaults

Init ==
  /\ now = 1
  /\ written = <<>> /\ whole = {}
  /\ writing = [a \in Agents |-> 0]
  /\ outbox = [n \in Names |-> 0]
  /\ w = Asleep
  /\ chat = <<>>
  /\ tracker = <<>>
  /\ answers = <<>>
  /\ inbox = [s \in Seconds |-> 0]
  /\ offered = {}
  /\ asked = 0 /\ lost = 0 /\ crashes = 0 /\ unmoved = 0

Tick ==
  /\ now < MaxTime
  /\ now' = now + 1
  /\ UNCHANGED <<agentVars, outbox, w, chat, tracker, replyVars, offered, lost, crashes, unmoved>>

-----------------------------------------------------------------------------
(* An agent: WriteMessage.                                                 *)

\* The file is created, or truncated when the agent wrote in this second.
Create(a) ==
  /\ writing[a] = 0
  /\ Len(written) < MaxMessages
  /\ written' = Append(written, <<a, now>>)
  /\ writing' = [writing EXCEPT ![a] = Len(written')]
  /\ outbox' = [outbox EXCEPT ![<<a, now>>] = Len(written')]
  /\ UNCHANGED <<now, whole, w, chat, tracker, replyVars, offered, lost, crashes, unmoved>>

\* The bytes follow, into the archived file if it has been archived.
Fill(a) ==
  /\ writing[a] # 0
  /\ whole' = whole \cup {writing[a]}
  /\ writing' = [writing EXCEPT ![a] = 0]
  /\ UNCHANGED <<now, written, outbox, w, chat, tracker, replyVars, offered, lost, crashes, unmoved>>

\* The disk is full or the command is killed: the file stays half written.
Abandon(a) ==
  /\ writing[a] # 0
  /\ writing' = [writing EXCEPT ![a] = 0]
  /\ UNCHANGED <<now, written, whole, outbox, w, chat, tracker, replyVars, offered, lost, crashes, unmoved>>

-----------------------------------------------------------------------------
(* The Watcher: scanOnce, SendAgentMessage, ArchiveMessage.                *)

Present == {n \in Names : outbox[n] # 0}

Scan ==
  /\ w.at = "idle" /\ Present # {}
  /\ w' = [w EXCEPT !.at = "next", !.todo = Present]
  /\ UNCHANGED <<now, agentVars, outbox, chat, tracker, replyVars, offered, lost, crashes, unmoved>>

ScanEnds ==
  /\ w.at = "next" /\ w.todo = {}
  /\ w' = Asleep
  /\ UNCHANGED <<now, agentVars, outbox, chat, tracker, replyVars, offered, lost, crashes, unmoved>>

Take(n) == [w EXCEPT !.todo = @ \ {n}, !.name = n]

ReadGoodArchives(n) ==  \* mutant: archived before it is sent
  /\ w.at = "next" /\ n \in w.todo
  /\ outbox[n] \in whole
  /\ w' = [Take(n) EXCEPT !.at = "send", !.msg = outbox[n], !.left = Users]
  /\ outbox' = [outbox EXCEPT ![n] = 0]
  /\ UNCHANGED <<now, agentVars, chat, tracker, replyVars, offered, lost, crashes, unmoved>>

ReadGoodUnparsed(n) ==  \* mutant: the error of ReadMessage is ignored
  /\ w.at = "next" /\ n \in w.todo
  /\ outbox[n] # 0
  /\ w' = [Take(n) EXCEPT !.at = "send", !.msg = outbox[n], !.left = Users]
  /\ UNCHANGED <<now, agentVars, outbox, chat, tracker, replyVars, offered, lost, crashes, unmoved>>

ReadGood(n) ==
  /\ w.at = "next" /\ n \in w.todo
  /\ outbox[n] \in whole
  /\ w' = [Take(n) EXCEPT !.at = "send", !.msg = outbox[n], !.left = Users]
  /\ UNCHANGED <<now, agentVars, outbox, chat, tracker, replyVars, offered, lost, crashes, unmoved>>

ReadBadSkips(n) ==  \* mutant: a bad file stays
  /\ w.at = "next" /\ n \in w.todo
  /\ outbox[n] \notin whole
  /\ w' = Take(n)
  /\ UNCHANGED <<now, agentVars, outbox, chat, tracker, replyVars, offered, lost, crashes, unmoved>>

\* No JSON, or no such file any more.
ReadBad(n) ==
  /\ w.at = "next" /\ n \in w.todo
  /\ outbox[n] \notin whole
  /\ w' = [Take(n) EXCEPT !.at = "bad", !.msg = 0]
  /\ UNCHANGED <<now, agentVars, outbox, chat, tracker, replyVars, offered, lost, crashes, unmoved>>

\* The send to the user of the moment: the one begun, or any that is left.
Turn(u) == w.at = "send" /\ u \in (IF w.try = 2 THEN {w.user} ELSE w.left)
Shown(u) == chat' = Append(chat, [user |-> u, msg |-> w.msg])

SendOkTwice(u) ==  \* mutant: the next user is not taken off the list
  /\ Turn(u) /\ Shown(u)
  /\ w' = [w EXCEPT !.at = "track", !.user = u, !.try = 1, !.id = Len(chat')]
  /\ offered' = offered \cup {<<w.msg, u>>}
  /\ UNCHANGED <<now, agentVars, outbox, tracker, replyVars, lost, crashes, unmoved>>

SendOk(u) ==
  /\ Turn(u) /\ Shown(u)
  /\ w' = [w EXCEPT !.at = "track", !.user = u, !.try = 1, !.left = @ \ {u}, !.id = Len(chat')]
  /\ offered' = offered \cup {<<w.msg, u>>}
  /\ UNCHANGED <<now, agentVars, outbox, tracker, replyVars, lost, crashes, unmoved>>

\* After an error the message is sent once more as plain text, then no more.
AfterError(u) ==
  IF w.try = 1
  THEN /\ w' = [w EXCEPT !.try = 2, !.user = u]
       /\ UNCHANGED offered
  ELSE /\ w' = [w EXCEPT !.try = 1, !.user = "none", !.left = @ \ {u}]
       /\ offered' = offered \cup {<<w.msg, u>>}

SendFails(u) ==
  /\ Turn(u)
  /\ AfterError(u)
  /\ UNCHANGED <<now, agentVars, outbox, chat, tracker, replyVars, lost, crashes, unmoved>>

\* Telegram shows the message, but its answer does not arrive.
AnswerLost(u) ==
  /\ Turn(u) /\ MoreFaults
  /\ lost' = lost + 1
  /\ Shown(u)
  /\ AfterError(u)
  /\ UNCHANGED <<now, agentVars, outbox, tracker, replyVars, crashes, unmoved>>

Put(f, k, v) == [x \in DOMAIN f \cup {k} |-> IF x = k THEN v ELSE f[x]]
Without(f, k) == [x \in DOMAIN f \ {k} |-> f[x]]

Track ==
  /\ w.at = "track"
  /\ tracker' = Put(tracker, w.id, w.name)
  /\ w' = [w EXCEPT !.at = "send", !.user = "none", !.id = 0]
  /\ UNCHANGED <<now, agentVars, outbox, chat, replyVars, offered, lost, crashes, unmoved>>

\* The end with a file: sent to everyone, or bad.
Done == w.at = "bad" \/ (w.at = "send" /\ w.left = {})
Proceed == w' = [w EXCEPT !.at = "next", !.name = NoName, !.msg = 0]

\* Whatever file has the name now is moved.
Archive ==
  /\ Done /\ Proceed
  /\ outbox' = [outbox EXCEPT ![w.name] = 0]
  /\ UNCHANGED <<now, agentVars, chat, tracker, replyVars, offered, lost, crashes, unmoved>>

\* The error is only logged, so the next scan finds the file once more.
ArchiveFails ==
  /\ Done /\ Proceed
  /\ MoreFaults
  /\ unmoved' = unmoved + 1
  /\ UNCHANGED <<now, agentVars, outbox, chat, tracker, replyVars, offered, lost, crashes>>

-----------------------------------------------------------------------------
(* The update loop: HandleReply.  Pop and WriteReply are one step: nothing *)
(* else looks at a popped entry, and a crash between them leaves what a    *)
(* failed write and a crash leave.  A reply to a message that is not       *)
(* tracked changes nothing here: it is handled as any other text.          *)

Ask == asked < MaxReplies /\ asked' = asked + 1

Pop(i) == tracker' = Without(tracker, i)

ReplyAs(i, name) ==
  /\ answers' = Append(answers, [id |-> i, name |-> name])
  /\ inbox' = [inbox EXCEPT ![now] = Len(answers')]

\* mutant: the reply is taken for the message the Watcher is at
ReplyToLatest(i) ==
  /\ Ask
  /\ i \in DOMAIN tracker
  /\ Pop(i)
  /\ ReplyAs(i, IF w.name # NoName THEN w.name ELSE tracker[i])
  /\ UNCHANGED <<now, agentVars, outbox, w, chat, offered, lost, crashes, unmoved>>

Reply(i) ==
  /\ Ask
  /\ i \in DOMAIN tracker
  /\ Pop(i)
  /\ ReplyAs(i, tracker[i])
  /\ UNCHANGED <<now, agentVars, outbox, w, chat, offered, lost, crashes, unmoved>>

\* The user is told, but the entry is gone: a second attempt is unknown.
ReplyUnsaved(i) ==
  /\ Ask
  /\ i \in DOMAIN tracker
  /\ Pop(i)
  /\ UNCHANGED <<now, agentVars, outbox, w, chat, answers, inbox, offered, lost, crashes, unmoved>>

-----------------------------------------------------------------------------
Crash ==
  /\ MoreFaults
  /\ crashes' = crashes + 1
  /\ w' = Asleep
  /\ tracker' = <<>>
  /\ UNCHANGED <<now, agentVars, outbox, chat, answers, inbox, asked, offered, lost, unmoved>>

Agent == \E a \in Agents : Create(a) \/ Fill(a) \/ Abandon(a)
Watch ==
  \/ Scan \/ ScanEnds \/ Track \/ Archive \/ ArchiveFails
  \/ \E n \in Names : ReadGood(n) \/ ReadBad(n)
  \/ \E u \in Users : SendOk(u) \/ SendFails(u) \/ AnswerLost(u)
Loop == \E i \in DOMAIN tracker : Reply(i) \/ ReplyUnsaved(i)

Next == Tick \/ Agent \/ Watch \/ Loop \/ Crash

\* The Watcher's ticker fires and every call to Telegram returns.  The bound
\* on faults means that archiving does not fail for ever.
Spec == Init /\ [][Next]_vars /\ WF_vars(Watch)

-----------------------------------------------------------------------------
\* A user sees a message once, and once more at most for each crash, for
\* each answer of Telegram that was lost and for each time its file could
\* not be moved away.
CopiesBounded ==
  \A m \in Messages, u \in Users :
    Cardinality({i \in 1..Len(chat) : chat[i] = [user |-> u, msg |-> m]})
      <= 1 + crashes + lost + unmoved

\* A reply names the file of the message that the user replied to, though
\* the Watcher goes on with other messages meanwhile.
ReplyNamesItsMessage ==
  \A i \in 1..Len(answers) : answers[i].name = written[chat[answers[i].id].msg]

\* A message that was complete before a scan, in a file no agent can write
\* any more, is offered to every user, whatever crashes or is sent again.
ReachesEveryone ==
  \A m \in Messages :
    /\ m \in whole /\ outbox[written[m]] = m
    /\ w.at = "idle" /\ now > written[m][2]
    ~> \A u \in Users : <<m, u>> \in offered

\* "Move bad files so they don't block the queue" (watcher.go:73): every
\* file leaves the outbox, the half-written ones too, once archiving works.
OutboxDrains ==
  \A n \in Names : outbox[n] # 0 ~> outbox[n] = 0
=============================================================================
