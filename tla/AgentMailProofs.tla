-------------------------- MODULE AgentMailProofs --------------------------
(***************************************************************************)
(* Proofs about AgentMail for every set of agents and users and every      *)
(* number of messages, replies, seconds and faults.                        *)
(***************************************************************************)
EXTENDS AgentMail, FiniteSetTheorems, TLAPS

Stages == {"idle", "next", "send", "track", "bad"}
Watcher == [at : Stages, todo : SUBSET Names, name : Names \cup {NoName},
            msg : Nat, left : SUBSET Users, user : Users \cup {"none"},
            try : {1, 2}, id : Nat]
Sighting == [user : Users, msg : Nat]
Answer == [id : Nat, name : Names]

\* The sequences, functions and records behind TypeOK.
Shapes ==
  /\ writing \in [Agents -> Nat]
  /\ outbox \in [Names -> Nat]
  /\ w \in Watcher
  /\ chat \in Seq(Sighting)
  /\ tracker \in [DOMAIN tracker -> Names]
  /\ answers \in Seq(Answer) /\ Len(answers) <= asked
  /\ inbox \in [Seconds -> Nat]

\* The message an agent is at is its own.
OwnMessages == \A a \in Agents : writing[a] # 0 => written[writing[a]][1] = a

\* What is behind a shown message is what the Watcher was sending.
Tracking ==
  /\ w.at = "track" => chat[w.id].msg = w.msg
  /\ \A i \in DOMAIN tracker : tracker[i] = written[chat[i].msg]
  /\ \A i \in 1..Len(answers) : answers[i].id \in 1..Len(chat)

\* A second try is to a user who is still to be served.
Retrying ==
  /\ w.try = 2 => w.at = "send" /\ w.user \in w.left
  /\ w.at = "bad" => w.name \in Names

\* The copies of a message a user sees, and whether the present life of
\* the daemon is still to send one without a new fault.
Copies(m, u) == {i \in 1..Len(chat) : chat[i] = [user |-> u, msg |-> m]}
Owed(m, u) ==
  IF w.at \in {"send", "track"} /\ w.msg = m
  THEN u \in w.left
  ELSE outbox[written[m]] = m

CopiesCounted ==
  \A m \in 1..Len(written), u \in Users :
    Cardinality(Copies(m, u)) <= crashes + lost + unmoved + (IF Owed(m, u) THEN 0 ELSE 1)

TInv == TypeOK /\ Shapes /\ OwnMessages /\ Tracking /\ Retrying /\ ReplyNamesItsMessage
IInv == TInv /\ CopiesCounted
-----------------------------------------------------------------------------
LEMMA AppendFacts ==
  ASSUME NEW S, NEW s \in Seq(S), NEW e \in S
  PROVE  /\ Append(s, e) \in Seq(S)
         /\ Len(Append(s, e)) = Len(s) + 1
         /\ Append(s, e)[Len(s) + 1] = e
         /\ \A i \in 1..Len(s) : Append(s, e)[i] = s[i]
OBVIOUS

LEMMA NoNameIsNoName == NoName \notin Names
BY DEF NoName, Names, Seconds

LEMMA InitTInv == Init => TInv
<1> SUFFICES ASSUME Init
             PROVE  TInv
  OBVIOUS
<1>1. TypeOK
  BY BoundsAreNumbers DEF Init, TypeOK, Asleep, Seconds
<1>2. Shapes
  BY DEF Init, Shapes, Watcher, Stages, Asleep
<1>3. OwnMessages /\ Tracking /\ Retrying /\ ReplyNamesItsMessage
  BY DEF Init, OwnMessages, Tracking, Retrying, ReplyNamesItsMessage, Asleep
<1> QED
  BY <1>1, <1>2, <1>3 DEF TInv

\* A message that is written keeps its file name.
LEMMA CreateTInv ==
  ASSUME TInv, NEW a \in Agents, Create(a)
  PROVE  TInv'
<1> DEFINE n == <<a, now>>
<1>1. n \in Names /\ now \in Seconds
  BY DEF TInv, TypeOK, Names
<1>2. /\ written' = Append(written, n)
      /\ writing[a] = 0 /\ Len(written) < MaxMessages
      /\ UNCHANGED <<now, whole, w, chat, tracker, replyVars, offered, lost, crashes, unmoved>>
  BY DEF Create
<1>3. /\ written' \in Seq(Names) /\ Len(written') = Len(written) + 1
      /\ written'[Len(written')] = n
      /\ \A i \in 1..Len(written) : written'[i] = written[i]
      /\ Len(written) \in Nat
  BY <1>1, <1>2, AppendFacts DEF TInv, TypeOK
<1>4. /\ writing' = [writing EXCEPT ![a] = Len(written')]
      /\ outbox' = [outbox EXCEPT ![n] = Len(written')]
  BY DEF Create
<1> HIDE DEF n
<1>5. Shapes'
  BY <1>1, <1>2, <1>3, <1>4 DEF TInv, Shapes, replyVars
<1>6. TypeOK'
  <2> USE DEF TInv, TypeOK
  <2>1. written' \in Seq(Names) /\ Len(written') <= MaxMessages
    BY <1>2, <1>3, BoundsAreNumbers
  <2>2. whole' \subseteq 1..Len(written')
    BY <1>2, <1>3
  <2>3. \A b \in Agents : writing'[b] \in (0..Len(written')) \ whole'
    BY <1>2, <1>3, <1>4 DEF Shapes
  <2>4. \A m \in Names : outbox'[m] # 0 => outbox'[m] \in 1..Len(written')
                                           /\ written'[outbox'[m]] = m
    <3> SUFFICES ASSUME NEW m \in Names, outbox'[m] # 0
                 PROVE  outbox'[m] \in 1..Len(written') /\ written'[outbox'[m]] = m
      OBVIOUS
    <3>1. CASE m = n
      BY <1>1, <1>3, <1>4, <3>1 DEF Shapes
    <3>2. CASE m # n
      <4>1. outbox'[m] = outbox[m]
        BY <1>1, <1>4, <3>2 DEF Shapes
      <4> QED
        BY <1>3, <4>1
    <3> QED
      BY <3>1, <3>2
  <2>5. w.at \in {"send", "track"} => w.msg \in whole /\ written'[w.msg] = w.name
    BY <1>3
  <2> QED
    BY <1>2, <2>1, <2>2, <2>3, <2>4, <2>5 DEF replyVars
<1>7. OwnMessages'
  <2>1. n[1] = a
    BY DEF n
  <2> SUFFICES ASSUME NEW b \in Agents, writing'[b] # 0
               PROVE  written'[writing'[b]][1] = b
    BY DEF OwnMessages
  <2>2. CASE b = a
    BY <1>3, <1>4, <2>1, <2>2 DEF TInv, Shapes
  <2>3. CASE b # a
    <3>1. writing'[b] = writing[b] /\ writing[b] \in 1..Len(written)
      BY <1>3, <1>4, <2>3 DEF TInv, Shapes, TypeOK
    <3> QED
      BY <1>3, <3>1 DEF TInv, OwnMessages
  <2> QED
    BY <2>2, <2>3
<1>8. Tracking' /\ Retrying' /\ ReplyNamesItsMessage'
  <2>1. \A i \in 1..Len(chat) : written'[chat[i].msg] = written[chat[i].msg]
    BY <1>3 DEF TInv, TypeOK
  <2>2. UNCHANGED <<w, chat, tracker, answers>> /\ DOMAIN tracker \subseteq 1..Len(chat)
    BY <1>2 DEF TInv, TypeOK, replyVars
  <2> QED
    BY <2>1, <2>2 DEF TInv, Tracking, Retrying, ReplyNamesItsMessage
<1> QED
  BY <1>5, <1>6, <1>7, <1>8 DEF TInv

LEMMA FillTInv ==
  ASSUME TInv, NEW a \in Agents, Fill(a) \/ Abandon(a)
  PROVE  TInv'
<1> USE DEF TInv
<1>1. /\ UNCHANGED <<now, written, outbox, w, chat, tracker, replyVars, offered,
                     lost, crashes, unmoved>>
      /\ writing' = [writing EXCEPT ![a] = 0]
      /\ whole' \in {whole, whole \cup {writing[a]}}
      /\ writing[a] # 0
  BY DEF Fill, Abandon
<1>2. TypeOK'
  <2>1. \A b \in Agents : b # a /\ writing[b] # 0 => writing[b] # writing[a]
    BY <1>1 DEF OwnMessages
  <2>2. whole' \subseteq 1..Len(written)
    <3>1. /\ whole \subseteq 1..Len(written) /\ writing[a] \in 0..Len(written)
          /\ Len(written) \in Nat
      BY DEF TypeOK
    <3>2. writing[a] \in 1..Len(written)
      BY <1>1, <3>1
    <3> QED
      BY <1>1, <3>1, <3>2
  <2>3. \A b \in Agents : writing'[b] \in (0..Len(written)) \ whole'
    BY <1>1, <2>1 DEF TypeOK, Shapes
  <2> QED
    BY <1>1, <2>2, <2>3 DEF TypeOK, replyVars
<1>3. Shapes' /\ OwnMessages' /\ Tracking' /\ Retrying' /\ ReplyNamesItsMessage'
  BY <1>1 DEF Shapes, OwnMessages, Tracking, Retrying, ReplyNamesItsMessage, replyVars
<1> QED
  BY <1>2, <1>3

-----------------------------------------------------------------------------
(* The Watcher.                                                            *)

\* What TInv asks of the Watcher alone.
WatcherFits ==
  /\ w \in Watcher
  /\ w.at = "idle" => w = Asleep
  /\ w.at \in {"send", "track"} => w.msg \in whole /\ written[w.msg] = w.name
  /\ w.at = "track" => w.id \in 1..Len(chat) /\ chat[w.id].msg = w.msg
  /\ Retrying

LEMMA WatcherTypes ==
  \A v \in Watcher : /\ v.at \in {"idle", "next", "send", "track", "bad"}
                      /\ v.todo \subseteq Names /\ v.left \subseteq Users
                      /\ v.try \in 1..2 /\ v.msg \in Nat
BY DEF Watcher, Stages

LEMMA WatcherOnly ==
  ASSUME TInv, WatcherFits',
         UNCHANGED <<now, agentVars, outbox, chat, tracker, replyVars, lost, crashes, unmoved>>
  PROVE  TInv'
<1>1. TypeOK'
  BY WatcherTypes DEF TInv, TypeOK, WatcherFits, agentVars, replyVars
<1>2. Shapes' /\ OwnMessages' /\ Tracking' /\ Retrying' /\ ReplyNamesItsMessage'
  BY DEF TInv, Shapes, OwnMessages, Tracking, ReplyNamesItsMessage, WatcherFits,
     agentVars, replyVars
<1> QED
  BY <1>1, <1>2 DEF TInv

LEMMA ScanTInv ==
  ASSUME TInv, Scan \/ ScanEnds \/ \E n \in Names : ReadGood(n) \/ ReadBad(n)
  PROVE  TInv'
<1>1. UNCHANGED <<now, agentVars, outbox, chat, tracker, replyVars, lost, crashes, unmoved>>
  BY DEF Scan, ScanEnds, ReadGood, ReadBad
<1>2. WatcherFits'
  <2> USE DEF TInv, TypeOK, Shapes, Retrying, WatcherFits, Watcher, Stages, agentVars
  <2>1. CASE Scan
    BY <1>1, <2>1 DEF Scan, Present
  <2>2. CASE ScanEnds
    BY <1>1, <2>2 DEF ScanEnds, Asleep
  <2>3. ASSUME NEW n \in Names, ReadGood(n)
        PROVE  WatcherFits'
    <3>1. outbox[n] \in whole /\ outbox[n] \in 1..Len(written)
      BY <2>3 DEF ReadGood
    <3>2. written[outbox[n]] = n
      BY <3>1
    <3> QED
      BY <1>1, <2>3, <3>1, <3>2 DEF ReadGood, Take
  <2>4. ASSUME NEW n \in Names, ReadBad(n)
        PROVE  WatcherFits'
    BY <1>1, <2>4 DEF ReadBad, Take
  <2> QED
    BY <2>1, <2>2, <2>3, <2>4
<1> QED
  BY <1>1, <1>2, WatcherOnly

\* After a failed send the Watcher goes on with the same message.
LEMMA AfterErrorFits ==
  ASSUME TInv, NEW u \in Users, Turn(u), AfterError(u)
  PROVE  /\ w' \in Watcher
         /\ w'.at = "send" /\ w'.msg = w.msg /\ w'.name = w.name
         /\ w'.try = 2 => w'.user \in w'.left
<1>1. w \in Watcher /\ w.at = "send" /\ w.try \in {1, 2}
  BY DEF TInv, Shapes, Watcher, Turn
<1>2. CASE w.try = 1
  <2>1. u \in w.left /\ w' = [w EXCEPT !.try = 2, !.user = u]
    BY <1>2 DEF Turn, AfterError
  <2> QED
    BY <1>1, <2>1 DEF Watcher
<1>3. CASE w.try = 2
  <2>1. /\ w' = [w EXCEPT !.try = 1, !.user = "none", !.left = w.left \ {u}]
        /\ w.left \ {u} \in SUBSET Users
    BY <1>1, <1>3 DEF AfterError, Watcher
  <2>2. w' = [at |-> w.at, todo |-> w.todo, name |-> w.name, msg |-> w.msg,
              left |-> w.left \ {u}, user |-> "none", try |-> 1, id |-> w.id]
    BY <1>1, <2>1 DEF Watcher
  <2> QED
    BY <1>1, <2>1, <2>2 DEF Watcher
<1> QED
  BY <1>1, <1>2, <1>3

\* A message shown in the chat adds to its end.
LEMMA ShownFacts ==
  ASSUME TInv, NEW u \in Users, Turn(u), Shown(u)
  PROVE  /\ chat' \in Seq(Sighting) /\ Len(chat') = Len(chat) + 1
         /\ Len(chat) \in Nat
         /\ chat'[Len(chat')] = [user |-> u, msg |-> w.msg]
         /\ \A i \in 1..Len(chat) : chat'[i] = chat[i]
<1>1. [user |-> u, msg |-> w.msg] \in Sighting /\ chat \in Seq(Sighting)
  BY DEF TInv, Shapes, Watcher, Sighting
<1> QED
  BY <1>1, AppendFacts DEF Shown

FaultTypes == /\ lost \in Nat /\ crashes \in Nat /\ unmoved \in Nat
              /\ lost + crashes + unmoved <= MaxFaults

LEMMA ShownTInv ==
  ASSUME TInv, NEW u \in Users, Turn(u), Shown(u), WatcherFits',
         UNCHANGED <<now, agentVars, outbox, tracker, replyVars>>,
         FaultTypes'
  PROVE  TInv'
<1>1. /\ chat' \in Seq(Sighting) /\ Len(chat') = Len(chat) + 1
      /\ Len(chat) \in Nat
      /\ chat'[Len(chat')] = [user |-> u, msg |-> w.msg]
      /\ \A i \in 1..Len(chat) : chat'[i] = chat[i]
  BY ShownFacts
<1>2. w.msg \in whole /\ w.at = "send"
  BY DEF TInv, TypeOK, Turn
<1>3. \A i \in 1..Len(chat') : chat'[i].user \in Users /\ chat'[i].msg \in whole
  <2> SUFFICES ASSUME NEW i \in 1..Len(chat')
               PROVE  chat'[i].user \in Users /\ chat'[i].msg \in whole
    OBVIOUS
  <2>1. CASE i = Len(chat')
    BY <1>1, <1>2, <2>1
  <2>2. CASE i \in 1..Len(chat)
    BY <1>1, <2>2 DEF TInv, TypeOK
  <2> QED
    BY <1>1, <2>1, <2>2
<1>4. TypeOK'
  <2>1. DOMAIN tracker \subseteq 1..Len(chat)
    BY DEF TInv, TypeOK
  <2>2. DOMAIN tracker \subseteq 1..Len(chat')
    BY <1>1, <2>1
  <2> QED
    BY <1>3, <2>2, WatcherTypes
    DEF TInv, TypeOK, FaultTypes, WatcherFits, agentVars, replyVars
<1>5. Shapes' /\ OwnMessages' /\ Retrying'
  BY <1>1 DEF TInv, Shapes, OwnMessages, WatcherFits, agentVars, replyVars
<1>6. Tracking' /\ ReplyNamesItsMessage'
  <2>1. /\ UNCHANGED <<written, tracker, answers>>
        /\ w'.at = "track" => chat'[w'.id].msg = w'.msg
        /\ DOMAIN tracker \subseteq 1..Len(chat)
        /\ \A i \in 1..Len(answers) : answers[i].id \in 1..Len(chat)
    BY DEF TInv, TypeOK, Tracking, WatcherFits, agentVars, replyVars
  <2>2. \A i \in DOMAIN tracker : tracker'[i] = written'[chat'[i].msg]
    <3> SUFFICES ASSUME NEW i \in DOMAIN tracker
                 PROVE  tracker'[i] = written'[chat'[i].msg]
      OBVIOUS
    <3>1. tracker[i] = written[chat[i].msg] /\ i \in 1..Len(chat)
      BY <2>1 DEF TInv, Tracking
    <3>2. chat'[i] = chat[i]
      BY <1>1, <3>1
    <3> QED
      BY <2>1, <3>1, <3>2
  <2>3. \A i \in 1..Len(answers) :
          /\ answers[i].id \in 1..Len(chat')
          /\ answers[i].name = written[chat'[answers[i].id].msg]
    <3> SUFFICES ASSUME NEW i \in 1..Len(answers)
                 PROVE  /\ answers[i].id \in 1..Len(chat')
                        /\ answers[i].name = written[chat'[answers[i].id].msg]
      OBVIOUS
    <3>1. answers[i].name = written[chat[answers[i].id].msg]
      BY DEF TInv, ReplyNamesItsMessage
    <3>2. answers[i].id \in 1..Len(chat) /\ chat'[answers[i].id] = chat[answers[i].id]
      BY <1>1, <2>1
    <3>3. answers[i].id \in 1..Len(chat')
      BY <1>1, <3>2
    <3> QED
      BY <3>1, <3>2, <3>3
  <2> QED
    BY <2>1, <2>2, <2>3 DEF Tracking, ReplyNamesItsMessage
<1> QED
  BY <1>4, <1>5, <1>6 DEF TInv

LEMMA SendTInv ==
  ASSUME TInv, NEW u \in Users, SendOk(u) \/ SendFails(u) \/ AnswerLost(u)
  PROVE  TInv'
<1>1. /\ Turn(u) /\ w.at = "send" /\ UNCHANGED <<now, agentVars, outbox, tracker, replyVars>>
      /\ w.msg \in whole /\ written[w.msg] = w.name
  BY DEF SendOk, SendFails, AnswerLost, Turn, TInv, TypeOK
<1>2. CASE SendOk(u)
  <2>0. /\ Len(chat') = Len(chat) + 1 /\ Len(chat) \in Nat
        /\ chat'[Len(chat')] = [user |-> u, msg |-> w.msg]
    BY <1>2, ShownFacts DEF SendOk
  <2>1. /\ w' \in Watcher /\ w'.at = "track" /\ w'.try = 1 /\ w'.id = Len(chat')
        /\ w'.msg = w.msg /\ w'.name = w.name
    <3>1. w \in Watcher /\ Len(chat') \in Nat /\ "track" \in Stages
      BY <2>0 DEF TInv, Shapes, Stages
    <3>2. w' = [w EXCEPT !.at = "track", !.user = u, !.try = 1,
                         !.left = @ \ {u}, !.id = Len(chat')]
      BY <1>2 DEF SendOk
    <3> QED
      BY <3>1, <3>2 DEF Watcher
  <2>2. WatcherFits'
    BY <1>1, <2>0, <2>1 DEF WatcherFits, Retrying, agentVars
  <2> QED
    BY <1>1, <1>2, <2>2, ShownTInv DEF SendOk, FaultTypes, TInv, TypeOK
<1>3. CASE SendFails(u)
  <2>1. WatcherFits'
    BY <1>1, <1>3, AfterErrorFits DEF SendFails, WatcherFits, Retrying, agentVars
  <2> QED
    BY <1>3, <2>1, WatcherOnly DEF SendFails
<1>4. CASE AnswerLost(u)
  <2>1. WatcherFits'
    BY <1>1, <1>4, AfterErrorFits DEF AnswerLost, WatcherFits, Retrying, agentVars
  <2>2. FaultTypes'
    BY <1>4, BoundsAreNumbers DEF AnswerLost, MoreFaults, FaultTypes, TInv, TypeOK
  <2> QED
    BY <1>1, <1>4, <2>1, <2>2, ShownTInv DEF AnswerLost
<1> QED
  BY <1>2, <1>3, <1>4

LEMMA TrackTInv ==
  ASSUME TInv, Track
  PROVE  TInv'
<1>1. /\ w.at = "track" /\ w.id \in 1..Len(chat) /\ w.name = written[chat[w.id].msg]
      /\ w.msg \in whole /\ w.name = written[w.msg] /\ w.name \in Names
      /\ w.try = 1
      /\ UNCHANGED <<now, agentVars, outbox, chat, replyVars, offered, lost, crashes, unmoved>>
  <2>1. /\ w.at = "track"
        /\ UNCHANGED <<now, agentVars, outbox, chat, replyVars, offered, lost, crashes, unmoved>>
    BY DEF Track
  <2>2. /\ w.id \in 1..Len(chat) /\ chat[w.id].msg = w.msg
        /\ w.msg \in whole /\ w.name = written[w.msg]
    BY <2>1 DEF TInv, TypeOK, Tracking
  <2>3. w.name \in Names
    <3>1. w.msg \in 1..Len(written) /\ written \in Seq(Names)
      BY <2>2 DEF TInv, TypeOK
    <3> QED
      BY <2>2, <3>1
  <2>4. w.try = 1
    BY <2>1 DEF TInv, Retrying, Shapes, Watcher
  <2> QED
    BY <2>1, <2>2, <2>3, <2>4
<1>2. /\ DOMAIN tracker' = DOMAIN tracker \cup {w.id}
      /\ \A i \in DOMAIN tracker' : tracker'[i] = IF i = w.id THEN w.name ELSE tracker[i]
      /\ tracker' = [i \in DOMAIN tracker' |-> tracker'[i]]
  BY DEF Track, Put
<1>3. WatcherFits'
  BY <1>1 DEF Track, WatcherFits, TInv, Shapes, Watcher, Stages, Retrying, agentVars
<1>4. Shapes' /\ OwnMessages' /\ Retrying' /\ ReplyNamesItsMessage'
  BY <1>1, <1>2, <1>3 DEF TInv, Shapes, OwnMessages, WatcherFits,
     ReplyNamesItsMessage, agentVars, replyVars
<1>5. Tracking'
  BY <1>1, <1>2, <1>3 DEF TInv, Tracking, WatcherFits, agentVars, replyVars
<1>6. TypeOK'
  BY <1>1, <1>2, <1>3, WatcherTypes
  DEF TInv, TypeOK, WatcherFits, agentVars, replyVars
<1> QED
  BY <1>4, <1>5, <1>6 DEF TInv

LEMMA ArchiveTInv ==
  ASSUME TInv, Archive \/ ArchiveFails
  PROVE  TInv'
<1>1. /\ Done /\ Proceed
      /\ outbox' = outbox \/ outbox' = [outbox EXCEPT ![w.name] = 0]
      /\ UNCHANGED <<now, agentVars, chat, tracker, replyVars, offered, lost, crashes>>
  BY DEF Archive, ArchiveFails
<1>2. /\ outbox' \in [Names -> Nat]
      /\ \A n \in Names : outbox'[n] = outbox[n] \/ outbox'[n] = 0
  <2>1. outbox \in [Names -> Nat]
    BY DEF TInv, Shapes
  <2>2. CASE outbox' = outbox
    BY <2>1, <2>2
  <2>3. CASE outbox' = [outbox EXCEPT ![w.name] = 0]
    BY <2>1, <2>3
  <2> QED
    BY <1>1, <2>2, <2>3
<1>3. w' \in Watcher /\ w'.at = "next" /\ w'.try = 1
  <2>1. w \in Watcher /\ (w.at = "bad" \/ w.left = {})
    BY <1>1 DEF Done, TInv, Shapes
  <2>2. w.try = 1
    BY <1>1, <2>1 DEF Done, TInv, Retrying, Watcher
  <2> QED
    BY <1>1, <2>1, <2>2 DEF Proceed, Watcher, Stages
<1>4. WatcherFits'
  BY <1>3 DEF WatcherFits, Retrying
<1>5. unmoved' \in Nat /\ lost + crashes + unmoved' <= MaxFaults
  BY BoundsAreNumbers DEF Archive, ArchiveFails, MoreFaults, TInv, TypeOK
<1>6. Shapes' /\ OwnMessages'
  BY <1>1, <1>2, <1>3 DEF TInv, Shapes, OwnMessages, agentVars, replyVars
<1>7. Retrying' /\ ReplyNamesItsMessage' /\ Tracking'
  BY <1>1, <1>3 DEF TInv, Retrying, Tracking, ReplyNamesItsMessage, agentVars, replyVars
<1>8. TypeOK'
  <2>1. \A n \in Names : outbox'[n] # 0 => outbox'[n] \in 1..Len(written)
                                           /\ written[outbox'[n]] = n
    BY <1>2 DEF TInv, TypeOK
  <2> QED
    BY <1>1, <1>3, <1>5, <2>1, WatcherTypes DEF TInv, TypeOK, agentVars, replyVars
<1> QED
  BY <1>6, <1>7, <1>8 DEF TInv

-----------------------------------------------------------------------------
LEMMA LoopTInv ==
  ASSUME TInv, Loop
  PROVE  TInv'
<1> PICK i \in DOMAIN tracker : Reply(i) \/ ReplyUnsaved(i)
  BY DEF Loop
<1>1. /\ UNCHANGED <<now, agentVars, outbox, w, chat, offered, lost, crashes, unmoved>>
      /\ asked' = asked + 1 /\ asked' \in 0..MaxReplies
      /\ DOMAIN tracker' = DOMAIN tracker \ {i}
      /\ \A j \in DOMAIN tracker' : tracker'[j] = tracker[j]
      /\ tracker' = [j \in DOMAIN tracker' |-> tracker'[j]]
      /\ tracker[i] \in Names /\ tracker[i] = written[chat[i].msg]
      /\ i \in 1..Len(chat)
  <2>1. /\ UNCHANGED <<now, agentVars, outbox, w, chat, offered, lost, crashes, unmoved>>
        /\ asked' = asked + 1 /\ asked < MaxReplies
        /\ tracker' = [j \in DOMAIN tracker \ {i} |-> tracker[j]]
    BY DEF Reply, ReplyUnsaved, Ask, Pop, Without
  <2>2. /\ asked \in 0..MaxReplies /\ MaxReplies \in Nat
        /\ tracker[i] \in Names /\ tracker[i] = written[chat[i].msg]
        /\ i \in 1..Len(chat)
    BY BoundsAreNumbers DEF TInv, TypeOK, Tracking, Shapes
  <2> QED
    BY <2>1, <2>2
<1>2. answers \in Seq(Answer) /\ [id |-> i, name |-> tracker[i]] \in Answer
  BY <1>1 DEF TInv, Shapes, Answer
<1>3. /\ answers' \in Seq(Answer) /\ inbox' \in [Seconds -> Nat]
      /\ Len(answers') <= asked'
      /\ \A s \in Seconds : inbox'[s] \in 0..Len(answers')
      /\ \A j \in 1..Len(answers') :
           \/ j \in 1..Len(answers) /\ answers'[j] = answers[j]
           \/ answers'[j] = [id |-> i, name |-> tracker[i]]
  <2>0. Len(answers) \in Nat /\ asked \in Nat /\ Len(answers) <= asked
    BY <1>2 DEF TInv, TypeOK, Shapes
  <2>1. CASE Reply(i)
    <3>1. answers' = Append(answers, [id |-> i, name |-> tracker[i]])
      BY <2>1 DEF Reply, ReplyAs
    <3>2. /\ answers' \in Seq(Answer) /\ Len(answers') = Len(answers) + 1
          /\ answers'[Len(answers')] = [id |-> i, name |-> tracker[i]]
          /\ \A j \in 1..Len(answers) : answers'[j] = answers[j]
      BY <1>2, <3>1, AppendFacts
    <3>3. \A j \in 1..Len(answers') : j \in 1..Len(answers) \/ j = Len(answers')
      BY <2>0, <3>2
    <3>4. inbox' = [inbox EXCEPT ![now] = Len(answers')]
      BY <2>1 DEF Reply, ReplyAs
    <3>5. inbox' \in [Seconds -> Nat] /\ \A s \in Seconds : inbox'[s] \in 0..Len(answers')
      <4>1. /\ inbox \in [Seconds -> Nat] /\ Len(answers') \in Nat
            /\ \A s \in Seconds : inbox[s] \in 0..Len(answers)
        BY <2>0, <3>2 DEF TInv, TypeOK, Shapes
      <4>2. /\ inbox' \in [Seconds -> Nat]
            /\ \A s \in Seconds : inbox'[s] = inbox[s] \/ inbox'[s] = Len(answers')
        BY <3>4, <4>1
      <4> QED
        BY <2>0, <3>2, <4>1, <4>2
    <3> QED
      BY <1>1, <2>0, <3>2, <3>3, <3>5
  <2>2. CASE ReplyUnsaved(i)
    <3>1. UNCHANGED <<answers, inbox>>
      BY <2>2 DEF ReplyUnsaved
    <3>2. inbox \in [Seconds -> Nat] /\ \A s \in Seconds : inbox[s] \in 0..Len(answers)
      BY DEF TInv, TypeOK, Shapes
    <3> QED
      BY <1>1, <1>2, <2>0, <3>1, <3>2
  <2> QED
    BY <2>1, <2>2
<1>4. TypeOK'
  <2>1. Len(answers') <= MaxReplies
    BY <1>1, <1>3, BoundsAreNumbers
  <2> QED
    BY <1>1, <1>3, <2>1 DEF TInv, TypeOK, agentVars
<1>5. Shapes' /\ OwnMessages' /\ Retrying'
  BY <1>1, <1>3 DEF TInv, Shapes, OwnMessages, Retrying, agentVars
<1>6. Tracking' /\ ReplyNamesItsMessage'
  <2>1. \A j \in DOMAIN tracker' : tracker'[j] = written'[chat'[j].msg]
    BY <1>1 DEF TInv, Tracking, agentVars
  <2>2. \A j \in 1..Len(answers') :
          /\ answers'[j].id \in 1..Len(chat)
          /\ answers'[j].name = written[chat[answers'[j].id].msg]
    <3>1. \A j \in 1..Len(answers) :
            /\ answers[j].id \in 1..Len(chat)
            /\ answers[j].name = written[chat[answers[j].id].msg]
      BY DEF TInv, Tracking, ReplyNamesItsMessage
    <3> SUFFICES ASSUME NEW j \in 1..Len(answers')
                 PROVE  /\ answers'[j].id \in 1..Len(chat)
                        /\ answers'[j].name = written[chat[answers'[j].id].msg]
      OBVIOUS
    <3>2. CASE j \in 1..Len(answers) /\ answers'[j] = answers[j]
      BY <3>1, <3>2
    <3>3. CASE answers'[j] = [id |-> i, name |-> tracker[i]]
      BY <1>1, <3>3
    <3> QED
      BY <1>3, <3>2, <3>3
  <2>3. w'.at = "track" => chat'[w'.id].msg = w'.msg
    BY <1>1 DEF TInv, Tracking
  <2> QED
    BY <1>1, <2>1, <2>2, <2>3 DEF Tracking, ReplyNamesItsMessage, agentVars
<1> QED
  BY <1>4, <1>5, <1>6 DEF TInv

LEMMA CrashTInv ==
  ASSUME TInv, Crash
  PROVE  TInv'
<1>1. /\ w' = Asleep /\ tracker' = <<>>
      /\ lost' \in Nat /\ crashes' \in Nat /\ unmoved' \in Nat
      /\ lost' + crashes' + unmoved' <= MaxFaults
      /\ UNCHANGED <<now, agentVars, outbox, chat, replyVars>>
  BY BoundsAreNumbers DEF Crash, MoreFaults, TInv, TypeOK, replyVars
<1>2. Shapes' /\ OwnMessages' /\ Retrying' /\ ReplyNamesItsMessage' /\ Tracking'
  BY <1>1 DEF TInv, Shapes, OwnMessages, Retrying, Tracking, Asleep,
     ReplyNamesItsMessage, agentVars, replyVars, Watcher, Stages
<1>3. TypeOK'
  BY <1>1 DEF TInv, TypeOK, Asleep, agentVars, replyVars
<1> QED
  BY <1>2, <1>3 DEF TInv

LEMMA TickTInv ==
  ASSUME TInv, Tick \/ UNCHANGED vars
  PROVE  TInv'
<1>1. /\ now' \in Seconds
      /\ UNCHANGED <<agentVars, outbox, w, chat, tracker, replyVars, offered,
                     lost, crashes, unmoved>>
  BY BoundsAreNumbers DEF Tick, vars, TInv, TypeOK, Seconds
<1>2. TypeOK'
  BY <1>1 DEF TInv, TypeOK, agentVars, replyVars
<1>3. Shapes' /\ OwnMessages' /\ Retrying' /\ Tracking' /\ ReplyNamesItsMessage'
  BY <1>1 DEF TInv, Shapes, OwnMessages, Retrying, Tracking, ReplyNamesItsMessage,
     agentVars, replyVars
<1> QED
  BY <1>2, <1>3 DEF TInv
-----------------------------------------------------------------------------
LEMMA TInvStep == TInv /\ [Next]_vars => TInv'
<1> SUFFICES ASSUME TInv, [Next]_vars
             PROVE  TInv'
  OBVIOUS
<1>1. CASE Agent
  BY <1>1, CreateTInv, FillTInv DEF Agent
<1>2. CASE Watch
  BY <1>2, ScanTInv, SendTInv, TrackTInv, ArchiveTInv DEF Watch
<1>3. CASE Loop \/ Crash
  BY <1>3, LoopTInv, CrashTInv
<1>4. CASE Tick \/ UNCHANGED vars
  BY <1>4, TickTInv
<1> QED
  BY <1>1, <1>2, <1>3, <1>4 DEF Next

-----------------------------------------------------------------------------
(* Counting copies.                                                        *)

LEMMA CopiesFinite ==
  ASSUME TInv, NEW m, NEW u
  PROVE  IsFiniteSet(Copies(m, u)) /\ Cardinality(Copies(m, u)) \in Nat
<1>1. Len(chat) \in Nat
  BY DEF TInv, Shapes
<1>2. IsFiniteSet(1..Len(chat)) /\ Copies(m, u) \in SUBSET (1..Len(chat))
  BY <1>1, FS_Interval DEF Copies
<1> QED
  BY <1>2, FS_Subset, FS_CardinalityType

\* Only a written message has copies.
LEMMA CopiesOfNone ==
  ASSUME TInv, NEW m, m \notin 1..Len(written), NEW u
  PROVE  Cardinality(Copies(m, u)) = 0
<1>1. Copies(m, u) = {}
  <2> SUFFICES ASSUME NEW i \in 1..Len(chat), chat[i] = [user |-> u, msg |-> m]
               PROVE  FALSE
    BY DEF Copies
  <2>1. chat[i].msg \in 1..Len(written)
    BY DEF TInv, TypeOK
  <2> QED
    BY <2>1
<1> QED
  BY <1>1, FS_EmptySet

\* A message shown to a user is one more copy of it, and no other's.
LEMMA CopiesShown ==
  ASSUME TInv, NEW u \in Users, Turn(u), Shown(u), NEW m, NEW v
  PROVE  Cardinality(Copies(m, v)')
           = Cardinality(Copies(m, v)) + (IF m = w.msg /\ v = u THEN 1 ELSE 0)
<1> DEFINE new == [user |-> v, msg |-> m]
<1>1. /\ Len(chat') = Len(chat) + 1 /\ Len(chat) \in Nat
      /\ chat'[Len(chat')] = [user |-> u, msg |-> w.msg]
      /\ \A i \in 1..Len(chat) : chat'[i] = chat[i]
  BY ShownFacts
<1>2. IsFiniteSet(Copies(m, v)) /\ Cardinality(Copies(m, v)) \in Nat
  BY CopiesFinite
<1>3. Copies(m, v)' = {i \in 1..Len(chat') : chat'[i] = new}
  BY DEF Copies
<1>4. 1..Len(chat') = 1..Len(chat) \cup {Len(chat')}
  BY <1>1
<1>5. CASE m = w.msg /\ v = u
  <2>1. Copies(m, v)' = Copies(m, v) \cup {Len(chat')} /\ Len(chat') \notin Copies(m, v)
    BY <1>1, <1>3, <1>4, <1>5 DEF Copies
  <2> QED
    <3> HIDE DEF new, Copies
    <3>1. Cardinality(Copies(m, v) \cup {Len(chat')}) = Cardinality(Copies(m, v)) + 1
      BY <1>2, <2>1, FS_AddElement
    <3> QED
      BY <1>5, <2>1, <3>1
<1>6. CASE ~(m = w.msg /\ v = u)
  <2>1. chat'[Len(chat')] # new
    BY <1>1, <1>6
  <2>2. Copies(m, v)' = Copies(m, v)
    BY <1>1, <1>3, <1>4, <2>1 DEF Copies
  <2> QED
    BY <1>2, <1>6, <2>2
<1> QED
  BY <1>5, <1>6

\* Nothing is shown, and no message comes to be owed but by a fault.
LEMMA NothingShown ==
  ASSUME IInv, TInv', UNCHANGED <<chat, written>>,
         \/ /\ crashes' + lost' + unmoved' = crashes + lost + unmoved
            /\ \A m \in 1..Len(written), u \in Users : Owed(m, u)' => Owed(m, u)
         \/ crashes' + lost' + unmoved' = crashes + lost + unmoved + 1
  PROVE  CopiesCounted'
<1> SUFFICES ASSUME NEW m \in 1..Len(written), NEW u \in Users
             PROVE  Cardinality(Copies(m, u)')
                      <= crashes' + lost' + unmoved' + (IF Owed(m, u)' THEN 0 ELSE 1)
  BY DEF CopiesCounted
<1>1. Copies(m, u)' = Copies(m, u)
  BY DEF Copies
<1>2. Cardinality(Copies(m, u)) \in Nat
  BY CopiesFinite DEF IInv
<1>3. Cardinality(Copies(m, u)) <= crashes + lost + unmoved + (IF Owed(m, u) THEN 0 ELSE 1)
  BY DEF IInv, CopiesCounted
<1>4. crashes \in Nat /\ lost \in Nat /\ unmoved \in Nat
  BY DEF IInv, TInv, TypeOK
<1>5. CASE crashes' + lost' + unmoved' = crashes + lost + unmoved + 1
  BY <1>1, <1>2, <1>3, <1>4, <1>5
<1>6. CASE crashes' + lost' + unmoved' = crashes + lost + unmoved /\ (Owed(m, u)' => Owed(m, u))
  BY <1>1, <1>2, <1>3, <1>4, <1>6
<1> QED
  BY <1>5, <1>6

LEMMA CreateCounted ==
  ASSUME IInv, TInv', NEW a \in Agents, Create(a)
  PROVE  CopiesCounted'
<1> SUFFICES ASSUME NEW m \in 1..Len(written'), NEW u \in Users
             PROVE  Cardinality(Copies(m, u)')
                      <= crashes' + lost' + unmoved' + (IF Owed(m, u)' THEN 0 ELSE 1)
  BY DEF CopiesCounted
<1>1. /\ Copies(m, u)' = Copies(m, u)
      /\ UNCHANGED <<w, crashes, lost, unmoved>>
      /\ crashes \in Nat /\ lost \in Nat /\ unmoved \in Nat
  BY DEF Copies, Create, IInv, TInv, TypeOK
<1>2. CASE m \in 1..Len(written)
  <2>1. <<a, now>> \in Names /\ written \in Seq(Names)
    BY DEF IInv, TInv, TypeOK, Names
  <2>2. written'[m] = written[m] /\ written[m] \in Names /\ m # Len(written')
    BY <1>2, <2>1, AppendFacts DEF Create
  <2>3. outbox'[written[m]] = m => outbox[written[m]] = m
    BY <2>1, <2>2 DEF Create, IInv, TInv, Shapes
  <2>4. Owed(m, u)' => Owed(m, u)
    BY <1>1, <2>2, <2>3 DEF Owed
  <2>5. Cardinality(Copies(m, u)) <= crashes + lost + unmoved + (IF Owed(m, u) THEN 0 ELSE 1)
    BY <1>2 DEF IInv, CopiesCounted
  <2>6. Cardinality(Copies(m, u)) \in Nat
    BY CopiesFinite DEF IInv
  <2> QED
    BY <1>1, <2>4, <2>5, <2>6
<1>3. CASE m \notin 1..Len(written)
  BY <1>1, <1>3, CopiesOfNone DEF IInv
<1> QED
  BY <1>2, <1>3

LEMMA SendCounted ==
  ASSUME IInv, TInv', NEW u \in Users, SendOk(u) \/ AnswerLost(u)
  PROVE  CopiesCounted'
<1> SUFFICES ASSUME NEW m \in 1..Len(written'), NEW v \in Users
             PROVE  Cardinality(Copies(m, v)')
                      <= crashes' + lost' + unmoved' + (IF Owed(m, v)' THEN 0 ELSE 1)
  BY DEF CopiesCounted
<1>1. /\ Turn(u) /\ Shown(u) /\ w.at = "send" /\ w.msg \in Nat
      /\ UNCHANGED <<written, outbox, crashes, unmoved>>
      /\ crashes \in Nat /\ lost \in Nat /\ unmoved \in Nat
  BY DEF SendOk, AnswerLost, Turn, IInv, TInv, TypeOK, agentVars, Shapes, Watcher
<1>2. u \in w.left
  BY <1>1 DEF Turn, IInv, TInv, Retrying, TypeOK
<1>3. Cardinality(Copies(m, v)')
        = Cardinality(Copies(m, v)) + (IF m = w.msg /\ v = u THEN 1 ELSE 0)
  BY <1>1, CopiesShown DEF IInv
<1>4. /\ Cardinality(Copies(m, v)) \in Nat
      /\ Cardinality(Copies(m, v)) <= crashes + lost + unmoved + (IF Owed(m, v) THEN 0 ELSE 1)
  BY <1>1, CopiesFinite DEF IInv, CopiesCounted
<1>5. CASE m = w.msg /\ v = u
  <2>1. Owed(m, v)
    BY <1>1, <1>2, <1>5 DEF Owed
  <2>2. Cardinality(Copies(m, v)') <= crashes + lost + unmoved + 1
    BY <1>1, <1>3, <1>4, <1>5, <2>1
  <2>3. lost' = lost + 1 \/ (lost' = lost /\ ~Owed(m, v)')
    <3>1. CASE SendOk(u)
      <4>1. w'.at = "track" /\ w'.msg = w.msg /\ w'.left = w.left \ {u}
        BY <3>1 DEF SendOk, IInv, TInv, Shapes, Watcher
      <4> QED
        BY <1>5, <3>1, <4>1 DEF Owed, SendOk
    <3>2. CASE AnswerLost(u)
      BY <3>2 DEF AnswerLost
    <3> QED
      BY <3>1, <3>2
  <2>4. CASE lost' = lost + 1
    BY <1>1, <1>3, <1>4, <2>2, <2>4
  <2>5. CASE lost' = lost /\ ~Owed(m, v)'
    BY <1>1, <2>2, <2>5
  <2> QED
    BY <2>3, <2>4, <2>5
<1>6. CASE ~(m = w.msg /\ v = u)
  <2>1. lost' \in {lost, lost + 1}
    BY DEF SendOk, AnswerLost
  <2>2. /\ w'.at \in {"send", "track"} /\ w'.msg = w.msg
        /\ w'.left \in {w.left, w.left \ {u}}
    <3>1. w \in Watcher
      BY DEF IInv, TInv, Shapes
    <3>2. CASE SendOk(u)
      BY <1>1, <3>1, <3>2 DEF SendOk, Watcher
    <3>3. CASE AnswerLost(u)
      BY <1>1, <3>1, <3>3 DEF AnswerLost, AfterError, Watcher
    <3> QED
      BY <3>2, <3>3
  <2>3. Owed(m, v)' => Owed(m, v)
    BY <1>1, <1>6, <2>2 DEF Owed
  <2> QED
    BY <1>1, <1>3, <1>4, <1>6, <2>1, <2>3
<1> QED
  BY <1>5, <1>6

LEMMA WatchCounted ==
  ASSUME IInv, TInv', \/ Scan \/ ScanEnds \/ Track \/ Archive
                      \/ \E n \in Names : ReadGood(n) \/ ReadBad(n)
                      \/ \E u \in Users : SendFails(u)
  PROVE  CopiesCounted'
<1>1. UNCHANGED <<chat, written, crashes, lost, unmoved>>
  BY DEF Scan, ScanEnds, Track, Archive, ReadGood, ReadBad, SendFails, agentVars
<1> SUFFICES ASSUME NEW m \in 1..Len(written), NEW u \in Users, Owed(m, u)'
             PROVE  Owed(m, u)
  BY <1>1, NothingShown DEF IInv, TInv, TypeOK
<1>0. /\ written[m] \in Names /\ m # 0
      /\ \A n \in Names : outbox[n] # 0 => written[outbox[n]] = n
      /\ \A i \in whole : i # 0
  <2>1. written \in Seq(Names) /\ whole \subseteq 1..Len(written)
    BY DEF IInv, TInv, TypeOK
  <2>2. \A n \in Names : outbox[n] # 0 => written[outbox[n]] = n
    BY DEF IInv, TInv, TypeOK
  <2>3. Len(written) \in Nat /\ written[m] \in Names
    BY <2>1
  <2>4. m # 0 /\ \A i \in whole : i # 0
    BY <2>1, <2>3
  <2> QED
    BY <2>2, <2>3, <2>4
<1> USE DEF Owed, IInv, TInv, Shapes, Watcher
<1>2. CASE Scan \/ ScanEnds
  <2>1. w.at \in {"idle", "next"} /\ UNCHANGED <<written, outbox>>
    BY <1>2 DEF Scan, ScanEnds, agentVars
  <2>2. CASE Scan
    BY <2>1, <2>2 DEF Scan
  <2>3. CASE ScanEnds
    BY <2>1, <2>3 DEF ScanEnds, Asleep
  <2> QED
    BY <1>2, <2>2, <2>3
<1>3. CASE Track
  BY <1>3 DEF Track, agentVars
<1>4. CASE Archive
  <2>1. /\ w'.at = "next" /\ outbox' = [outbox EXCEPT ![w.name] = 0]
        /\ outbox'[written[m]] = m
    BY <1>1, <1>4 DEF Archive, Proceed, agentVars
  <2>2. written[m] \in Names /\ written[m] # w.name /\ outbox[written[m]] = m
    <3>1. written[m] # w.name
      BY <1>0, <2>1
    <3> QED
      BY <1>0, <2>1, <3>1
  <2>3. w.at = "bad" \/ (w.at = "send" /\ w.msg # m)
    BY <1>4, <2>2 DEF Archive, Done, TypeOK
  <2> QED
    BY <2>2, <2>3
<1>5. ASSUME NEW n \in Names, ReadGood(n) \/ ReadBad(n)
      PROVE  Owed(m, u)
  <2>1. /\ w.at = "next" /\ outbox' = outbox
        /\ w'.at = "bad" \/ (w'.at = "send" /\ w'.msg = outbox[n] /\ outbox[n] \in whole)
    BY <1>5 DEF ReadGood, ReadBad, Take
  <2>2. CASE w'.at = "send" /\ w'.msg = m
    <3>1. m = outbox[n] /\ written[m] = n
      BY <1>0, <2>1, <2>2
    <3> QED
      BY <2>1, <3>1
  <2>3. CASE ~(w'.at = "send" /\ w'.msg = m)
    BY <1>1, <2>1, <2>3
  <2> QED
    BY <2>2, <2>3
<1>6. ASSUME NEW v \in Users, SendFails(v)
      PROVE  Owed(m, u)
  <2>1. /\ w.at = "send" /\ outbox' = outbox
        /\ w'.at = "send" /\ w'.msg = w.msg
        /\ w'.left \in {w.left, w.left \ {v}}
    <3>1. w.at = "send" /\ outbox' = outbox /\ AfterError(v) /\ Turn(v)
      BY <1>6 DEF SendFails, Turn
    <3>2. w \in Watcher
      BY DEF TInv, Shapes
    <3>3. CASE w.try = 1
      BY <3>1, <3>2, <3>3 DEF AfterError, Watcher
    <3>4. CASE w.try # 1
      BY <3>1, <3>2, <3>4 DEF AfterError, Watcher
    <3> QED
      BY <3>1, <3>3, <3>4 DEF Turn
  <2> QED
    BY <1>1, <2>1
<1> QED
  BY <1>2, <1>3, <1>4, <1>5, <1>6

LEMMA StepIInv == IInv /\ [Next]_vars => IInv'
<1> SUFFICES ASSUME IInv, [Next]_vars
             PROVE  IInv'
  OBVIOUS
<1>1. TInv'
  BY TInvStep DEF IInv
<1> SUFFICES CopiesCounted'
  BY <1>1 DEF IInv
<1>2. ASSUME NEW a \in Agents, Create(a)
      PROVE  CopiesCounted'
  BY <1>1, <1>2, CreateCounted
<1>3. CASE \/ Tick \/ Loop \/ UNCHANGED vars
           \/ \E a \in Agents : Fill(a) \/ Abandon(a)
  <2>1. UNCHANGED <<chat, written, w, outbox, crashes, lost, unmoved>>
    BY <1>3 DEF Tick, Loop, Reply, ReplyUnsaved, Fill, Abandon, vars, agentVars
  <2>2. \A m \in 1..Len(written), u \in Users : Owed(m, u)' => Owed(m, u)
    BY <2>1 DEF Owed
  <2> QED
    BY <1>1, <2>1, <2>2, NothingShown
<1>4. CASE ArchiveFails
  <2>1. /\ UNCHANGED <<chat, written, lost, crashes>> /\ unmoved' = unmoved + 1
        /\ crashes \in Nat /\ lost \in Nat /\ unmoved \in Nat
    BY <1>4 DEF ArchiveFails, agentVars, IInv, TInv, TypeOK
  <2>2. crashes' + lost' + unmoved' = crashes + lost + unmoved + 1
    BY <2>1
  <2> QED
    BY <1>1, <2>1, <2>2, NothingShown
<1>5. CASE Crash
  <2>1. /\ UNCHANGED <<chat, written, lost, unmoved>> /\ crashes' = crashes + 1
        /\ crashes \in Nat /\ lost \in Nat /\ unmoved \in Nat
    BY <1>5 DEF Crash, agentVars, IInv, TInv, TypeOK
  <2>2. crashes' + lost' + unmoved' = crashes + lost + unmoved + 1
    BY <2>1
  <2> QED
    BY <1>1, <2>1, <2>2, NothingShown
<1>6. CASE Watch
  BY <1>1, <1>4, <1>6, WatchCounted, SendCounted DEF Watch
<1> QED
  BY <1>2, <1>3, <1>5, <1>6 DEF Next, Agent

LEMMA InitIInv == Init => IInv
<1> SUFFICES ASSUME Init
             PROVE  IInv
  OBVIOUS
<1>1. TInv
  BY InitTInv
<1>2. CopiesCounted
  BY DEF Init, CopiesCounted
<1> QED
  BY <1>1, <1>2 DEF IInv

LEMMA Invariance == Spec => []IInv
BY InitIInv, StepIInv, PTL DEF Spec

-----------------------------------------------------------------------------
\* The state keeps its types: the Watcher sends only whole messages, under
\* the file name they were written to.
THEOREM MailTypes == Spec => []TypeOK
BY Invariance, PTL DEF IInv, TInv

\* A reply carries the file name of the message it answers.  (HandleReply,
\* replyTracker)
THEOREM RepliesAreRight == Spec => []ReplyNamesItsMessage
BY Invariance, PTL DEF IInv, TInv

\* Each crash, each lost answer and each failed archiving shows a user one
\* more copy of a message at most.  (scanOnce, SendAgentMessage,
\* ArchiveMessage)
THEOREM CopiesAreFew == Spec => []CopiesBounded
<1>1. IInv => CopiesBounded
  <2> SUFFICES ASSUME IInv, NEW m \in Messages, NEW u \in Users
               PROVE  Cardinality(Copies(m, u)) <= 1 + crashes + lost + unmoved
    BY DEF CopiesBounded, Copies
  <2>1. /\ crashes \in Nat /\ lost \in Nat /\ unmoved \in Nat
        /\ Cardinality(Copies(m, u)) \in Nat
    BY CopiesFinite DEF IInv, TInv, TypeOK
  <2>2. CASE m \in 1..Len(written)
    BY <2>1, <2>2 DEF IInv, CopiesCounted
  <2>3. CASE m \notin 1..Len(written)
    BY <2>1, <2>3, CopiesOfNone DEF IInv
  <2> QED
    BY <2>2, <2>3
<1> QED
  BY <1>1, Invariance, PTL
=============================================================================
