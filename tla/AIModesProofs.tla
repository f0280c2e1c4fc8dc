--------------------------- MODULE AIModesProofs ---------------------------
(***************************************************************************)
(* Proofs about AIModes for every set of providers, every daily limit and  *)
(* every time to live.                                                     *)
(***************************************************************************)
EXTENDS AIModes, FiniteSetTheorems, SequenceTheorems, TLAPS

\* The settings, and what a restart or a switch may rely on.
SettingsType ==
  /\ ai \in [on : BOOLEAN, backend : Backends \cup CLIs, conn : {"api", "cli"}]
  /\ row \in [backend : Backends \cup {None}, key : Providers \cup {None},
              mode : {"api", "cli"}, on : BOOLEAN]
  /\ row # NoRow => row.backend \in Backends
  /\ vault \in [Backends -> Providers \cup {None}]
  /\ waiting \in [backend : Providers \cup {None}, since : Nat]
  /\ off \in BOOLEAN

\* After /ai off AI is off in memory and in the row.
BothOff == off => ~ai.on /\ ~row.on

SettingsInv == SettingsType /\ KeyFitsBackend /\ BothOff

Pair == [at : Nat, size : Nat, epoch : Nat]

\* Pairs of this conversation, none above the TTL after the one before.
OneTalk(c) ==
  /\ c \in Seq(Pair) /\ Len(c) <= MaxPairs
  /\ \A i \in 1..Len(c) : c[i].epoch = epoch
  /\ \A i \in 2..Len(c) : c[i].at <= c[i - 1].at + TTL

\* A conversation expires a TTL after its last pair.
TalkInv ==
  /\ now \in 0..MaxTime /\ epoch \in Nat
  /\ talk \in [pairs : Seq(Pair), until : Nat]
  /\ OneTalk(talk.pairs)
  /\ talk.pairs # <<>> => talk.until = talk.pairs[Len(talk.pairs)].at + TTL
  /\ session \in [epoch : Nat, until : Nat] /\ session.epoch \in {0, epoch}

QuestionInv ==
  /\ busy \in [at : {"idle", "api", "cli"}, to : Backends \cup CLIs \cup {None},
               key : Providers \cup {None}, context : Seq(Pair),
               session : Nat, since : Nat]
  /\ busy.at = "cli" => busy.to \in Installed /\ busy.key = None
  /\ OneTalk(busy.context)
  /\ LET c == busy.context IN c # <<>> => busy.since <= c[Len(c)].at + TTL
  /\ busy.session \in {0, epoch}
  /\ OffMeansOff

\* A day's questions are counted, unless an error let one through, and no
\* more are counted than the limit.
CountInv ==
  /\ {usage, sent, lapses} \subseteq [Days -> Nat]
  /\ \A d \in Days : /\ sent[d] <= usage[d] + lapses[d]
                     /\ DailyLimit > 0 => usage[d] <= DailyLimit
  /\ asks \in 0..MaxAsks /\ changes \in 0..MaxChanges /\ faults \in 0..MaxFaults

IInv == SettingsInv /\ TalkInv /\ QuestionInv /\ CountInv

-----------------------------------------------------------------------------
(* A set of numbers has a least one: their intervals 0..n are finite sets, *)
(* and inclusion is well founded on those.                                 *)
LEMMA LeastNumber ==
  ASSUME NEW T, T \subseteq Nat, T # {}
  PROVE  \E x \in T : \A y \in T : x <= y
<1> DEFINE UpTo == {0..n : n \in T}
<1>1. UpTo \subseteq FiniteSubsetsOf(Nat) /\ UpTo # {}
  <2>1. ASSUME NEW n \in T
        PROVE  IsFiniteSet(0..n) /\ 0..n \subseteq Nat
    BY FS_Interval
  <2> QED
    BY <2>1 DEF FiniteSubsetsOf
<1> HIDE DEF UpTo
<1>2. PICK s \in UpTo : \A t \in UpTo : <<t, s>> \notin StrictSubsetOrdering(Nat)
  <2>1. IsWellFoundedOn(StrictSubsetOrdering(Nat), FiniteSubsetsOf(Nat))
    BY FS_StrictSubsetOrderingWellFounded, Zenon
  <2> QED
    BY <1>1, <2>1, WFMin, Zenon
<1>3. PICK x \in T : s = 0..x
  BY <1>2 DEF UpTo
<1>4. ASSUME NEW y \in T, y < x
      PROVE  FALSE
  <2>1. 0..y \in UpTo
    BY DEF UpTo
  <2>2. 0..y \subseteq 0..x /\ x \in 0..x /\ x \notin 0..y
    BY <1>4
  <2>3. 0..y \in SUBSET Nat /\ 0..x \in SUBSET Nat
    OBVIOUS
  <2>4. <<0..y, s>> \in StrictSubsetOrdering(Nat)
    BY <1>3, <2>2, <2>3 DEF StrictSubsetOrdering
  <2> QED
    BY <1>2, <2>1, <2>4
<1> QED
  BY <1>4

LEMMA NamesApart ==
  /\ None \notin Providers /\ "ollama" \notin Providers
  /\ "ollama" \in Backends /\ "claude" \in CLIs /\ Providers \subseteq Backends
BY ModeBounds DEF None, Backends, CLIs

LEMMA Numbers ==
  /\ DailyLimit \in Nat /\ TTL \in Nat /\ MaxBytes \in Nat /\ MaxTime \in Nat
  /\ MaxChanges \in Nat /\ MaxAsks \in Nat /\ MaxFaults \in Nat
  /\ MaxPairs \in Nat /\ MaxPairs > 0
BY ModeBounds

LEMMA NoPairs == <<>> \in Seq(Pair) /\ Len(<<>>) = 0
OBVIOUS

LEMMA NothingIsOneTalk == OneTalk(<<>>)
BY NoPairs, Numbers DEF OneTalk

LEMMA InitIInv == Init => IInv
<1> SUFFICES ASSUME Init
             PROVE  IInv
  OBVIOUS
<1>1. SettingsInv
  BY NamesApart, Numbers
  DEF Init, SettingsInv, SettingsType, KeyFitsBackend, BothOff, Defaults, NoRow,
      NotWaiting, Backends, CLIs, None
<1>2. TalkInv
  BY NothingIsOneTalk, NoPairs, Numbers DEF Init, TalkInv, NoTalk, NoSession
<1>3. QuestionInv
  BY NothingIsOneTalk, NoPairs DEF Init, QuestionInv, Idle, OffMeansOff
<1>4. CountInv
  BY Numbers DEF Init, CountInv
<1> QED
  BY <1>1, <1>2, <1>3, <1>4 DEF IInv

-----------------------------------------------------------------------------
(* Commands and buttons change the settings, and no more.                  *)

LEMMA WriteFaults ==
  ASSUME CountInv, NEW done, NEW failed, Write(done, failed)
  PROVE  faults' \in 0..MaxFaults /\ (done \/ failed)
BY Numbers DEF CountInv, Write

LEMMA ChangeRest ==
  ASSUME IInv, Change, SettingsInv', faults' \in 0..MaxFaults
  PROVE  IInv'
<1>1. /\ UNCHANGED <<talk, session, busy, now, epoch, usage, sent, lapses, asks>>
      /\ busy = Idle /\ changes' \in 0..MaxChanges
  BY Numbers DEF Change, counts, IInv, CountInv
<1>2. TalkInv' /\ CountInv'
  BY <1>1 DEF IInv, TalkInv, CountInv, OneTalk
<1>3. QuestionInv'
  BY <1>1 DEF IInv, QuestionInv, OneTalk, OffMeansOff
<1> QED
  BY <1>2, <1>3 DEF IInv

RowType ==
  /\ row \in [backend : Backends \cup {None}, key : Providers \cup {None},
              mode : {"api", "cli"}, on : BOOLEAN]
  /\ row # NoRow => row.backend \in Backends

\* What saving a user makes of the row.
LEMMA SavedRow ==
  ASSUME NEW b \in Backends, NEW k \in Providers \cup {None},
         NEW m \in {"api", "cli"}, NEW on \in BOOLEAN, SaveUser(b, k, m, on)
  PROVE  RowType' /\ row'.backend = b /\ row'.key = k /\ row'.on = on
BY DEF SaveUser, RowType

LEMMA OnOff ==
  ASSUME IInv, AiOn \/ AiOff
  PROVE  IInv'
<1>1. PICK on \in BOOLEAN :
        /\ Change /\ SetEnabled(on)
        /\ \/ on = TRUE /\ off' = FALSE
           \/ on = FALSE /\ off' = (faults' = faults)
  BY DEF AiOn, AiOff
<1>2. faults' \in 0..MaxFaults
  BY <1>1, WriteFaults DEF SetEnabled, IInv
<1>3. \/ row' = (IF row = NoRow THEN row ELSE [row EXCEPT !.on = on])
           /\ faults' = faults
      \/ row' = row /\ faults' = faults + 1
  BY <1>1 DEF SetEnabled, Write
<1>4. off' \in BOOLEAN /\ (off' => on = FALSE /\ faults' = faults)
  BY <1>1
<1>5. faults \in Nat
  BY DEF IInv, CountInv
<1>6. off' => ~row'.on
  BY <1>3, <1>4, <1>5 DEF IInv, SettingsInv, SettingsType, NoRow
<1>7. SettingsInv'
  <2> USE DEF IInv, SettingsInv, SettingsType
  <2>1. /\ ai' \in [on : BOOLEAN, backend : Backends \cup CLIs, conn : {"api", "cli"}]
        /\ ai'.on = on /\ UNCHANGED <<vault, waiting>>
    BY <1>1 DEF SetEnabled
  <2>2. /\ row' \in [backend : Backends \cup {None}, key : Providers \cup {None},
                     mode : {"api", "cli"}, on : BOOLEAN]
        /\ row'.backend = row.backend /\ row'.key = row.key
        /\ row' # NoRow => row'.backend \in Backends
    BY <1>3
  <2>3. KeyFitsBackend' /\ BothOff'
    BY <1>4, <1>6, <2>1, <2>2 DEF KeyFitsBackend, BothOff
  <2> QED
    BY <1>4, <2>1, <2>2, <2>3
<1> QED
  BY <1>1, <1>2, <1>7, ChangeRest

LEMMA BackendIInv ==
  ASSUME IInv, NEW c \in CLIs, AiBackend(c)
  PROVE  IInv'
<1>1. SettingsInv'
  BY DEF AiBackend, IInv, SettingsInv, SettingsType, KeyFitsBackend, BothOff
<1> QED
  BY <1>1, ChangeRest DEF AiBackend, IInv, CountInv

LEMMA SetupIInv ==
  ASSUME IInv, NEW b \in Backends, ApiKeySetup(b) \/ CLIModeSetup(b)
  PROVE  IInv'
<1> USE DEF IInv, SettingsInv, SettingsType
<1>1. CASE Change /\ AskForKey(b)
  <2>1. now \in Nat
    BY DEF TalkInv
  <2>2. SettingsInv'
    BY <1>1, <2>1 DEF AskForKey, KeyFitsBackend, BothOff
  <2> QED
    BY <1>1, <2>2, ChangeRest DEF AskForKey, CountInv
<1>2. CASE Change /\ b = "ollama" /\ SetUpOllama
  <2>1. faults' \in 0..MaxFaults
    BY <1>2, WriteFaults DEF SetUpOllama
  <2>2. /\ UNCHANGED <<ai, vault, waiting>>
        /\ \/ SaveUser(b, None, "api", TRUE) /\ off' = FALSE
           \/ UNCHANGED <<row, off>>
    BY <1>2, WriteFaults DEF SetUpOllama
  <2>3. ASSUME SaveUser(b, None, "api", TRUE), off' = FALSE
        PROVE  SettingsInv'
    <3>1. RowType' /\ row'.key = None
      BY <2>3, SavedRow
    <3> QED
      BY <2>2, <2>3, <3>1 DEF RowType, KeyFitsBackend, BothOff
  <2>4. ASSUME UNCHANGED <<row, off>>
        PROVE  SettingsInv'
    BY <2>2, <2>4 DEF KeyFitsBackend, BothOff
  <2> QED
    BY <1>2, <2>1, <2>2, <2>3, <2>4, ChangeRest
<1>3. CASE CLIModeSetup(b)
  <2>1. /\ Write(SaveUser(b, None, "cli", TRUE), UNCHANGED row)
        /\ ai' = [on |-> TRUE, backend |-> b, conn |-> "cli"]
        /\ off' = FALSE /\ UNCHANGED <<vault, waiting>>
    BY <1>3 DEF CLIModeSetup
  <2>2. /\ faults' \in 0..MaxFaults
        /\ SaveUser(b, None, "cli", TRUE) \/ row' = row
    <3>1. faults \in 0..MaxFaults
      BY DEF CountInv
    <3> QED
      BY <2>1, <3>1, Numbers DEF Write, SaveUser
  <2>3. ASSUME SaveUser(b, None, "cli", TRUE)
        PROVE  SettingsInv'
    <3>1. RowType' /\ row'.key = None
      BY <2>3, SavedRow
    <3> QED
      BY <2>1, <3>1 DEF RowType, KeyFitsBackend, BothOff
  <2>4. ASSUME row' = row
        PROVE  SettingsInv'
    BY <2>1, <2>4 DEF KeyFitsBackend, BothOff
  <2> QED
    BY <1>3, <2>2, <2>3, <2>4, ChangeRest DEF CLIModeSetup
<1> QED
  BY <1>1, <1>2, <1>3 DEF ApiKeySetup

LEMMA ModeIInv ==
  ASSUME IInv, NEW mode \in {"api", "cli"}, SettingsMode(mode)
  PROVE  IInv'
<1> USE DEF IInv, SettingsInv, SettingsType
<1>1. /\ row' \in [backend : Backends \cup {None}, key : Providers \cup {None},
                   mode : {"api", "cli"}, on : BOOLEAN]
      /\ row'.backend = row.backend /\ row'.key = row.key /\ row'.on = row.on
      /\ row' # NoRow => row'.backend \in Backends
  BY DEF SettingsMode
<1>2. /\ ai' \in [on : BOOLEAN, backend : Backends \cup CLIs, conn : {"api", "cli"}]
      /\ ai'.on = ai.on /\ UNCHANGED <<vault, waiting, off, faults>>
  BY DEF SettingsMode
<1>3. SettingsInv'
  BY <1>1, <1>2 DEF KeyFitsBackend, BothOff
<1> QED
  BY <1>2, <1>3, ChangeRest DEF SettingsMode, CountInv

\* A key that is restored is one that was asked for that provider.
LEMMA SwitchIInv ==
  ASSUME IInv, NEW b \in Backends, SettingsBackend(b)
  PROVE  IInv'
<1> USE DEF IInv, SettingsInv, SettingsType
<1>1. CASE vault[b] # None
  <2>1. /\ Write(SaveUser(b, vault[b], row.mode, row.on) /\ UNCHANGED off,
                 SaveUser(b, vault[b], "api", TRUE) /\ off' = FALSE)
        /\ ai' = [ai EXCEPT !.backend = b] /\ UNCHANGED <<vault, waiting>>
    BY <1>1 DEF SettingsBackend
  <2>2. /\ faults' \in 0..MaxFaults
        /\ \/ SaveUser(b, vault[b], row.mode, row.on) /\ UNCHANGED off
           \/ SaveUser(b, vault[b], "api", TRUE) /\ off' = FALSE
    BY <2>1, WriteFaults
  <2>3. /\ ai' \in [on : BOOLEAN, backend : Backends \cup CLIs, conn : {"api", "cli"}]
        /\ ai'.on = ai.on
    BY <2>1
  <2>4. vault[b] \in Providers \cup {None} /\ row.mode \in {"api", "cli"}
        /\ row.on \in BOOLEAN
    OBVIOUS
  <2>5. b \in Providers => vault[b] \in {b, None}
    BY DEF KeyFitsBackend
  <2>6. /\ RowType' /\ row'.backend = b /\ row'.key = vault[b]
        /\ off' => ~row'.on /\ off
        /\ off' \in BOOLEAN
    <3>1. CASE SaveUser(b, vault[b], row.mode, row.on) /\ UNCHANGED off
      BY <2>4, <3>1, SavedRow DEF BothOff
    <3>2. CASE SaveUser(b, vault[b], "api", TRUE) /\ off' = FALSE
      BY <2>4, <3>2, SavedRow
    <3> QED
      BY <2>2, <3>1, <3>2
  <2>7. KeyFitsBackend' /\ BothOff'
    BY <2>1, <2>3, <2>5, <2>6 DEF KeyFitsBackend, BothOff
  <2> QED
    BY <2>1, <2>2, <2>3, <2>6, <2>7, ChangeRest DEF SettingsBackend, RowType
<1>2. CASE vault[b] = None /\ b = "ollama"
  <2>1. /\ row' = IF row = NoRow THEN row ELSE [row EXCEPT !.backend = b]
        /\ ai' = [ai EXCEPT !.backend = b]
        /\ UNCHANGED <<vault, waiting, off, faults>>
    BY <1>2, NamesApart DEF SettingsBackend
  <2>2. /\ row' \in [backend : Backends \cup {None}, key : Providers \cup {None},
                     mode : {"api", "cli"}, on : BOOLEAN]
        /\ row' # NoRow => row'.backend \in Backends
        /\ row'.backend \notin Providers /\ row'.on = row.on
    <3>1. CASE row = NoRow
      BY <2>1, <3>1, NamesApart DEF NoRow
    <3>2. CASE row # NoRow
      BY <1>2, <2>1, <3>2, NamesApart
    <3> QED
      BY <3>1, <3>2
  <2>3. /\ ai' \in [on : BOOLEAN, backend : Backends \cup CLIs, conn : {"api", "cli"}]
        /\ ai'.on = ai.on
    BY <2>1
  <2>4. SettingsInv'
    BY <2>1, <2>2, <2>3 DEF KeyFitsBackend, BothOff
  <2> QED
    BY <2>1, <2>4, ChangeRest DEF SettingsBackend, CountInv
<1>3. CASE vault[b] = None /\ b \in Providers
  <2>1. /\ waiting' = [backend |-> b, since |-> now] /\ now \in Nat
        /\ UNCHANGED <<ai, row, vault, off, faults>>
    BY <1>3, NamesApart DEF SettingsBackend, TalkInv
  <2>2. SettingsInv'
    BY <1>3, <2>1 DEF KeyFitsBackend, BothOff
  <2> QED
    BY <2>1, <2>2, ChangeRest DEF SettingsBackend, CountInv
<1> QED
  BY <1>1, <1>2, <1>3 DEF SettingsBackend

LEMMA CancelIInv ==
  ASSUME IInv, Cancel
  PROVE  IInv'
<1>1. SettingsInv'
  BY DEF Cancel, NotWaiting, IInv, SettingsInv, SettingsType, KeyFitsBackend, BothOff
<1> QED
  BY <1>1, ChangeRest DEF Cancel, IInv, CountInv

LEMMA NewTalkIInv ==
  ASSUME IInv, NewTalk
  PROVE  IInv'
<1> USE DEF NewTalk, IInv
<1>1. SettingsInv'
  BY DEF settings, SettingsInv, SettingsType, KeyFitsBackend, BothOff
<1>2. OneTalk(<<>>)'
  BY NoPairs, Numbers DEF OneTalk
<1>3. TalkInv'
  BY <1>2, NoPairs DEF TalkInv, NoTalk, NoSession
<1>4. QuestionInv'
  BY <1>2, NoPairs DEF QuestionInv, Idle, OffMeansOff
<1>5. CountInv'
  BY Numbers DEF counts, CountInv
<1> QED
  BY <1>1, <1>3, <1>4, <1>5

-----------------------------------------------------------------------------
(* Questions.                                                              *)

LEMMA RouteFacts ==
  /\ Route = "key" => Awaited
  /\ Route = "api" => ApiRoute
  /\ Route = "legacy" => ~Public /\ ai.on
BY DEF Route

LEMMA KeyIInv ==
  ASSUME IInv, KeyPasted
  PROVE  IInv'
<1> USE DEF IInv, SettingsInv, SettingsType
<1>1. PICK b \in Providers :
        \/ /\ SaveUser(b, b, "api", TRUE)
           /\ Write(vault' = [vault EXCEPT ![b] = b], UNCHANGED vault)
           /\ ai' = [ai EXCEPT !.backend = b, !.conn = "api"]
           /\ off' = FALSE
        \/ UNCHANGED <<ai, row, vault, off, faults>>
  BY DEF KeyPasted
<1>2. waiting' = NotWaiting
  BY DEF KeyPasted
<1>3. waiting' \in [backend : Providers \cup {None}, since : Nat]
  BY <1>2 DEF NotWaiting
<1>4. CASE /\ SaveUser(b, b, "api", TRUE)
           /\ Write(vault' = [vault EXCEPT ![b] = b], UNCHANGED vault)
           /\ ai' = [ai EXCEPT !.backend = b, !.conn = "api"]
           /\ off' = FALSE
  <2>1. /\ faults' \in 0..MaxFaults
        /\ vault' = [vault EXCEPT ![b] = b] \/ vault' = vault
    BY <1>4, WriteFaults
  <2>2. /\ vault' \in [Backends -> Providers \cup {None}]
        /\ \A c \in Providers : vault'[c] \in {c, None}
    BY <2>1, NamesApart DEF KeyFitsBackend
  <2>3. ai' \in [on : BOOLEAN, backend : Backends \cup CLIs, conn : {"api", "cli"}]
    BY <1>4, NamesApart
  <2>4. RowType' /\ row'.backend = b /\ row'.key = b
    BY <1>4, NamesApart, SavedRow
  <2>5. SettingsInv'
    BY <1>3, <1>4, <2>2, <2>3, <2>4 DEF RowType, KeyFitsBackend, BothOff
  <2> QED
    BY <2>1, <2>5, ChangeRest DEF KeyPasted
<1>5. CASE UNCHANGED <<ai, row, vault, off, faults>>
  <2>1. SettingsInv'
    BY <1>3, <1>5 DEF KeyFitsBackend, BothOff
  <2> QED
    BY <1>5, <2>1, ChangeRest DEF KeyPasted, CountInv
<1> QED
  BY <1>1, <1>4, <1>5

\* What goes with a question belongs to the conversation that is open.
LEMMA ContextFacts ==
  ASSUME TalkInv
  PROVE  /\ OneTalk(Context)
         /\ Context # <<>> => now <= Context[Len(Context)].at + TTL
         /\ Resumed \in {0, epoch}
<1>1. CASE now <= talk.until
  BY <1>1 DEF TalkInv, Context, Resumed
<1>2. CASE ~(now <= talk.until)
  BY <1>2, NothingIsOneTalk DEF TalkInv, Context, Resumed
<1> QED
  BY <1>1, <1>2

\* AI is on in one of the two settings, or the question is not sent.
LEMMA SendQuestion ==
  ASSUME IInv, UNCHANGED <<off, now, epoch>>, ~off,
         NEW at \in {"api", "cli"}, NEW to \in Backends \cup CLIs \cup {None},
         NEW key \in Providers \cup {None}, at = "cli" => to \in Installed /\ key = None,
         NEW context \in {<<>>, Context}, NEW resumed \in {0, Resumed},
         Send(at, to, key, context, resumed)
  PROVE  QuestionInv'
<1>1. /\ OneTalk(context) /\ resumed \in {0, epoch} /\ resumed \in Nat
      /\ context # <<>> => now <= context[Len(context)].at + TTL
      /\ now \in Nat
  BY ContextFacts, NothingIsOneTalk DEF IInv, TalkInv
<1>2. /\ busy'.at = at /\ busy'.to = to /\ busy'.key = key
      /\ busy'.context = context /\ busy'.session = resumed /\ busy'.since = now
  BY DEF Send
<1>3. busy' \in [at : {"idle", "api", "cli"}, to : Backends \cup CLIs \cup {None},
                 key : Providers \cup {None}, context : Seq(Pair),
                 session : Nat, since : Nat]
  BY <1>1 DEF Send, OneTalk
<1>4. OneTalk(busy.context)'
  BY <1>1, <1>2 DEF OneTalk
<1> QED
  BY <1>1, <1>2, <1>3, <1>4 DEF QuestionInv, OffMeansOff

LEMMA CountedOrLapsed ==
  ASSUME IInv, Counted, now' = now, asks' \in 0..MaxAsks, changes' = changes,
         \/ sent' = [sent EXCEPT ![Today] = @ + 1]
         \/ UNCHANGED sent
  PROVE  CountInv'
<1> USE DEF IInv, CountInv
<1>1. Today \in Days
  BY DEF TalkInv, Today, Days
<1>2. CASE /\ DailyLimit = 0 \/ usage[Today] < DailyLimit
           /\ usage' = [usage EXCEPT ![Today] = @ + 1] /\ UNCHANGED <<lapses, faults>>
  BY <1>1, <1>2, Numbers
<1>3. CASE /\ lapses' = [lapses EXCEPT ![Today] = @ + 1] /\ UNCHANGED usage
           /\ faults < MaxFaults /\ faults' = faults + 1
  BY <1>1, <1>3, Numbers
<1> QED
  BY <1>2, <1>3 DEF Counted, Write

LEMMA AskIInv ==
  ASSUME IInv, AskApi \/ AskLegacy
  PROVE  IInv'
<1>1. /\ Question /\ Counted
      /\ Route = "api" \/ Route = "legacy"
  BY DEF AskApi, AskLegacy
<1>2. /\ UNCHANGED <<ai, row, vault, talk, session, now, off, epoch, changes>>
      /\ busy = Idle /\ asks < MaxAsks /\ asks' = asks + 1
      /\ waiting' \in {waiting, NotWaiting}
  BY <1>1 DEF Question
<1>3. ~off
  BY <1>1, RouteFacts DEF ApiRoute, IInv, SettingsInv, BothOff
<1>4. SettingsInv'
  BY <1>2 DEF NotWaiting, IInv, SettingsInv, SettingsType, KeyFitsBackend, BothOff
<1>5. TalkInv'
  BY <1>2 DEF IInv, TalkInv, OneTalk
<1>6. row.key \in Providers \cup {None} /\ row.backend \in Backends \cup {None}
      /\ ai.backend \in Backends \cup CLIs
  BY DEF IInv, SettingsInv, SettingsType
<1>7. /\ \/ NotSent
         \/ \E at \in {"api", "cli"}, to \in Backends \cup CLIs \cup {None},
               key \in Providers \cup {None}, context \in {<<>>, Context},
               resumed \in {0, Resumed} :
              /\ at = "cli" => to \in Installed /\ key = None
              /\ Send(at, to, key, context, resumed)
  <2>1. CASE AskApi
    <3>1. ASSUME Send("api", row.backend, IF row.backend = "ollama" THEN None ELSE row.key,
                      Context, 0)
          PROVE  \E key \in Providers \cup {None} :
                   Send("api", row.backend, key, Context, 0)
      BY <1>6, <3>1
    <3>2. NotSent \/ \E key \in Providers \cup {None} :
                       Send("api", row.backend, key, Context, 0)
      BY <2>1, <3>1 DEF AskApi
    <3> QED
      BY <1>6, <3>2
  <2>2. CASE AskLegacy
    <3>1. CASE ai.backend \in Backends /\ Send("api", ai.backend, row.key, Context, 0)
      BY <1>6, <3>1
    <3>2. CASE AskCLI
      <4> DEFINE cli == CLIOf(ai.backend)
      <4>1. CASE NotSent
        BY <4>1
      <4>2. ASSUME cli \in Installed,
                   Send("cli", cli, None, <<>>, IF cli = "claude" THEN Resumed ELSE 0)
            PROVE  \E resumed \in {0, Resumed} : Send("cli", cli, None, <<>>, resumed)
        BY <4>2
      <4>3. cli \in Backends \cup CLIs
        BY <1>6 DEF CLIOf, CLIs
      <4> HIDE DEF cli
      <4>4. \/ NotSent
            \/ /\ cli \in Installed
               /\ \E resumed \in {0, Resumed} : Send("cli", cli, None, <<>>, resumed)
        BY <3>2, <4>2 DEF AskCLI, cli
      <4> QED
        BY <4>3, <4>4
    <3> QED
      BY <2>2, <3>1, <3>2 DEF AskLegacy
  <2> QED
    BY <2>1, <2>2
<1>8. QuestionInv'
  <2>1. CASE NotSent
    BY <1>2, <2>1 DEF NotSent, IInv, QuestionInv, OneTalk, OffMeansOff
  <2> QED
    BY <1>2, <1>3, <1>7, <2>1, SendQuestion
<1>9. CountInv'
  <2>1. \/ sent' = [sent EXCEPT ![Today] = @ + 1]
        \/ UNCHANGED sent
    BY <1>7 DEF Send, NotSent
  <2>2. asks' \in 0..MaxAsks
    BY <1>2, Numbers DEF IInv, CountInv
  <2> QED
    BY <1>1, <1>2, <2>1, <2>2, CountedOrLapsed
<1> QED
  BY <1>4, <1>5, <1>8, <1>9 DEF IInv

-----------------------------------------------------------------------------
(* Answers.                                                                *)

LEMMA AppendPair ==
  ASSUME NEW c \in Seq(Pair), NEW p \in Pair
  PROVE  /\ Append(c, p) \in Seq(Pair) /\ Len(Append(c, p)) = Len(c) + 1
         /\ Append(c, p)[Len(c) + 1] = p
         /\ \A i \in 1..Len(c) : Append(c, p)[i] = c[i]
OBVIOUS

LEMMA FirstKeptFacts ==
  ASSUME NEW all \in Seq(Pair), all # <<>>
  PROVE  /\ FirstKept(all) \in 1..Len(all)
         /\ Len(all) - FirstKept(all) < MaxPairs
<1> DEFINE Fit == {n \in 1..Len(all) : Fits(all, n)}
<1>1. Len(all) \in Nat /\ Len(all) > 0
  OBVIOUS
<1>2. Len(all) \in Fit
  BY <1>1 DEF Fits
<1>3. PICK n \in Fit : \A m \in Fit : n <= m
  <2>1. Fit \subseteq Nat /\ Fit # {}
    BY <1>2
  <2> HIDE DEF Fit
  <2> QED
    BY <2>1, LeastNumber
<1>4. n \in 1..Len(all) /\ Fits(all, n) /\ \A m \in 1..(n - 1) : ~Fits(all, m)
  <2>1. ASSUME NEW m \in 1..(n - 1), Fits(all, m)
        PROVE  FALSE
    <3>1. m \in Fit
      BY <1>1, <1>3, <2>1
    <3> QED
      BY <1>3, <2>1, <3>1
  <2> QED
    BY <1>3, <2>1
<1>5. FirstKept(all) \in 1..Len(all) /\ Fits(all, FirstKept(all))
  BY <1>4 DEF FirstKept
<1> QED
  BY <1>1, <1>5, Numbers DEF Fits

LEMMA AddTalk ==
  ASSUME IInv, NEW size \in 1..MaxBytes, Add(size), UNCHANGED <<now, epoch, session>>
  PROVE  TalkInv'
<1> DEFINE p == [at |-> now, size |-> size, epoch |-> epoch]
           all == Append(Context, p)
           first == FirstKept(all)
           kept == SubSeq(all, first, Len(all))
<1>1. OneTalk(Context) /\ (Context # <<>> => now <= Context[Len(Context)].at + TTL)
  BY ContextFacts DEF IInv
<1>2. p \in Pair /\ p.at = now /\ p.epoch = epoch /\ now \in Nat
  BY Numbers DEF IInv, TalkInv, Pair
<1>3. talk' = [pairs |-> kept, until |-> now + TTL]
  BY DEF Add, Context
<1> HIDE DEF p
<1>4. /\ all \in Seq(Pair) /\ Len(all) = Len(Context) + 1 /\ all[Len(all)] = p
      /\ \A i \in 1..Len(Context) : all[i] = Context[i]
      /\ Len(Context) \in Nat /\ Len(all) \in Nat
  BY <1>1, <1>2, AppendPair DEF OneTalk
<1> HIDE DEF all
<1>5. /\ \A i \in 1..Len(all) : all[i].epoch = epoch
      /\ \A i \in 2..Len(all) : all[i].at <= all[i - 1].at + TTL
  <2>1. ASSUME NEW i \in 1..Len(all)
        PROVE  all[i].epoch = epoch
    BY <1>1, <1>2, <1>4 DEF OneTalk
  <2>2. ASSUME NEW i \in 2..Len(all)
        PROVE  all[i].at <= all[i - 1].at + TTL
    <3>1. CASE i = Len(all)
      <4>1. Context # <<>> /\ i - 1 = Len(Context)
        BY <1>1, <1>4, <3>1 DEF OneTalk
      <4> QED
        BY <1>1, <1>2, <1>4, <3>1, <4>1
    <3>2. CASE i # Len(all)
      BY <1>1, <1>4, <3>2 DEF OneTalk
    <3> QED
      BY <3>1, <3>2
  <2> QED
    BY <2>1, <2>2
<1>6. first \in 1..Len(all) /\ Len(all) - first < MaxPairs
  <2>1. all # <<>>
    BY <1>4
  <2> QED
    BY <1>4, <2>1, FirstKeptFacts
<1> HIDE DEF first
<1>7. /\ kept \in Seq(Pair) /\ Len(kept) = Len(all) - first + 1
      /\ \A i \in 1..Len(kept) : kept[i] = all[first + i - 1]
  <2>1. /\ first \in Int /\ Len(all) \in Int /\ first <= Len(all)
        /\ \A i \in first..Len(all) : all[i] \in Pair
    BY <1>4, <1>6
  <2> QED
    BY <2>1, SubSeqProperties
<1> HIDE DEF kept
<1>8. OneTalk(kept) /\ kept # <<>> /\ kept[Len(kept)].at = now
  <2>1. Len(kept) <= MaxPairs /\ Len(kept) \in Nat /\ kept # <<>>
    BY <1>4, <1>6, <1>7, Numbers
  <2>2. \A i \in 1..Len(kept) : kept[i].epoch = epoch
    BY <1>4, <1>5, <1>6, <1>7, <2>1
  <2>3. \A i \in 2..Len(kept) : kept[i].at <= kept[i - 1].at + TTL
    <3>1. ASSUME NEW i \in 2..Len(kept)
          PROVE  kept[i].at <= kept[i - 1].at + TTL
      <4> DEFINE j == first + i - 1
      <4>1. j \in 2..Len(all) /\ kept[i] = all[j] /\ kept[i - 1] = all[j - 1]
        <5>1. j \in 2..Len(all) /\ i - 1 \in 1..Len(kept) /\ first + (i - 1) - 1 = j - 1
          BY <1>4, <1>6, <1>7, <2>1
        <5> HIDE DEF j
        <5>2. kept[i - 1] = all[j - 1]
          BY <1>7, <5>1
        <5>3. kept[i] = all[j]
          BY <1>7, <2>1 DEF j
        <5> QED
          BY <5>1, <5>2, <5>3
      <4> QED
        BY <1>5, <4>1
    <3> QED
      BY <3>1
  <2>4. kept[Len(kept)] = all[Len(all)]
    BY <1>4, <1>6, <1>7, <2>1
  <2> QED
    BY <1>2, <1>4, <1>7, <2>1, <2>2, <2>3, <2>4 DEF OneTalk
<1>9. talk' \in [pairs : Seq(Pair), until : Nat]
  BY <1>2, <1>3, <1>7, Numbers
<1>10. OneTalk(talk.pairs)' /\ talk'.until = talk'.pairs[Len(talk'.pairs)].at + TTL
  BY <1>3, <1>8 DEF OneTalk
<1> QED
  BY <1>9, <1>10 DEF IInv, TalkInv

LEMMA AnswerIInv ==
  ASSUME IInv, Answered, TalkInv'
  PROVE  IInv'
<1>1. /\ UNCHANGED <<ai, row, vault, waiting, now, off, epoch, usage, sent, lapses,
                     asks, changes, faults>>
      /\ busy' = Idle
  BY DEF Answered, settings, counts
<1>2. SettingsInv' /\ CountInv'
  BY <1>1 DEF IInv, SettingsInv, SettingsType, KeyFitsBackend, BothOff, CountInv
<1>3. OneTalk(<<>>)'
  BY NoPairs, Numbers DEF OneTalk
<1>4. QuestionInv'
  BY <1>1, <1>3, NoPairs DEF QuestionInv, Idle, OffMeansOff
<1> QED
  BY <1>2, <1>4 DEF IInv

LEMMA ApiIInv ==
  ASSUME IInv, ApiAnswer
  PROVE  IInv'
<1>1. PICK size \in 1..MaxBytes : Add(size) /\ Answered /\ UNCHANGED session
  BY DEF ApiAnswer
<1> QED
  BY <1>1, AddTalk, AnswerIInv DEF Answered

LEMMA CliIInv ==
  ASSUME IInv, CliAnswer \/ NoAnswer
  PROVE  IInv'
<1>1. Answered /\ UNCHANGED talk
  BY DEF CliAnswer, NoAnswer
<1>2. /\ UNCHANGED <<now, epoch>>
      /\ session' = session \/ \E e \in {busy.session, epoch} : Set(e)
  BY <1>1 DEF Answered, CliAnswer, NoAnswer
<1>3. /\ session' \in [epoch : Nat, until : Nat]
      /\ session'.epoch \in {0, epoch}
  BY <1>2, Numbers DEF Set, IInv, TalkInv, QuestionInv
<1>4. TalkInv'
  BY <1>1, <1>2, <1>3 DEF IInv, TalkInv, OneTalk
<1> QED
  BY <1>1, <1>4, AnswerIInv

-----------------------------------------------------------------------------
(* Time, eviction and restarts.                                            *)

LEMMA TimeIInv ==
  ASSUME IInv, Tick \/ EvictTalk \/ EvictSession \/ EvictWaiting
  PROVE  IInv'
<1>1. /\ UNCHANGED <<ai, row, vault, busy, off, epoch, usage, sent, lapses, asks,
                     changes, faults>>
      /\ waiting' \in {waiting, NotWaiting}
      /\ talk' \in {talk, NoTalk} /\ session' \in {session, NoSession}
      /\ now' = now \/ (now < MaxTime /\ now' = now + 1)
  BY DEF Tick, EvictTalk, EvictSession, EvictWaiting, Evicted, settings, counts
<1>2. SettingsInv' /\ CountInv'
  BY <1>1 DEF NotWaiting, IInv, SettingsInv, SettingsType, KeyFitsBackend, BothOff,
     CountInv
<1>3. QuestionInv'
  BY <1>1 DEF IInv, QuestionInv, OneTalk, OffMeansOff
<1>4. now' \in 0..MaxTime
  BY <1>1, Numbers DEF IInv, TalkInv
<1>5. /\ talk' \in [pairs : Seq(Pair), until : Nat] /\ OneTalk(talk.pairs)'
      /\ LET c == talk'.pairs IN c # <<>> => talk'.until = c[Len(c)].at + TTL
  <2>1. CASE talk' = talk
    BY <1>1, <2>1 DEF IInv, TalkInv, OneTalk
  <2>2. CASE talk' = NoTalk
    <3>1. talk'.pairs = <<>> /\ talk' \in [pairs : Seq(Pair), until : Nat]
      BY <2>2, NoPairs DEF NoTalk
    <3> QED
      BY <3>1, NoPairs, Numbers DEF OneTalk
  <2> QED
    BY <1>1, <2>1, <2>2
<1>6. TalkInv'
  BY <1>1, <1>4, <1>5 DEF NoSession, IInv, TalkInv
<1> QED
  BY <1>2, <1>3, <1>6 DEF IInv

\* The key of the row goes to the vault under the backend it was asked for.
LEMMA RestartIInv ==
  ASSUME IInv, Restart
  PROVE  IInv'
<1> USE DEF Restart, IInv
<1>1. OneTalk(<<>>)'
  BY NoPairs, Numbers DEF OneTalk
<1>2. vault' \in [Backends -> Providers \cup {None}]
      /\ \A b \in Providers : vault'[b] \in {b, None}
  <2>1. CASE row.key # None /\ vault[row.backend] = None
    <3>1. row.backend \in Backends /\ row.key \in Providers
      BY <2>1 DEF SettingsInv, SettingsType, NoRow
    <3>2. vault' = [vault EXCEPT ![row.backend] = row.key]
      BY <2>1
    <3> QED
      BY <2>1, <3>1, <3>2, NamesApart DEF SettingsInv, SettingsType, KeyFitsBackend
  <2>2. CASE ~(row.key # None /\ vault[row.backend] = None)
    BY <2>2, NamesApart DEF SettingsInv, SettingsType, KeyFitsBackend
  <2> QED
    BY <2>1, <2>2
<1>3. SettingsInv'
  BY <1>2, NamesApart
  DEF Defaults, NotWaiting, Backends, CLIs, SettingsInv, SettingsType, KeyFitsBackend,
      BothOff
<1>4. TalkInv'
  BY <1>1, NoPairs DEF TalkInv, NoTalk, NoSession
<1>5. QuestionInv'
  BY <1>1, NoPairs DEF QuestionInv, Idle, OffMeansOff
<1>6. CountInv'
  BY Numbers DEF counts, CountInv
<1> QED
  BY <1>3, <1>4, <1>5, <1>6

LEMMA StutterIInv ==
  ASSUME IInv, UNCHANGED vars
  PROVE  IInv'
<1> USE DEF vars, settings, counts, IInv
<1>1. SettingsInv' /\ CountInv'
  BY DEF SettingsInv, SettingsType, KeyFitsBackend, BothOff, CountInv
<1>2. TalkInv' /\ QuestionInv'
  BY DEF TalkInv, QuestionInv, OneTalk, OffMeansOff
<1> QED
  BY <1>1, <1>2

LEMMA StepIInv == IInv /\ [Next]_vars => IInv'
<1> SUFFICES ASSUME IInv, [Next]_vars
             PROVE  IInv'
  OBVIOUS
<1>1. ASSUME NEW c \in CLIs, AiBackend(c)
      PROVE  IInv'
  BY <1>1, BackendIInv
<1>2. ASSUME NEW b \in Backends, ApiKeySetup(b) \/ CLIModeSetup(b) \/ SettingsBackend(b)
      PROVE  IInv'
  BY <1>2, SetupIInv, SwitchIInv
<1>3. ASSUME NEW mode \in {"api", "cli"}, SettingsMode(mode)
      PROVE  IInv'
  BY <1>3, ModeIInv
<1>4. CASE AiOn \/ AiOff \/ Cancel \/ NewTalk \/ KeyPasted
  BY <1>4, OnOff, CancelIInv, NewTalkIInv, KeyIInv
<1>5. CASE AskApi \/ AskLegacy \/ ApiAnswer \/ CliAnswer \/ NoAnswer
  BY <1>5, AskIInv, ApiIInv, CliIInv
<1>6. CASE Tick \/ EvictTalk \/ EvictSession \/ EvictWaiting \/ Restart
  BY <1>6, TimeIInv, RestartIInv
<1>7. CASE UNCHANGED vars
  BY <1>7, StutterIInv
<1> QED
  BY <1>1, <1>2, <1>3, <1>4, <1>5, <1>6, <1>7 DEF Next

LEMMA Invariance == Spec => []IInv
BY InitIInv, StepIInv, PTL DEF Spec

-----------------------------------------------------------------------------
(* Keys are named by backends and counters are within bounds.              *)
THEOREM ModeTypes == Spec => []TypeOK
<1>1. IInv => TypeOK
  <2> SUFFICES ASSUME IInv
               PROVE  TypeOK
    OBVIOUS
  <2>1. SettingsInv => /\ ai.on \in BOOLEAN /\ ai.backend \in Backends \cup CLIs
                       /\ ai.conn \in {"api", "cli"}
                       /\ row = NoRow \/ row.backend \in Backends
                       /\ row.key \in Providers \cup {None} /\ row.mode \in {"api", "cli"}
                       /\ row.on \in BOOLEAN
                       /\ \A b \in Backends : vault[b] \in Providers \cup {None}
                       /\ waiting.backend \in Providers \cup {None}
    BY DEF SettingsInv, SettingsType
  <2>2. Len(talk.pairs) <= MaxPairs
    BY DEF IInv, TalkInv, OneTalk
  <2>3. /\ busy.at \in {"idle", "api", "cli"}
        /\ busy.at = "cli" => busy.to \in Installed /\ busy.key = None
    BY DEF IInv, QuestionInv
  <2>4. asks <= MaxAsks /\ changes <= MaxChanges /\ faults <= MaxFaults
    BY Numbers DEF IInv, CountInv
  <2> QED
    BY <2>1, <2>2, <2>3, <2>4 DEF IInv, TypeOK
<1> QED
  BY <1>1, Invariance, PTL

(* After an /ai off that reached the store nothing goes to an AI, whatever *)
(* was switched, restored or restarted since, until AI is set again.  An   *)
(* /ai off whose write failed is not spoken of.  (handleAICommand)         *)
THEOREM OffStaysOff == Spec => []OffMeansOff
BY Invariance, PTL DEF IInv, QuestionInv

(* The row and the vault hold, for each provider, a key of that provider   *)
(* or none.  Where a key is sent is not spoken of: the legacy route may    *)
(* pair the row's key with another backend.  (SettingsBackend, migrate)    *)
THEOREM KeysStayApart == Spec => []KeyFitsBackend
BY Invariance, PTL DEF IInv, SettingsInv

(* A question's context is one conversation.  (conversationStore)          *)
THEOREM ContextsAreWhole == Spec => []ContextIsOneTalk
<1>1. IInv => ContextIsOneTalk
  BY DEF IInv, QuestionInv, OneTalk, ContextIsOneTalk
<1> QED
  BY <1>1, Invariance, PTL

(* The daily limit holds, beyond what an error of the store let through.   *)
(* (checkAndIncrementUsage)                                                *)
THEOREM LimitIsKept == Spec => []LimitHolds
<1>1. IInv => LimitHolds
  <2> SUFFICES ASSUME IInv, DailyLimit > 0, NEW d \in Days
               PROVE  sent[d] <= DailyLimit + lapses[d]
    BY DEF LimitHolds
  <2>1. sent[d] \in Nat /\ usage[d] \in Nat /\ lapses[d] \in Nat
    BY DEF IInv, CountInv
  <2> QED
    BY <2>1, Numbers DEF IInv, CountInv
<1> QED
  BY <1>1, Invariance, PTL
=============================================================================
