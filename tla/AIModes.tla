------------------------------ MODULE AIModes ------------------------------
(***************************************************************************)
(* Conversations with an AI provider.  Where a text goes is decided by two *)
(* settings that are changed apart: aiState in memory (/ai, /claude) and   *)
(* the user's row in the store (/onboard, /settings, and /ai on, /ai off), *)
(* with a vault of keys beside it.  The update loop handles one update at  *)
(* a time and waits for the provider's answer, so only time, eviction and  *)
(* a restart come between a question and its answer.                       *)
(*                                                                         *)
(* Users share none of this state; one is modelled.  A key is named by the *)
(* backend whose key it is: a user who is asked for one pastes that one,   *)
(* and in workspace mode any, which its prefix tells apart.  Model names are left out, and so is what no  *)
(* command reaches: the wait for a model name, claudeToggle, inflight.     *)
(* A read of the store fails in SettingsBackend and in Counted only: there *)
(* the code goes on.                                                       *)
(***************************************************************************)
EXTENDS Naturals, Sequences, FiniteSets

CONSTANTS Providers,   \* backends with an API key
          Public,      \* the bot is in public mode
          Workspace,   \* the bot is in workspace mode
          Owner,       \* who owns the bot: this user, another, nobody
          Installed,   \* CLI binaries of the host
          DailyLimit,  \* 0: none
          TTL,         \* of a wait for a key, of a conversation, of a session
          Day,         \* length of a day
          MaxPairs, MaxBytes,  \* limits of a conversation
          MaxTime,     \* bound: the clock
          MaxChanges,  \* bound: commands and buttons
          MaxAsks,     \* bound: questions
          MaxFaults    \* bound: failed calls of the store, and restarts

ASSUME ModeBounds ==
  /\ Providers \cap {"ollama", "none"} = {}
  /\ Public \in BOOLEAN /\ Workspace \in BOOLEAN /\ Owner \in {"self", "other", "nobody"}
  /\ {DailyLimit, TTL, MaxBytes, MaxTime, MaxChanges, MaxAsks, MaxFaults} \subseteq Nat
  /\ Day \in Nat \ {0} /\ MaxPairs \in Nat \ {0}

Backends == Providers \cup {"ollama"}
CLIs == {"claude", "codex", "gemini", "ollama"}
CLIOf(b) == IF b = "openai" THEN "codex" ELSE b    \* CLIBinaryForBackend
None == "none"

VARIABLES
  ai,       \* aiState: on, backend, conn
  row,      \* the user's row of the store, or NoRow
  vault,    \* api_keys: the key stored under each backend, or None
  waiting,  \* onboarding: the backend whose key is awaited, and since when
  talk,     \* conversationStore: answered pairs, and when they expire
  session,  \* sessionStore: the session's talk, and when it expires
  usage,    \* messages counted on each day
  busy,     \* the question the loop waits for, or Idle
  now,
  off,      \* history: the user turned AI off, and not on again
  epoch,    \* history: conversations begun (/new, restart)
  sent,     \* history: questions sent on each day
  lapses,   \* history: questions let through or not counted for an error
  asks, changes, faults

settings == <<ai, row, vault, waiting>>
counts == <<usage, sent, lapses, asks>>
vars == <<settings, talk, session, busy, now, off, epoch, counts, changes, faults>>

NoRow == [backend |-> None, key |-> None, mode |-> "cli", on |-> FALSE]
NoTalk == [pairs |-> <<>>, until |-> 0]
NoSession == [epoch |-> 0, until |-> 0]
Idle == [at |-> "idle", to |-> None, key |-> None, context |-> <<>>, session |-> 0, since |-> 0]
NotWaiting == [backend |-> None, since |-> 0]
Days == {t \div Day : t \in 0..MaxTime}
Today == now \div Day
Defaults == [on |-> FALSE, backend |-> "claude", conn |-> "cli"]

Init ==
  /\ ai = Defaults /\ row = NoRow
  /\ vault = [b \in Backends |-> None]
  /\ waiting = NotWaiting
  /\ talk = NoTalk /\ session = NoSession
  /\ usage = [d \in Days |-> 0]
  /\ busy = Idle
  /\ now = 0
  /\ off = FALSE /\ epoch = 1
  /\ sent = [d \in Days |-> 0] /\ lapses = [d \in Days |-> 0]
  /\ asks = 0 /\ changes = 0 /\ faults = 0

-----------------------------------------------------------------------------
(* Commands and buttons.  A button may be pressed long after it was shown. *)

Change ==
  /\ busy = Idle
  /\ changes < MaxChanges /\ changes' = changes + 1
  /\ UNCHANGED <<talk, session, busy, now, epoch, counts>>

\* A write to the store is done, or fails.
Write(done, failed) ==
  \/ done /\ UNCHANGED faults
  \/ failed /\ faults < MaxFaults /\ faults' = faults + 1

SetEnabledInMemory(on) ==  \* mutant: the row keeps AI on
  /\ ai' = [ai EXCEPT !.on = on]
  /\ UNCHANGED <<row, vault, waiting, faults>>

\* /ai on and /ai off change memory, and the row if there is one.
SetEnabled(on) ==
  /\ ai' = [ai EXCEPT !.on = on]
  /\ UNCHANGED <<vault, waiting>>
  /\ Write(row' = IF row = NoRow THEN row ELSE [row EXCEPT !.on = on],
           UNCHANGED row)

AiOn  == Change /\ SetEnabled(TRUE) /\ off' = FALSE
AiOff == Change /\ SetEnabled(FALSE) /\ off' = (faults' = faults)

\* /ai <backend>, and /claude on: memory only.
AiBackend(c) ==
  /\ Change
  /\ c \in Installed
  /\ ai' = [ai EXCEPT !.on = TRUE, !.backend = c]
  /\ off' = FALSE
  /\ UNCHANGED <<row, vault, waiting, faults>>

SaveUser(b, key, mode, on) == row' = [backend |-> b, key |-> key, mode |-> mode, on |-> on]

\* handleAPIKeySetup: by /onboard in public mode, by "mode:api:", and by a
\* switch to a backend that has no key.
AskForKey(b) ==
  /\ b \in Providers
  /\ waiting' = [backend |-> b, since |-> now]
  /\ UNCHANGED <<ai, row, vault, off, faults>>

SetUpOllama ==
  /\ Write(SaveUser("ollama", None, "api", TRUE) /\ off' = FALSE, UNCHANGED <<row, off>>)
  /\ UNCHANGED <<ai, vault, waiting>>

ApiKeySetup(b) == Change /\ (AskForKey(b) \/ (b = "ollama" /\ SetUpOllama))

\* The row forgets the key; a failed write is only logged.
CLIModeSetup(b) ==
  /\ Change
  /\ ~Public /\ Owner = "self" /\ CLIOf(b) \in Installed
  /\ Write(SaveUser(b, None, "cli", TRUE), UNCHANGED row)
  /\ ai' = [on |-> TRUE, backend |-> b, conn |-> "cli"]
  /\ off' = FALSE
  /\ UNCHANGED <<vault, waiting>>

SettingsMode(mode) ==
  /\ Change
  /\ mode = "cli" => row # NoRow /\ CLIOf(row.backend) \in Installed
  /\ row' = IF row = NoRow THEN row ELSE [row EXCEPT !.mode = mode]
  /\ ai' = [ai EXCEPT !.conn = mode]
  /\ UNCHANGED <<vault, waiting, off, faults>>

\* mutant: the row takes the new backend and keeps the old key
SettingsBackendKeepsKey(b) ==
  /\ Change
  /\ row' = IF row = NoRow THEN row ELSE [row EXCEPT !.backend = b]
  /\ ai' = [ai EXCEPT !.backend = b]
  /\ UNCHANGED <<vault, waiting, off, faults>>

\* A stored key is restored with its backend; if the row cannot be read the
\* switch also turns AI on.  Without a key only ollama can be switched to.
SettingsBackend(b) ==
  /\ Change
  /\ \/ /\ vault[b] # None
        /\ Write(SaveUser(b, vault[b], row.mode, row.on) /\ UNCHANGED off,
                 SaveUser(b, vault[b], "api", TRUE) /\ off' = FALSE)
        /\ ai' = [ai EXCEPT !.backend = b]
        /\ UNCHANGED <<vault, waiting>>
     \/ /\ vault[b] = None /\ b = "ollama"
        /\ row' = IF row = NoRow THEN row ELSE [row EXCEPT !.backend = b]
        /\ ai' = [ai EXCEPT !.backend = b]
        /\ UNCHANGED <<vault, waiting, off, faults>>
     \/ /\ vault[b] = None /\ b \in Providers
        /\ waiting' = [backend |-> b, since |-> now]
        /\ UNCHANGED <<ai, row, vault, off, faults>>

Cancel ==
  /\ Change
  /\ waiting' = NotWaiting
  /\ UNCHANGED <<ai, row, vault, off, faults>>

\* /new, /clear, /reset
NewTalk ==
  /\ busy = Idle
  /\ changes < MaxChanges /\ changes' = changes + 1
  /\ talk' = NoTalk /\ session' = NoSession
  /\ epoch' = epoch + 1
  /\ UNCHANGED <<settings, busy, now, off, counts, faults>>

-----------------------------------------------------------------------------
(* Text: handleUpdate takes the first of these routes that is open.        *)

Awaited == waiting.backend # None /\ now <= waiting.since + TTL
ApiRoute == row.on /\ row.mode = "api" /\ (row.key # None \/ row.backend = "ollama")
Route == CASE Awaited                                   -> "key"
           [] ~Awaited /\ ApiRoute                      -> "api"
           [] ~Awaited /\ ~ApiRoute /\ ~Public /\ ai.on -> "legacy"
           [] OTHER                                     -> "other"

\* detectKeyBackend, where there is a workspace session, tells the backend by
\* the key; anywhere else the key is that of the backend waited for.
Pasted(b) == b = waiting.backend \/ (Workspace /\ b \in Providers)

\* handleOnboardingInput: the text is the key.
KeyPasted ==
  /\ Route = "key" /\ Change
  /\ waiting' = NotWaiting
  /\ \E b \in Providers :
        /\ Pasted(b)
        /\ \/ /\ SaveUser(b, b, "api", TRUE)
              /\ Write(vault' = [vault EXCEPT ![b] = b], UNCHANGED vault)
              /\ ai' = [ai EXCEPT !.backend = b, !.conn = "api"]
              /\ off' = FALSE
           \/ UNCHANGED <<ai, row, vault, off, faults>>   \* too short, or not saved

CountedPastLimit ==  \* mutant: > for >=
  Write(/\ DailyLimit = 0 \/ usage[Today] <= DailyLimit
        /\ usage' = [usage EXCEPT ![Today] = @ + 1] /\ UNCHANGED lapses,
        lapses' = [lapses EXCEPT ![Today] = @ + 1] /\ UNCHANGED usage)

\* checkAndIncrementUsage: the count of today stands before the question.
Counted ==
  LET allowed == DailyLimit = 0 \/ usage[Today] < DailyLimit
  IN Write(/\ allowed
           /\ usage' = [usage EXCEPT ![Today] = @ + 1] /\ UNCHANGED lapses,
           \* the count cannot be read, or not be written
           lapses' = [lapses EXCEPT ![Today] = @ + 1] /\ UNCHANGED usage)

Question ==
  /\ busy = Idle /\ asks < MaxAsks /\ asks' = asks + 1
  /\ waiting' = IF Awaited THEN waiting ELSE NotWaiting
  /\ UNCHANGED <<ai, row, vault, talk, session, now, off, epoch, changes>>

Context == IF now <= talk.until THEN talk.pairs ELSE <<>>
Resumed == IF session # NoSession /\ now <= session.until THEN session.epoch ELSE 0

Send(at, to, key, context, resumed) ==
  /\ busy' = [at |-> at, to |-> to, key |-> key, context |-> context,
              session |-> resumed, since |-> now]
  /\ sent' = [sent EXCEPT ![Today] = @ + 1]

NotSent == UNCHANGED <<busy, sent>>

\* handleAPIAIMessage: everything from the row.  A key that cannot be
\* decrypted ends the question after it was counted.
AskApi ==
  /\ Route = "api" /\ Question /\ Counted
  /\ \/ Send("api", row.backend, IF row.backend = "ollama" THEN None ELSE row.key, Context, 0)
     \/ row.backend # "ollama" /\ NotSent

AskCLIUnchecked ==  \* mutant: no look for the binary
  LET cli == CLIOf(ai.backend)
  IN IF Owner # "other"
     THEN Send("cli", cli, None, <<>>, IF cli = "claude" THEN Resumed ELSE 0)
     ELSE NotSent

\* handleAIMessageCLI: the backend of memory, on the host.
AskCLI ==
  LET cli == CLIOf(ai.backend)
  IN IF Owner # "other" /\ cli \in Installed
     THEN Send("cli", cli, None, <<>>, IF cli = "claude" THEN Resumed ELSE 0)
     ELSE NotSent

\* handleAIMessage: the backend of memory, with the row's key if the
\* connection is "api" and there is one.
AskLegacy ==
  /\ Route = "legacy" /\ Question /\ Counted
  /\ IF ai.conn = "api" /\ row.key # None
     THEN \/ ai.backend \in Backends /\ Send("api", ai.backend, row.key, Context, 0)
          \/ NotSent             \* not decrypted, or codex: an unknown backend
     ELSE AskCLI

Answered == UNCHANGED <<settings, now, off, epoch, counts, changes, faults>> /\ busy' = Idle

AddToExpired(size) ==  \* mutant: an expired conversation goes on
  talk' = [pairs |-> SubSeq(Append(talk.pairs, [at |-> now, size |-> size, epoch |-> epoch]),
                            IF Len(talk.pairs) >= MaxPairs THEN 2 ELSE 1, Len(talk.pairs) + 1),
           until |-> now + TTL]

\* A conversation keeps the newest pairs that are within the limits, and the
\* last one in any case.
Bytes(all, n) ==
  LET sum[i \in 0..Len(all)] == IF i < n THEN 0 ELSE all[i].size + sum[i - 1]
  IN IF n = 0 THEN 0 ELSE sum[Len(all)]
Fits(all, n) ==
  n = Len(all) \/ (Len(all) - n < MaxPairs /\ Bytes(all, n) <= MaxBytes)
FirstKept(all) ==
  CHOOSE n \in 1..Len(all) : Fits(all, n) /\ \A m \in 1..(n - 1) : ~Fits(all, m)

\* conversationStore.Add: a new conversation if the old one has expired by now.
Add(size) ==
  LET old == IF now <= talk.until THEN talk.pairs ELSE <<>>
      all == Append(old, [at |-> now, size |-> size, epoch |-> epoch])
  IN talk' = [pairs |-> SubSeq(all, FirstKept(all), Len(all)), until |-> now + TTL]

ApiAnswer == \E size \in 1..MaxBytes :
  busy.at = "api" /\ Add(size) /\ Answered /\ UNCHANGED session

\* sessionStore.Set: the session is good for another TTL.
Set(e) == session' = [epoch |-> e, until |-> now + TTL]

\* Claude's CLI names its session: the resumed one, or a new one.
CliAnswer ==
  /\ busy.at = "cli" /\ Answered
  /\ IF busy.to # "claude" THEN UNCHANGED session
     ELSE Set(IF busy.session # 0 THEN busy.session ELSE epoch)
  /\ UNCHANGED talk

\* An error, a timeout after 60 s, or an empty answer.
NoAnswer == busy # Idle /\ Answered /\ UNCHANGED <<talk, session>>

-----------------------------------------------------------------------------
Tick ==
  /\ now < MaxTime /\ now' = now + 1
  /\ UNCHANGED <<settings, talk, session, busy, off, epoch, counts, changes, faults>>

\* Three tickers, each of five minutes.
Evicted == UNCHANGED <<ai, row, vault, busy, now, off, epoch, counts, changes, faults>>
EvictTalk ==
  now > talk.until /\ talk' = NoTalk /\ Evicted /\ UNCHANGED <<waiting, session>>
EvictSession ==
  now > session.until /\ session' = NoSession /\ Evicted /\ UNCHANGED <<waiting, talk>>
EvictWaiting ==
  ~Awaited /\ waiting' = NotWaiting /\ Evicted /\ UNCHANGED <<talk, session>>

\* The daemon stops, at any moment, and starts again: memory is lost, and
\* migrate copies the row's key to the vault if its backend has none there.
Restart ==
  /\ faults < MaxFaults /\ faults' = faults + 1
  /\ ai' = Defaults /\ waiting' = NotWaiting
  /\ talk' = NoTalk /\ session' = NoSession /\ busy' = Idle
  /\ vault' = IF row.key # None /\ vault[row.backend] = None
              THEN [vault EXCEPT ![row.backend] = row.key] ELSE vault
  /\ epoch' = epoch + 1
  /\ UNCHANGED <<row, now, off, counts, changes>>

Next ==
  \/ AiOn \/ AiOff \/ \E c \in CLIs : AiBackend(c)
  \/ \E b \in Backends : ApiKeySetup(b) \/ CLIModeSetup(b) \/ SettingsBackend(b)
  \/ \E mode \in {"api", "cli"} : SettingsMode(mode)
  \/ Cancel \/ NewTalk \/ KeyPasted
  \/ AskApi \/ AskLegacy \/ ApiAnswer \/ CliAnswer \/ NoAnswer
  \/ Tick \/ EvictTalk \/ EvictSession \/ EvictWaiting \/ Restart

Spec == Init /\ [][Next]_vars

-----------------------------------------------------------------------------
(* Properties.                                                             *)

\* Keys are None or named by a backend, a question has a destination, a
\* command-line question has no key, and the counters are within bounds.
TypeOK ==
  /\ ai.on \in BOOLEAN /\ ai.backend \in Backends \cup CLIs /\ ai.conn \in {"api", "cli"}
  /\ row = NoRow \/ row.backend \in Backends
  /\ row.key \in Providers \cup {None} /\ row.mode \in {"api", "cli"} /\ row.on \in BOOLEAN
  /\ \A b \in Backends : vault[b] \in Providers \cup {None}
  /\ waiting.backend \in Providers \cup {None}
  /\ Len(talk.pairs) <= MaxPairs
  /\ busy.at \in {"idle", "api", "cli"}
  /\ busy.at = "cli" => busy.to \in Installed /\ busy.key = None
  /\ asks <= MaxAsks /\ changes <= MaxChanges /\ faults <= MaxFaults

\* After an /ai off whose write to the store succeeded no text is sent to an
\* AI until the user turns it on: not by the route of the other setting, by
\* a switch of backend, or after a restart (handleAICommand;
\* CHANGELOG.md:20).  An /ai off whose write failed leaves the row's AI on,
\* and a switch that cannot read the row turns it on: "off" is then false,
\* and nothing is said.
OffMeansOff == off => busy = Idle

\* The key that the row or the vault holds for a provider is a key of that
\* provider, whatever was switched, restored or migrated since
\* (SettingsBackend, migrate).  AskApi sends the row's key to the row's
\* backend; AskLegacy may send it to another, the one held in memory.
KeyFitsBackend ==
  /\ row.backend \in Providers /\ row.key # None => row.key = row.backend
  /\ \A b \in Providers : vault[b] \in {b, None}

\* The context sent with a question is one conversation: begun after the last
\* /new and the last start, without a gap above the TTL, and within the
\* limit of pairs (conversationStore, sessionStore); no resumed session is older.
ContextIsOneTalk ==
  LET c == busy.context
  IN /\ \A i \in 1..Len(c) : c[i].epoch = epoch
     /\ \A i \in 2..Len(c) : c[i].at <= c[i - 1].at + TTL
     /\ c # <<>> => busy.since <= c[Len(c)].at + TTL
     /\ Len(c) <= MaxPairs
     /\ busy.session \in {0, epoch}

\* No day has more questions than the limit, beyond those that an error of
\* the store let through (checkAndIncrementUsage).
LimitHolds ==
  DailyLimit > 0 => \A d \in Days : sent[d] <= DailyLimit + lapses[d]
=============================================================================
