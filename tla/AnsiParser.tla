----------------------------- MODULE AnsiParser -----------------------------
(***************************************************************************)
(* AnsiParser of the web app (ansi.ts): the terminal's output, character   *)
(* by character, into lines of styled cells.  Characters are collected in  *)
(* currentText and put into the line by flushText, which every sequence    *)
(* that moves the cursor or changes the line or the style calls first.     *)
(*                                                                         *)
(* A cell is a UTF-16 unit and its style.  Wide characters have two units, *)
(* as in a JavaScript string.  A span's style is an object; what deleting  *)
(* and inserting characters write shares the parser's own, Live, which     *)
(* later SGR parameters change in place.  A run of parameter bytes is read *)
(* at once, as the sequence of its numbers.                                *)
(***************************************************************************)
EXTENDS Integers, Sequences, SequencesExt

CONSTANTS Chars, Wide,  \* printable characters; those above U+FFFF among them
          Params,       \* parameters of CSI sequences
          TabStop,      \* 8 in the code
          MaxLines,     \* 5000 in the code
          Slack,        \* 500 in the code
          MaxCol,       \* bound: columns
          MaxEdits      \* bound: characters and CSI sequences that take effect

ASSUME ParserBounds == /\ TabStop \in Nat \ {0} /\ MaxLines \in Nat \ {0} /\ Slack \in Nat
                       /\ MaxCol \in Nat /\ MaxEdits \in Nat
                       /\ Wide \subseteq Chars /\ Params \subseteq Seq(Nat \cup {-1})

VARIABLES style, currentLine, currentText, cursorCol, lines,
          state, csiParams,
          recent,   \* history: the text of the last MaxLines lines finished
          edits

text == <<currentLine, currentText, cursorCol>>
parse == <<state, csiParams>>
vars == <<style, text, lines, parse, recent, edits>>

-----------------------------------------------------------------------------
(* Styles.  A colour is <<>> (none), <<n>> (palette) or <<r, g, b>>.       *)

Attrs == {"bold", "dim", "italic", "underline", "strikethrough", "inverse"}
DefaultStyle == [fg |-> <<>>, bg |-> <<>>, attrs |-> {}]
Live == [object |-> "this.style"]
Valued(s) == IF s = Live THEN style ELSE s

On(p) == {a \in Attrs :
  <<p, a>> \in {<<1, "bold">>, <<2, "dim">>, <<3, "italic">>, <<4, "underline">>,
                <<21, "underline">>, <<7, "inverse">>, <<9, "strikethrough">>}}
Off(p) == {a \in Attrs :
  <<p, a>> \in {<<22, "bold">>, <<22, "dim">>, <<23, "italic">>, <<24, "underline">>,
                <<27, "inverse">>, <<29, "strikethrough">>}}

\* One parameter of SGR that is not the start of an extended colour.
Sgr1(s, p) ==
  CASE p = 0             -> DefaultStyle
    [] p \in 1..29       -> [s EXCEPT !.attrs = (@ \cup On(p)) \ Off(p)]
    [] p \in 30..37      -> [s EXCEPT !.fg = <<p - 30>>]
    [] p \in 90..97      -> [s EXCEPT !.fg = <<p - 90 + 8>>]
    [] p = 39            -> [s EXCEPT !.fg = <<>>]
    [] p \in 40..47      -> [s EXCEPT !.bg = <<p - 40>>]
    [] p \in 100..107    -> [s EXCEPT !.bg = <<p - 100 + 8>>]
    [] p = 49            -> [s EXCEPT !.bg = <<>>]
    [] OTHER             -> s

\* The colour that parameters i + 1 and on give to 38 or 48, with its length;
\* a colour that is cut short is no colour, and its numbers count as styles.
Extended(ps, i) ==
  CASE i + 2 <= Len(ps) /\ ps[i + 1] = 5 -> [skip |-> 2, colour |-> <<ps[i + 2]>>]
    [] i + 4 <= Len(ps) /\ ps[i + 1] = 2 -> [skip |-> 4, colour |-> SubSeq(ps, i + 2, i + 4)]
    [] OTHER                             -> [skip |-> 0, colour |-> <<>>]

\* What a parameter makes of the styles that SGR goes through: the one now,
\* and the one the first 0 left behind, for every 0 takes a new object.
SgrStep(s, ps, i) ==
  LET p == ps[i]
      x == Extended(ps, i)
  IN CASE s.skip > 0 -> [s EXCEPT !.skip = @ - 1]
       [] s.skip = 0 /\ p \in {38, 48} /\ x.skip > 0 ->
            [s EXCEPT !.skip = x.skip,
                      !.now = IF p = 38 THEN [@ EXCEPT !.fg = x.colour]
                                        ELSE [@ EXCEPT !.bg = x.colour]]
       [] s.skip = 0 /\ (p \notin {38, 48} \/ x.skip = 0) ->
            [s EXCEPT !.now = Sgr1(@, p),
                      !.new = @ \/ p = 0,
                      !.old = IF p = 0 /\ ~s.new THEN s.now ELSE @]

SgrSteps(ps) ==
  LET go[i \in 1..(Len(ps) + 1)] ==
        IF i = 1 THEN [now |-> style, old |-> style, new |-> FALSE, skip |-> 0]
                 ELSE SgrStep(go[i - 1], ps, i - 1)
  IN go

Sgr(params) ==
  LET ps == IF params = <<>> THEN <<0>> ELSE params
  IN SgrSteps(ps)[Len(ps) + 1]

-----------------------------------------------------------------------------
(* Lines.  Spans are runs of cells; merging two of them makes the cells of *)
(* the second share the object of the first.                               *)

Blank == " "
Units(c) == IF c \in Wide THEN <<"hi", "lo">> ELSE <<c>>
Styled(us, s) == [i \in 1..Len(us) |-> [unit |-> us[i], style |-> s]]
Spaces(n) == [i \in 1..(IF n > 0 THEN n ELSE 0) |-> Blank]   \* ' '.repeat(n)
TextOf(line) == [i \in 1..Len(line) |-> line[i].unit]
Shown(line) == [i \in 1..Len(line) |-> [line[i] EXCEPT !.style = Valued(@)]]

\* The object of each cell's run: that of its first cell.
RunStyles(line) ==
  LET first[i \in 1..Len(line)] ==
        IF i > 1 /\ Valued(line[i].style) = Valued(line[i - 1].style)
        THEN first[i - 1] ELSE line[i].style
  IN first

Merged(line) == [i \in 1..Len(line) |-> [line[i] EXCEPT !.style = RunStyles(line)[i]]]

\* s.slice(0, n) and s.slice(n) of JavaScript: a negative end counts from the right.
SliceTo(s, n) == SubSeq(s, 1, IF n >= 0 THEN n ELSE Len(s) + n)
SliceFrom(s, n) == SubSeq(s, n + 1, Len(s))

\* A style belongs to a column: with a negative col the units move, their styles do not.
overwriteLineAt(line, col, us, s) ==
  IF us = <<>> THEN line
  ELSE LET old == TextOf(line)
           end == col + Len(us)
           all == SliceTo(old \o Spaces(col - Len(old)), col) \o us \o SliceFrom(old, end)
           StyleAt(i) == IF i > col /\ i <= end THEN s
                         ELSE IF i <= Len(line) THEN line[i].style ELSE DefaultStyle
       IN Merged([i \in 1..Len(all) |-> [unit |-> all[i], style |-> StyleAt(i)]])

truncateLineAt(line, col) == SliceTo(line, IF col < Len(line) THEN col ELSE Len(line))

getCurrentLine == overwriteLineAt(currentLine, cursorCol - Len(currentText), currentText, Live)

-----------------------------------------------------------------------------
(* Text: state "normal".                                                   *)

\* flushText: the line with currentText in it.
Flushed ==
  LET writeCol == cursorCol - Len(currentText)
      padded == currentLine \o Styled(Spaces(writeCol - Len(currentLine)), DefaultStyle)
      same == padded # <<>> /\ Valued(Last(padded).style) = style
  IN IF writeCol >= Len(currentLine) /\ currentText # <<>>
     THEN padded \o Styled(currentText, IF same THEN Last(padded).style ELSE style)
     ELSE overwriteLineAt(currentLine, writeCol, currentText, style)

flushText == currentLine' = Flushed /\ currentText' = <<>>

Init ==
  /\ style = DefaultStyle
  /\ currentLine = <<>> /\ currentText = <<>> /\ cursorCol = 0
  /\ lines = <<>>
  /\ state = "normal" /\ csiParams = <<>>
  /\ recent = <<>> /\ edits = 0

Typed == state = "normal" /\ edits < MaxEdits /\ edits' = edits + 1 /\ UNCHANGED <<style, parse>>

Put(c) ==
  /\ Typed /\ cursorCol < MaxCol
  /\ currentText' = currentText \o Units(c)
  /\ cursorCol' = cursorCol + 1
  /\ UNCHANGED <<currentLine, lines, recent>>

pushLineKeepsOldest(line) ==  \* mutant: the lines cut off are the newest
  LET all == Append(lines, line)
  IN lines' = IF Len(all) > MaxLines + Slack THEN SliceTo(all, MaxLines) ELSE all

pushLine(line) ==
  LET all == Append(lines, line)
  IN lines' = IF Len(all) > MaxLines + Slack
              THEN SliceFrom(all, Len(all) - MaxLines) ELSE all

Newline ==
  /\ Typed
  /\ pushLine(Flushed)
  /\ currentLine' = <<>> /\ currentText' = <<>> /\ cursorCol' = 0
  /\ LET all == Append(recent, TextOf(Flushed))
     IN recent' = SliceFrom(all, IF Len(all) > MaxLines THEN 1 ELSE 0)

CarriageReturn == Typed /\ flushText /\ cursorCol' = 0 /\ UNCHANGED <<lines, recent>>

BackspaceUnchecked ==  \* mutant: left of column 0
  Typed /\ flushText /\ cursorCol' = cursorCol - 1 /\ UNCHANGED <<lines, recent>>

Backspace ==
  /\ Typed /\ flushText
  /\ cursorCol' = IF cursorCol > 0 THEN cursorCol - 1 ELSE 0
  /\ UNCHANGED <<lines, recent>>

\* A tab is text: it writes blanks up to the next stop.
Tab ==
  LET spaces == TabStop - (cursorCol % TabStop)
  IN /\ Typed /\ cursorCol + spaces <= MaxCol
     /\ currentLine' = Flushed
     /\ currentText' = Spaces(spaces)
     /\ cursorCol' = cursorCol + spaces
     /\ UNCHANGED <<lines, recent>>

-----------------------------------------------------------------------------
(* Escape sequences.                                                       *)

Goto(from, to) ==
  /\ state = from /\ state' = to
  /\ csiParams' = <<>>
  /\ UNCHANGED <<style, text, lines, recent, edits>>

Escape == Goto("normal", "escape")

\* After ESC: [ and ] open a sequence.  After ( or ) the next character of
\* the same chunk goes too; that of the next chunk is text.
EscapeOpens == Goto("escape", "csi") \/ Goto("escape", "osc")
EscapeOther == Goto("escape", "normal")

\* An OSC string ends at BEL or at ESC \, if both are in one chunk; until
\* then everything belongs to it.
StringEnds == Goto("osc", "normal")

\* A sequence of no effect: with a private parameter, or A B h l r n s u c t
\* S T L M.  A byte that is no part of a sequence ends it too, and is lost.
CsiIgnored == Goto("csi", "normal")

CsiParams(p) ==
  /\ state = "csi" /\ csiParams = <<>>
  /\ csiParams' = p
  /\ UNCHANGED <<style, text, lines, state, recent, edits>>

Private == -1   \* the parameter ? or >
Number(i, default) ==
  IF i <= Len(csiParams) /\ csiParams[i] # 0 THEN csiParams[i] ELSE default

\* The final byte.
Final ==
  /\ state = "csi"
  /\ \A i \in 1..Len(csiParams) : csiParams[i] # Private
  /\ state' = "normal" /\ csiParams' = <<>>
  /\ edits < MaxEdits /\ edits' = edits + 1

MovesUnflushed(col) ==  \* mutant: the waiting text goes with the cursor
  /\ Final /\ col <= MaxCol
  /\ cursorCol' = col
  /\ UNCHANGED <<style, currentLine, currentText, lines, recent>>

Moves(col) == Final /\ col <= MaxCol /\ flushText /\ cursorCol' = col /\ UNCHANGED <<style, lines, recent>>
Edits(line) ==
  /\ Final /\ Len(line) <= MaxCol
  /\ currentLine' = line /\ currentText' = <<>>
  /\ UNCHANGED <<style, cursorCol, lines, recent>>

ColumnAbsolute == Moves(Number(1, 1) - 1)                          \* G
ColumnOf       == Moves(Number(2, 1) - 1)                          \* H, f
Forward        == Moves(cursorCol + Number(1, 1))                  \* C
Backward       == LET n == Number(1, 1)
                  IN Moves(IF n < cursorCol THEN cursorCol - n ELSE 0)  \* D

EraseToEnd == Number(1, 0) = 0 /\ Edits(truncateLineAt(Flushed, cursorCol))   \* J 0, K 0

EraseToStart ==                                                    \* K 1
  LET n == IF cursorCol < Len(Flushed) THEN cursorCol ELSE Len(Flushed)
  IN /\ Number(1, 0) = 1
     /\ Edits(overwriteLineAt(Flushed, 0, Spaces(n), DefaultStyle))

EraseLine ==                                                       \* K 2
  /\ Number(1, 0) = 2 /\ Final
  /\ currentLine' = <<>> /\ currentText' = <<>> /\ cursorCol' = 0
  /\ UNCHANGED <<style, lines, recent>>

EraseDisplay ==                                                    \* J 2, J 3
  /\ Number(1, 0) \in {2, 3} /\ Final
  /\ lines' = <<>> /\ recent' = <<>>
  /\ currentLine' = <<>> /\ currentText' = <<>> /\ cursorCol' = 0
  /\ UNCHANGED style

EraseNothing == Number(1, 0) \in {1, 3} /\ Edits(Flushed)          \* J 1, K 3

EraseChars == Edits(overwriteLineAt(Flushed, cursorCol, Spaces(Number(1, 1)), DefaultStyle))  \* X

DeleteChars ==                                                     \* P
  LET rest == SliceFrom(TextOf(Flushed), cursorCol + Number(1, 1))
  IN Edits(IF cursorCol < Len(Flushed)
           THEN overwriteLineAt(truncateLineAt(Flushed, cursorCol), cursorCol, rest, Live)
           ELSE Flushed)

InsertChars ==                                                     \* @
  LET new == Spaces(Number(1, 1)) \o SliceFrom(TextOf(Flushed), cursorCol)
  IN Edits(IF cursorCol <= Len(Flushed)
           THEN overwriteLineAt(Flushed, cursorCol, new, Live)
           ELSE Flushed)

SetGraphicsUnflushed ==  \* mutant: the waiting text takes the new style
  /\ Final
  /\ style' = Sgr(csiParams).now
  /\ UNCHANGED <<text, lines, recent>>

\* SGR keeps the parser's object, or leaves it to the cells that share it.
SetGraphics ==                                                     \* m
  LET to == Sgr(csiParams)
      Kept(line) == [i \in 1..Len(line) |->
                       IF to.new /\ line[i].style = Live
                       THEN [line[i] EXCEPT !.style = to.old] ELSE line[i]]
  IN /\ Final
     /\ style' = to.now
     /\ currentLine' = Kept(Flushed) /\ currentText' = <<>>
     /\ lines' = [i \in 1..Len(lines) |-> Kept(lines[i])]
     /\ UNCHANGED <<cursorCol, recent>>

-----------------------------------------------------------------------------
Control == Newline \/ CarriageReturn \/ Backspace \/ Tab
Sequence ==
  \/ ColumnAbsolute \/ ColumnOf \/ Forward \/ Backward
  \/ EraseToEnd \/ EraseToStart \/ EraseLine \/ EraseDisplay \/ EraseNothing
  \/ EraseChars \/ DeleteChars \/ InsertChars \/ SetGraphics
Parse ==
  \/ Escape \/ EscapeOpens \/ EscapeOther \/ StringEnds
  \/ CsiIgnored \/ \E p \in Params : CsiParams(p)

Next == (\E c \in Chars : Put(c)) \/ Control \/ Sequence \/ Parse

Spec == Init /\ [][Next]_vars

-----------------------------------------------------------------------------
(* Properties.                                                             *)

Style == [fg : Seq(Nat), bg : Seq(Nat), attrs : SUBSET Attrs]
IsLine(line) ==
  \A i \in 1..Len(line) : line[i].style = Live \/ line[i].style \in Style

\* Styles are styles, columns are counted from 0, text waits only right of
\* column 0, and no more lines are kept than the limit and its slack.
TypeOK ==
  /\ style \in Style
  /\ IsLine(currentLine) /\ \A i \in 1..Len(lines) : IsLine(lines[i])
  /\ cursorCol \in Nat /\ (currentText # <<>> => cursorCol > 0)
  /\ state \in {"normal", "escape", "csi", "osc"}
  /\ csiParams # <<>> => state = "csi"
  /\ Len(lines) <= MaxLines + Slack

\* Text that waits in currentText is shown as if every character had been
\* written at once: no sequence moves the cursor, changes the line or
\* finishes it before the waiting text is in it (flushText, and what
\* overwriteLineAt and the fast path of flushText make of the columns).
T == INSTANCE TerminalText WITH text <- TextOf(getCurrentLine), col <- cursorCol,
                                above <- [i \in 1..Len(lines) |-> TextOf(lines[i])]
ImplementsText == T!Spec

\* The last MaxLines finished lines are on the page, in order, whatever was
\* trimmed (pushLine).
KeepsRecentLines ==
  /\ Len(lines) >= Len(recent)
  /\ \A i \in 1..Len(recent) :
       TextOf(lines[Len(lines) - Len(recent) + i]) = recent[i]

\* A change of style repaints nothing that is shown already, unless
\* deleting or inserting characters made a cell share the parser's object.
Shares == \E line \in {currentLine} \cup {lines[i] : i \in 1..Len(lines)} :
            \E i \in 1..Len(line) : line[i].style = Live
ShownAll == <<Shown(getCurrentLine), [i \in 1..Len(lines) |-> Shown(lines[i])]>>
NoRepaint == [][SetGraphics /\ ~Shares => ShownAll' = ShownAll]_vars

\* "Handle surrogate pairs (emoji and other characters above U+FFFF)"
\* (ansi.ts:206): the two units of a character stay together.
PairsWhole ==
  LET line == getCurrentLine
  IN \A i \in 1..Len(line) :
       /\ line[i].unit = "hi" => i < Len(line) /\ line[i + 1].unit = "lo"
       /\ line[i].unit = "lo" => i > 1 /\ line[i - 1].unit = "hi"
=============================================================================
