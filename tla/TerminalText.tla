---------------------------- MODULE TerminalText ----------------------------
(***************************************************************************)
(* What a terminal of one growing page promises: every character takes its *)
(* cell at once, at the column of the cursor, and colours play no part.    *)
(* Only the line the cursor is on can change; those above it were finished *)
(* by a newline.  AnsiParser keeps the last characters aside and puts them *)
(* into the line later; it implements this module.                         *)
(***************************************************************************)
EXTENDS Integers, Sequences

CONSTANTS Chars, Blank,
          TabStop,   \* columns between two tab stops
          MaxLines,  \* finished lines that are kept
          Slack,     \* lines above MaxLines before the oldest are dropped
          MaxCol     \* bound: columns

VARIABLES text,   \* the characters of the line the cursor is on
          col,    \* the column of the cursor, from 0
          above   \* the finished lines

vars == <<text, col, above>>

Blanks(n) == [i \in 1..(IF n > 0 THEN n ELSE 0) |-> Blank]
Before(s, n) == SubSeq(s, 1, n)               \* the cells left of column n
From(s, n) == SubSeq(s, n + 1, Len(s))        \* those from column n on

\* Written over the cells from column c on; a gap before c is blank.
Over(s, c, new) ==
  Before(s \o Blanks(c - Len(s)), c) \o new \o From(s, c + Len(new))

Init == text = <<>> /\ col = 0 /\ above = <<>>

Write(new) ==
  /\ text' = Over(text, col, new)
  /\ col' = col + Len(new)
  /\ UNCHANGED above

Put == \E c \in Chars : Write(<<c>>)

Tab == Write(Blanks(TabStop - (col % TabStop)))

Newline ==
  /\ LET all == Append(above, text)
         old == Len(all) - MaxLines
     IN above' = IF Len(all) > MaxLines + Slack THEN From(all, old) ELSE all
  /\ text' = <<>>
  /\ col' = 0

Move(c) == col' = c /\ UNCHANGED <<text, above>>

\* Erasing: the cells go, or become blank; the cursor stays.
EraseEnd ==
  /\ text' = IF col < Len(text) THEN Before(text, col) ELSE text
  /\ UNCHANGED <<col, above>>

EraseStart ==
  /\ text' = [i \in 1..Len(text) |-> IF i <= col THEN Blank ELSE text[i]]
  /\ UNCHANGED <<col, above>>

EraseLine == text' = <<>> /\ col' = 0 /\ UNCHANGED above

EraseChars(n) == text' = Over(text, col, Blanks(n)) /\ UNCHANGED <<col, above>>

\* The rest of the line moves left over n cells, or right by n blank ones.
DeleteChars(n) ==
  /\ col < Len(text)
  /\ text' = Before(text, col) \o From(text, col + n)
  /\ UNCHANGED <<col, above>>

InsertChars(n) ==
  /\ col <= Len(text)
  /\ text' = Before(text, col) \o Blanks(n) \o From(text, col)
  /\ UNCHANGED <<col, above>>

ClearScreen == text' = <<>> /\ col' = 0 /\ above' = <<>>

Next ==
  \/ Put \/ Tab \/ Newline
  \/ \E c \in 0..MaxCol : Move(c)
  \/ EraseEnd \/ EraseStart \/ EraseLine \/ ClearScreen
  \/ \E n \in 1..MaxCol : EraseChars(n) \/ DeleteChars(n) \/ InsertChars(n)

Spec == Init /\ [][Next]_vars
=============================================================================
