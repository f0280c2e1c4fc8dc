-------------------------- MODULE AnsiParserProofs --------------------------
(***************************************************************************)
(* Proofs about AnsiParser for every set of characters, every parameters   *)
(* of sequences, every tab stop and every limit of the page.               *)
(***************************************************************************)
EXTENDS AnsiParser, FiniteSetTheorems, SequenceTheorems, TLAPS

-----------------------------------------------------------------------------
(* A set of numbers has a least one: their intervals 0..n are finite sets, *)
(* and inclusion is well founded on those.                                 *)
LEMMA LeastNumber ==
  ASSUME NEW Nums, Nums \subseteq Nat, Nums # {}
  PROVE  \E x \in Nums : \A y \in Nums : x <= y
<1> DEFINE UpTo == {0..n : n \in Nums}
<1>1. UpTo \subseteq FiniteSubsetsOf(Nat) /\ UpTo # {}
  <2>1. ASSUME NEW n \in Nums
        PROVE  IsFiniteSet(0..n) /\ 0..n \subseteq Nat
    BY FS_Interval
  <2> QED
    BY <2>1 DEF FiniteSubsetsOf
<1> HIDE DEF UpTo
<1>2. PICK s \in UpTo : \A t \in UpTo : <<t, s>> \notin StrictSubsetOrdering(Nat)
  <2>1. IsWellFoundedOn(StrictSubsetOrdering(Nat), FiniteSubsetsOf(Nat))
    BY FS_StrictSubsetOrderingWellFounded, Zenon
  <2> QED
    BY <1>1, <2>1, WFMin, Zenon
<1>3. PICK x \in Nums : s = 0..x
  BY <1>2 DEF UpTo
<1>4. ASSUME NEW y \in Nums, y < x
      PROVE  FALSE
  <2>1. 0..y \in UpTo
    BY DEF UpTo
  <2>2. 0..y \subseteq 0..x /\ x \in 0..x /\ x \notin 0..y
    BY <1>4
  <2>3. 0..y \in SUBSET Nat /\ 0..x \in SUBSET Nat
    OBVIOUS
  <2>4. <<0..y, s>> \in StrictSubsetOrdering(Nat)
    BY <1>3, <2>2, <2>3 DEF StrictSubsetOrdering
  <2> QED
    BY <1>2, <2>1, <2>4
<1> QED
  BY <1>4


LEMMA IsSeq ==
  ASSUME NEW S, NEW n \in Nat, NEW f \in [1..n -> S]
  PROVE  f \in Seq(S) /\ Len(f) = n
BY SeqDef

(* A chain of values, each made from the one before it, exists...          *)
IsChain(g, R, a, n, F) ==
  /\ g \in [1..n -> R]
  /\ \A i \in 1..n : g[i] = IF i = 1 THEN a ELSE F[i][g[i - 1]]

LEMMA ChainExists ==
  ASSUME NEW R, NEW a \in R, NEW n \in Nat, NEW F \in [1..n -> [R -> R]]
  PROVE  \E g : IsChain(g, R, a, n, F)
<1> USE DEF IsChain
<1> DEFINE Is(g, m) == \A i \in 1..m : g[i] = IF i = 1 THEN a ELSE F[i][g[i - 1]]
           Nums == {m \in 0..n : ~ \E g \in [1..m -> R] : Is(g, m)}
<1>1. n \in 0..n /\ (n \notin Nums => \E g \in [1..n -> R] : Is(g, n))
  OBVIOUS
<1>2. SUFFICES ASSUME Nums # {}
               PROVE  FALSE
  BY <1>1
<1>3. PICK m \in Nums : \A k \in Nums : m <= k
  <2>1. Nums \subseteq Nat /\ Nums # {}
    BY <1>2
  <2> HIDE DEF Nums
  <2> QED
    BY <2>1, LeastNumber
<1>4. m # 0
  <2>1. Is([i \in 1..0 |-> a], 0) /\ [i \in 1..0 |-> a] \in [1..0 -> R]
    OBVIOUS
  <2> QED
    BY <2>1, <1>3
<1>5. m \in 1..n /\ m - 1 \in 0..n /\ m - 1 \notin Nums
  <2>1. m \in 0..n
    OBVIOUS
  <2>2. m - 1 \in Nums => m <= m - 1
    BY <1>3
  <2> HIDE DEF Nums
  <2> QED
    BY <1>4, <2>1, <2>2
<1>6. PICK g \in [1..(m - 1) -> R] : Is(g, m - 1)
  BY <1>5
<1> DEFINE h == [i \in 1..m |-> IF i < m THEN g[i]
                               ELSE IF i = 1 THEN a ELSE F[i][g[m - 1]]]
<1>7. h \in [1..m -> R]
  <2>1. ASSUME NEW i \in 1..m
        PROVE  (IF i < m THEN g[i] ELSE IF i = 1 THEN a ELSE F[i][g[m - 1]]) \in R
    <3>1. CASE i < m
      BY <1>5, <1>6, <3>1
    <3>2. CASE i = m /\ i # 1
      <4>1. g[m - 1] \in R /\ F[i] \in [R -> R]
        BY <1>5, <1>6, <3>2
      <4> QED
        BY <3>2, <4>1
    <3>3. CASE i = m /\ i = 1
      BY <3>3
    <3> QED
      BY <1>5, <3>1, <3>2, <3>3
  <2> QED
    BY <2>1
<1>8. Is(h, m)
  <2>1. ASSUME NEW i \in 1..m
        PROVE  h[i] = IF i = 1 THEN a ELSE F[i][h[i - 1]]
    <3>1. CASE i = 1
      BY <1>5, <1>6, <3>1
    <3>2. CASE i # 1
      <4>1. i - 1 \in 1..m /\ i - 1 < m /\ h[i - 1] = g[i - 1]
        BY <1>5, <3>2
      <4>2. CASE i < m
        BY <1>5, <1>6, <3>2, <4>1, <4>2
      <4>3. CASE i = m
        BY <1>5, <3>2, <4>1, <4>3
      <4> QED
        BY <1>5, <4>2, <4>3
    <3> QED
      BY <3>1, <3>2
  <2> QED
    BY <2>1
<1> QED
  BY <1>3, <1>7, <1>8

(* ... and what holds of the first and passes on to the next holds of all. *)
LEMMA ChainHolds ==
  ASSUME NEW R, NEW n \in Nat, NEW g, n > 0 => g[1] \in R,
         \A i \in 2..n : g[i - 1] \in R => g[i] \in R
  PROVE  \A i \in 1..n : g[i] \in R
<1> DEFINE Nums == {i \in 1..n : g[i] \notin R}
<1> SUFFICES ASSUME Nums # {}
             PROVE  FALSE
  OBVIOUS
<1>1. PICK i \in Nums : \A k \in Nums : i <= k
  <2>1. Nums \subseteq Nat /\ Nums # {}
    OBVIOUS
  <2> HIDE DEF Nums
  <2> QED
    BY <2>1, LeastNumber
<1>2. CASE i = 1
  BY <1>1, <1>2
<1>3. CASE i # 1
  <2>1. i \in 2..n /\ i - 1 \in 1..n /\ i - 1 \notin Nums
    BY <1>1, <1>3
  <2> QED
    BY <1>1, <2>1
<1> QED
  BY <1>2, <1>3

-----------------------------------------------------------------------------
(* Types.                                                                  *)

Unit == Chars \cup {"hi", "lo", Blank}
CellStyle == Style \cup {Live}
Cell == [unit : Unit, style : CellStyle]

StyleType ==
  /\ style \in Style
  /\ state \in {"normal", "escape", "csi", "osc"}
  /\ csiParams \in Params \cup {<<>>}
  /\ csiParams # <<>> => state = "csi"

PageType ==
  /\ currentLine \in Seq(Cell)
  /\ currentText \in Seq(Unit)
  /\ cursorCol \in 0..MaxCol
  /\ currentText # <<>> => cursorCol > 0
  /\ lines \in Seq(Seq(Cell)) /\ Len(lines) <= MaxLines + Slack
  /\ recent \in Seq(Seq(Unit)) /\ Len(recent) <= MaxLines

\* Without wide characters the waiting text begins at a column of the line.
Narrow == Wide = {} => Len(currentText) <= cursorCol /\ Len(currentLine) <= MaxCol

IInv == StyleType /\ PageType /\ KeepsRecentLines /\ Narrow

LEMMA Numbers ==
  /\ TabStop \in Nat /\ TabStop > 0 /\ MaxLines \in Nat /\ MaxLines > 0
  /\ Slack \in Nat /\ MaxCol \in Nat /\ MaxEdits \in Nat
BY ParserBounds

LEMMA LiveIsNoStyle == Live \notin Style /\ DefaultStyle \in Style
<1>1. <<>> \in Seq(Nat) /\ DefaultStyle \in Style
  BY DEF DefaultStyle, Style
<1>2. ASSUME Live \in Style
      PROVE  FALSE
  <2>1. DOMAIN Live = {"object"} /\ DOMAIN Live = {"fg", "bg", "attrs"}
    BY <1>2 DEF Live, Style
  <2>2. "fg" \in {"object"}
    BY <2>1
  <2> QED
    BY <2>2
<1> QED
  BY <1>1, <1>2

LEMMA RunStylesDef ==
  ASSUME NEW line \in Seq(Cell)
  PROVE  RunStyles(line) =
           [i \in 1..Len(line) |->
              IF i > 1 /\ Valued(line[i].style) = Valued(line[i - 1].style)
              THEN RunStyles(line)[i - 1] ELSE line[i].style]
<1> DEFINE n == Len(line)
           same == [i \in 1..n |-> i > 1 /\ Valued(line[i].style) = Valued(line[i - 1].style)]
           a == IF n > 0 THEN line[1].style ELSE Live
           F == [i \in 1..n |-> [s \in CellStyle |-> IF same[i] THEN s ELSE line[i].style]]
<1>1. n \in Nat /\ \A i \in 1..n : line[i].style \in CellStyle
  <2>1. n \in Nat /\ \A i \in 1..n : line[i] \in Cell
    OBVIOUS
  <2> HIDE DEF n
  <2> QED
    BY <2>1 DEF Cell
<1>2. a \in CellStyle /\ F \in [1..n -> [CellStyle -> CellStyle]]
  <2>1. Live \in CellStyle
    BY DEF CellStyle
  <2>2. a \in CellStyle
    BY <1>1, <2>1
  <2> HIDE DEF same
  <2>3. \A i \in 1..n, s \in CellStyle :
          (IF same[i] THEN s ELSE line[i].style) \in CellStyle
    BY <1>1
  <2> QED
    BY <2>2, <2>3
<1> HIDE DEF n
<1>3. PICK g : IsChain(g, CellStyle, a, n, F)
  <2> HIDE DEF a, F
  <2>1. a \in CellStyle /\ n \in Nat /\ F \in [1..n -> [CellStyle -> CellStyle]]
    BY <1>1, <1>2
  <2> QED
    BY <2>1, ChainExists
<1>4. ASSUME NEW i \in 1..n
      PROVE  g[i] = IF i > 1 /\ Valued(line[i].style) = Valued(line[i - 1].style)
                    THEN g[i - 1] ELSE line[i].style
  <2>1. CASE i = 1
    <3>1. g[i] = a /\ n > 0
      <4> HIDE DEF F, a
      <4> QED
        BY <1>1, <1>3, <2>1 DEF IsChain
    <3> QED
      BY <2>1, <3>1
  <2>2. CASE i # 1
    <3>1. i - 1 \in 1..n /\ i > 1
      BY <1>1, <2>2
    <3>2. g[i] = F[i][g[i - 1]] /\ g[i - 1] \in CellStyle
      <4> HIDE DEF F, a
      <4> QED
        BY <1>3, <2>2, <3>1 DEF IsChain
    <3>3. g[i] = IF same[i] THEN g[i - 1] ELSE line[i].style
      <4> HIDE DEF same
      <4> QED
        BY <3>2
    <3>4. same[i] = (i > 1 /\ Valued(line[i].style) = Valued(line[i - 1].style))
      OBVIOUS
    <3> QED
      BY <3>3, <3>4
  <2> QED
    BY <2>1, <2>2
<1>5. g = [i \in 1..n |->
             IF i > 1 /\ Valued(line[i].style) = Valued(line[i - 1].style)
             THEN g[i - 1] ELSE line[i].style]
  <2> DEFINE h == [i \in 1..n |->
                     IF i > 1 /\ Valued(line[i].style) = Valued(line[i - 1].style)
                     THEN g[i - 1] ELSE line[i].style]
  <2>1. DOMAIN g = 1..n /\ g = [i \in 1..n |-> g[i]]
    BY <1>3 DEF IsChain
  <2>2. \A i \in 1..n : g[i] = h[i]
    BY <1>4
  <2>3. g = [i \in 1..n |-> h[i]]
    BY <2>1, <2>2
  <2> QED
    BY <2>3
<1> QED
  BY <1>5 DEF RunStyles, n

\* Merging runs changes no character, and no colour that is shown.
LEMMA MergedFacts ==
  ASSUME NEW line \in Seq(Cell)
  PROVE  /\ Merged(line) \in Seq(Cell) /\ Len(Merged(line)) = Len(line)
         /\ \A i \in 1..Len(line) :
              /\ Merged(line)[i].unit = line[i].unit
              /\ Valued(Merged(line)[i].style) = Valued(line[i].style)
         /\ (\A i \in 1..Len(line) : line[i].style \in Style)
            => \A i \in 1..Len(line) : Merged(line)[i].style \in Style
<1> DEFINE n == Len(line)
           f == RunStyles(line)
<1>1. n \in Nat /\ \A i \in 1..n : line[i] \in Cell
  OBVIOUS
<1>2. \A i \in 1..n :
        f[i] = IF i > 1 /\ Valued(line[i].style) = Valued(line[i - 1].style)
               THEN f[i - 1] ELSE line[i].style
  BY RunStylesDef
<1> HIDE DEF f, n
<1>3. \A i \in 1..n : f[i] \in CellStyle
  <2>1. \A i \in 1..n : line[i].style \in CellStyle
    BY <1>1 DEF Cell
  <2>2. n > 0 => f[1] \in CellStyle
    BY <1>1, <1>2, <2>1
  <2>3. \A i \in 2..n : f[i - 1] \in CellStyle => f[i] \in CellStyle
    BY <1>1, <1>2, <2>1
  <2> QED
    BY <1>1, <2>2, <2>3, ChainHolds
<1>4. \A i \in 1..n : Valued(f[i]) = Valued(line[i].style)
  <2> DEFINE g == [i \in 1..n |-> IF Valued(f[i]) = Valued(line[i].style) THEN 1 ELSE 0]
  <2>1. n > 0 => g[1] \in {1}
    BY <1>1, <1>2
  <2>2. \A i \in 2..n : g[i - 1] \in {1} => g[i] \in {1}
    <3>1. ASSUME NEW i \in 2..n, g[i - 1] \in {1}
          PROVE  g[i] \in {1}
      <4>1. i \in 1..n /\ i - 1 \in 1..n /\ Valued(f[i - 1]) = Valued(line[i - 1].style)
        BY <1>1, <3>1
      <4>2. CASE Valued(line[i].style) = Valued(line[i - 1].style)
        <5>1. f[i] = f[i - 1]
          BY <1>2, <4>1, <4>2
        <5> QED
          BY <4>1, <4>2, <5>1
      <4>3. CASE Valued(line[i].style) # Valued(line[i - 1].style)
        <5>1. f[i] = line[i].style
          BY <1>2, <4>1, <4>3
        <5> QED
          BY <4>1, <5>1
      <4> QED
        BY <4>2, <4>3
    <3> QED
      BY <3>1
  <2>3. \A i \in 1..n : g[i] \in {1}
    <3> HIDE DEF g
    <3> QED
      BY <1>1, <2>1, <2>2, ChainHolds
  <2> QED
    BY <2>3
<1>5. /\ Merged(line) = [i \in 1..n |-> [line[i] EXCEPT !.style = f[i]]]
      /\ \A i \in 1..n : [line[i] EXCEPT !.style = f[i]] \in Cell
  <2>1. ASSUME NEW i \in 1..n
        PROVE  [line[i] EXCEPT !.style = f[i]] \in Cell
    BY <1>1, <1>3 DEF Cell
  <2> QED
    BY <2>1 DEF Merged, n, f
<1>6. Merged(line) \in [1..n -> Cell]
  BY <1>5
<1>7. ASSUME NEW i \in 1..n
      PROVE  Merged(line)[i].unit = line[i].unit /\ Merged(line)[i].style = f[i]
  BY <1>1, <1>5 DEF Cell
<1>8. ASSUME \A i \in 1..n : line[i].style \in Style
      PROVE  \A i \in 1..n : f[i] \in Style
  <2>1. n > 0 => f[1] \in Style
    BY <1>1, <1>2, <1>8
  <2>2. \A i \in 2..n : f[i - 1] \in Style => f[i] \in Style
    BY <1>1, <1>2, <1>8
  <2> QED
    BY <1>1, <2>1, <2>2, ChainHolds
<1> QED
  BY <1>1, <1>4, <1>6, <1>7, <1>8, IsSeq DEF n

-----------------------------------------------------------------------------
(* SGR makes styles of styles.                                             *)

SgrState == [now : Style, old : Style, new : BOOLEAN, skip : Nat]

LEMMA Sgr1Type ==
  ASSUME NEW s \in Style, NEW p \in Nat
  PROVE  Sgr1(s, p) \in Style
<1>1. \A c \in Seq(Nat) : [s EXCEPT !.fg = c] \in Style /\ [s EXCEPT !.bg = c] \in Style
  BY DEF Style
<1>2. \A n \in Nat : <<n>> \in Seq(Nat)
  OBVIOUS
<1>3. <<>> \in Seq(Nat)
  OBVIOUS
<1>4. CASE p = 0
  BY <1>4, LiveIsNoStyle DEF Sgr1
<1>5. CASE p \in 1..29
  <2> DEFINE A == (s.attrs \cup On(p)) \ Off(p)
  <2>0. /\ ~(p = 0) /\ ~(p \in 30..37) /\ ~(p \in 90..97) /\ ~(p = 39)
        /\ ~(p \in 40..47) /\ ~(p \in 100..107) /\ ~(p = 49)
    BY <1>5
  <2>1. Sgr1(s, p) = [s EXCEPT !.attrs = A]
    BY <1>5, <2>0, ZenonT(30) DEF Sgr1
  <2>2. A \in SUBSET Attrs
    BY DEF Style, On
  <2> HIDE DEF A
  <2> QED
    BY <2>1, <2>2 DEF Style
<1>6. CASE p \in 30..37
  <2>0. /\ ~(p = 0) /\ ~(p \in 1..29) /\ ~(p \in 90..97) /\ ~(p = 39)
        /\ ~(p \in 40..47) /\ ~(p \in 100..107) /\ ~(p = 49)
    BY <1>6
  <2>1. Sgr1(s, p) = [s EXCEPT !.fg = <<p - 30>>]
    BY <1>6, <2>0, ZenonT(30) DEF Sgr1
  <2>2. p - 30 \in Nat
    BY <1>6
  <2> QED
    BY <1>1, <1>2, <2>1, <2>2
<1>7. CASE p \in 90..97
  <2>0. /\ ~(p = 0) /\ ~(p \in 1..29) /\ ~(p \in 30..37) /\ ~(p = 39)
        /\ ~(p \in 40..47) /\ ~(p \in 100..107) /\ ~(p = 49)
    BY <1>7
  <2>1. Sgr1(s, p) = [s EXCEPT !.fg = <<p - 90 + 8>>]
    BY <1>7, <2>0, ZenonT(30) DEF Sgr1
  <2>2. p - 90 + 8 \in Nat
    BY <1>7
  <2> QED
    BY <1>1, <1>2, <2>1, <2>2
<1>8. CASE p = 39
  <2>0. /\ ~(p = 0) /\ ~(p \in 1..29) /\ ~(p \in 30..37) /\ ~(p \in 90..97)
        /\ ~(p \in 40..47) /\ ~(p \in 100..107) /\ ~(p = 49)
    BY <1>8
  <2>1. Sgr1(s, p) = [s EXCEPT !.fg = <<>>]
    BY <1>8, <2>0, ZenonT(30) DEF Sgr1
  <2> QED
    BY <1>1, <1>3, <2>1
<1>9. CASE p \in 40..47
  <2>0. /\ ~(p = 0) /\ ~(p \in 1..29) /\ ~(p \in 30..37) /\ ~(p \in 90..97)
        /\ ~(p = 39) /\ ~(p \in 100..107) /\ ~(p = 49)
    BY <1>9
  <2>1. Sgr1(s, p) = [s EXCEPT !.bg = <<p - 40>>]
    BY <1>9, <2>0, ZenonT(30) DEF Sgr1
  <2>2. p - 40 \in Nat
    BY <1>9
  <2> QED
    BY <1>1, <1>2, <2>1, <2>2
<1>10. CASE p \in 100..107
  <2>0. /\ ~(p = 0) /\ ~(p \in 1..29) /\ ~(p \in 30..37) /\ ~(p \in 90..97)
        /\ ~(p = 39) /\ ~(p \in 40..47) /\ ~(p = 49)
    BY <1>10
  <2>1. Sgr1(s, p) = [s EXCEPT !.bg = <<p - 100 + 8>>]
    BY <1>10, <2>0, ZenonT(30) DEF Sgr1
  <2>2. p - 100 + 8 \in Nat
    BY <1>10
  <2> QED
    BY <1>1, <1>2, <2>1, <2>2
<1>11. CASE p = 49
  <2>0. /\ ~(p = 0) /\ ~(p \in 1..29) /\ ~(p \in 30..37) /\ ~(p \in 90..97)
        /\ ~(p = 39) /\ ~(p \in 40..47) /\ ~(p \in 100..107)
    BY <1>11
  <2>1. Sgr1(s, p) = [s EXCEPT !.bg = <<>>]
    BY <1>11, <2>0, ZenonT(30) DEF Sgr1
  <2> QED
    BY <1>1, <1>3, <2>1
<1>12. CASE /\ p # 0 /\ p \notin 1..29 /\ p \notin 30..37 /\ p \notin 90..97 /\ p # 39
            /\ p \notin 40..47 /\ p \notin 100..107 /\ p # 49
  <2>1. Sgr1(s, p) = s
    BY <1>12 DEF Sgr1
  <2> QED
    BY <2>1
<1> QED
  BY <1>4, <1>5, <1>6, <1>7, <1>8, <1>9, <1>10, <1>11, <1>12

LEMMA ExtendedType ==
  ASSUME NEW ps \in Seq(Nat), NEW i \in 1..Len(ps)
  PROVE  Extended(ps, i).skip \in Nat /\ Extended(ps, i).colour \in Seq(Nat)
<1>1. Len(ps) \in Nat /\ \A j \in 1..Len(ps) : ps[j] \in Nat
  OBVIOUS
<1>2. CASE i + 2 <= Len(ps) /\ ps[i + 1] = 5
  <2>1. <<ps[i + 2]>> \in Seq(Nat)
    BY <1>1, <1>2
  <2>2. Extended(ps, i) = [skip |-> 2, colour |-> <<ps[i + 2]>>]
    BY <1>2 DEF Extended
  <2> QED
    BY <2>1, <2>2
<1>3. CASE i + 4 <= Len(ps) /\ ps[i + 1] = 2
  <2>1. SubSeq(ps, i + 2, i + 4) \in Seq(Nat)
    <3>1. i + 2 \in Int /\ i + 4 \in Int /\ \A j \in (i + 2)..(i + 4) : ps[j] \in Nat
      BY <1>1, <1>3
    <3> QED
      BY <3>1, SubSeqProperties
  <2>2. Extended(ps, i) = [skip |-> 4, colour |-> SubSeq(ps, i + 2, i + 4)]
    BY <1>3 DEF Extended
  <2> QED
    BY <2>1, <2>2
<1>4. CASE ~(i + 2 <= Len(ps) /\ ps[i + 1] = 5) /\ ~(i + 4 <= Len(ps) /\ ps[i + 1] = 2)
  <2>1. Extended(ps, i) = [skip |-> 0, colour |-> <<>>]
    BY <1>4 DEF Extended
  <2> QED
    BY <2>1
<1> QED
  BY <1>2, <1>3, <1>4

LEMMA SgrStepType ==
  ASSUME NEW s \in SgrState, NEW ps \in Seq(Nat), NEW i \in 1..Len(ps)
  PROVE  SgrStep(s, ps, i) \in SgrState
<1> DEFINE p == ps[i]
           x == Extended(ps, i)
<1>1. p \in Nat /\ x.skip \in Nat /\ x.colour \in Seq(Nat)
  BY ExtendedType
<1>2. Sgr1(s.now, p) \in Style
  BY <1>1, Sgr1Type DEF SgrState
<1>3. [s.now EXCEPT !.fg = x.colour] \in Style /\ [s.now EXCEPT !.bg = x.colour] \in Style
  BY <1>1 DEF SgrState, Style
<1>4. CASE s.skip > 0
  <2>1. SgrStep(s, ps, i) = [s EXCEPT !.skip = @ - 1]
    BY <1>4 DEF SgrStep, SgrState
  <2>2. s.skip - 1 \in Nat
    BY <1>4 DEF SgrState
  <2> QED
    BY <2>1, <2>2 DEF SgrState
<1>5. CASE s.skip = 0 /\ p \in {38, 48} /\ x.skip > 0
  <2> DEFINE next == IF p = 38 THEN [s.now EXCEPT !.fg = x.colour]
                               ELSE [s.now EXCEPT !.bg = x.colour]
  <2>1. SgrStep(s, ps, i) = [s EXCEPT !.skip = x.skip, !.now = next]
    BY <1>5 DEF SgrStep
  <2>2. next \in Style
    BY <1>3
  <2> HIDE DEF next, x
  <2> QED
    BY <1>1, <2>1, <2>2 DEF SgrState
<1>6. CASE s.skip = 0 /\ (p \notin {38, 48} \/ x.skip = 0)
  <2> DEFINE now == Sgr1(s.now, p)
             new == s.new \/ p = 0
             old == IF p = 0 /\ ~s.new THEN s.now ELSE s.old
  <2>1. SgrStep(s, ps, i) = [s EXCEPT !.now = now, !.new = new, !.old = old]
    BY <1>6, <1>1 DEF SgrStep
  <2>2. now \in Style /\ old \in Style /\ new \in BOOLEAN
    BY <1>2 DEF SgrState
  <2> HIDE DEF now, new, old
  <2> QED
    BY <2>1, <2>2 DEF SgrState
<1> QED
  BY <1>1, <1>4, <1>5, <1>6 DEF SgrState

LEMMA SgrStepsDef ==
  ASSUME NEW ps \in Seq(Nat), style \in Style
  PROVE  SgrSteps(ps) =
           [i \in 1..(Len(ps) + 1) |->
              IF i = 1 THEN [now |-> style, old |-> style, new |-> FALSE, skip |-> 0]
              ELSE SgrStep(SgrSteps(ps)[i - 1], ps, i - 1)]
<1> DEFINE n == Len(ps) + 1
           a == [now |-> style, old |-> style, new |-> FALSE, skip |-> 0]
           F == [i \in 1..n |-> [s \in SgrState |-> IF i = 1 THEN a ELSE SgrStep(s, ps, i - 1)]]
<1>1. n \in Nat /\ a \in SgrState
  BY DEF SgrState
<1>2. F \in [1..n -> [SgrState -> SgrState]]
  <2>1. ASSUME NEW i \in 1..n, NEW s \in SgrState
        PROVE  (IF i = 1 THEN a ELSE SgrStep(s, ps, i - 1)) \in SgrState
    <3> HIDE DEF a
    <3>1. i # 1 => i - 1 \in 1..Len(ps)
      OBVIOUS
    <3> QED
      BY <1>1, <3>1, SgrStepType
  <2> HIDE DEF a
  <2> QED
    BY <2>1
<1> HIDE DEF n
<1>3. PICK g : IsChain(g, SgrState, a, n, F)
  <2> HIDE DEF a, F
  <2> QED
    BY <1>1, <1>2, ChainExists
<1>4. ASSUME NEW i \in 1..n
      PROVE  g[i] = IF i = 1 THEN a ELSE SgrStep(g[i - 1], ps, i - 1)
  <2>1. g[i] = IF i = 1 THEN a ELSE F[i][g[i - 1]]
    <3> HIDE DEF a, F
    <3> QED
      BY <1>3 DEF IsChain
  <2>2. i # 1 => g[i - 1] \in SgrState
    <3> HIDE DEF a, F
    <3> QED
      BY <1>1, <1>3 DEF IsChain
  <2> HIDE DEF a
  <2> QED
    BY <2>1, <2>2
<1>5. g = [i \in 1..n |-> IF i = 1 THEN a ELSE SgrStep(g[i - 1], ps, i - 1)]
  <2> HIDE DEF a, F
  <2> DEFINE h == [i \in 1..n |-> IF i = 1 THEN a ELSE SgrStep(g[i - 1], ps, i - 1)]
  <2>1. DOMAIN g = 1..n /\ g = [i \in 1..n |-> g[i]]
    BY <1>3 DEF IsChain
  <2>2. \A i \in 1..n : g[i] = h[i]
    BY <1>4
  <2>3. g = [i \in 1..n |-> h[i]]
    BY <2>1, <2>2
  <2> QED
    BY <2>3
<1> QED
  BY <1>5 DEF SgrSteps, n

LEMMA SgrFacts ==
  ASSUME NEW ps \in Seq(Nat), style \in Style
  PROVE  Sgr(ps).now \in Style /\ Sgr(ps).old \in Style /\ Sgr(ps).new \in BOOLEAN
<1> DEFINE qs == IF ps = <<>> THEN <<0>> ELSE ps
           n == Len(qs) + 1
           f == SgrSteps(qs)
<1>1. qs \in Seq(Nat) /\ n \in Nat /\ n \in 1..n
  OBVIOUS
<1> HIDE DEF qs
<1>2. \A i \in 1..n :
        f[i] = IF i = 1 THEN [now |-> style, old |-> style, new |-> FALSE, skip |-> 0]
               ELSE SgrStep(f[i - 1], qs, i - 1)
  BY <1>1, SgrStepsDef
<1> HIDE DEF f
<1>3. f[1] \in SgrState
  <2>1. f[1] = [now |-> style, old |-> style, new |-> FALSE, skip |-> 0]
    <3>1. 1 \in 1..n
      BY <1>1
    <3> HIDE DEF n
    <3> QED
      BY <1>2, <3>1
  <2> QED
    BY <2>1 DEF SgrState
<1>4. \A i \in 2..n : f[i - 1] \in SgrState => f[i] \in SgrState
  <2>1. ASSUME NEW i \in 2..n, f[i - 1] \in SgrState
        PROVE  f[i] \in SgrState
    <3>1. i - 1 \in 1..Len(qs) /\ i \in 1..n /\ i # 1
      BY <1>1
    <3>2. f[i] = SgrStep(f[i - 1], qs, i - 1)
      BY <1>2, <3>1
    <3> QED
      BY <1>1, <2>1, <3>1, <3>2, SgrStepType
  <2> QED
    BY <2>1
<1>5. f[n] \in SgrState
  <2> HIDE DEF n
  <2> QED
    BY <1>1, <1>3, <1>4, ChainHolds
<1>6. Sgr(ps) = f[n]
  BY DEF Sgr, f, qs
<1> QED
  BY <1>5, <1>6 DEF SgrState

-----------------------------------------------------------------------------
(* Lines, cell by cell.                                                    *)

LEMMA SliceToFacts ==
  ASSUME NEW S, NEW s \in Seq(S), NEW n \in Int, n <= Len(s)
  PROVE  /\ SliceTo(s, n) \in Seq(S) /\ Len(SliceTo(s, n)) <= Len(s)
         /\ n >= 0 => /\ Len(SliceTo(s, n)) = n
                      /\ \A i \in 1..n : SliceTo(s, n)[i] = s[i]
<1> DEFINE m == IF n >= 0 THEN n ELSE Len(s) + n
<1>1. Len(s) \in Nat /\ m \in Int /\ m <= Len(s)
  OBVIOUS
<1>2. \A i \in 1..m : s[i] \in S
  BY <1>1
<1>3. SliceTo(s, n) = SubSeq(s, 1, m)
  BY DEF SliceTo
<1> HIDE DEF m
<1>4. /\ SubSeq(s, 1, m) \in Seq(S)
      /\ Len(SubSeq(s, 1, m)) = IF 1 <= m THEN m - 1 + 1 ELSE 0
      /\ \A i \in 1..(m - 1 + 1) : SubSeq(s, 1, m)[i] = s[1 + i - 1]
  BY <1>1, <1>2, SubSeqProperties
<1>5. \A i \in 1..m : SubSeq(s, 1, m)[i] = s[i]
  BY <1>1, <1>4
<1> QED
  BY <1>1, <1>3, <1>4, <1>5 DEF m

LEMMA SliceFromFacts ==
  ASSUME NEW S, NEW s \in Seq(S), NEW n \in Nat
  PROVE  /\ SliceFrom(s, n) \in Seq(S)
         /\ Len(SliceFrom(s, n)) = IF n < Len(s) THEN Len(s) - n ELSE 0
         /\ \A i \in 1..(Len(s) - n) : SliceFrom(s, n)[i] = s[n + i]
<1>1. Len(s) \in Nat /\ n + 1 \in Int /\ \A i \in (n + 1)..Len(s) : s[i] \in S
  OBVIOUS
<1> DEFINE r == SubSeq(s, n + 1, Len(s))
<1>2. /\ r \in Seq(S)
      /\ Len(r) = IF n + 1 <= Len(s) THEN Len(s) - (n + 1) + 1 ELSE 0
      /\ \A i \in 1..(Len(s) - (n + 1) + 1) : r[i] = s[n + 1 + i - 1]
  BY <1>1, SubSeqProperties
<1> HIDE DEF r
<1>3. \A i \in 1..(Len(s) - n) : r[i] = s[n + i]
  <2>1. ASSUME NEW i \in 1..(Len(s) - n)
        PROVE  r[i] = s[n + i]
    <3>1. i \in 1..(Len(s) - (n + 1) + 1) /\ n + 1 + i - 1 = n + i
      BY <1>1
    <3> QED
      BY <1>2, <3>1
  <2> QED
    BY <2>1
<1> QED
  BY <1>1, <1>2, <1>3 DEF r, SliceFrom

LEMMA ConcatFacts ==
  ASSUME NEW S, NEW s \in Seq(S), NEW t \in Seq(S)
  PROVE  /\ s \o t \in Seq(S) /\ Len(s \o t) = Len(s) + Len(t)
         /\ \A i \in 1..Len(s) : (s \o t)[i] = s[i]
         /\ \A i \in (Len(s) + 1)..(Len(s) + Len(t)) : (s \o t)[i] = t[i - Len(s)]
BY ConcatProperties

LEMMA TextFacts ==
  ASSUME NEW line \in Seq(Cell)
  PROVE  /\ TextOf(line) \in Seq(Unit) /\ Len(TextOf(line)) = Len(line)
         /\ \A i \in 1..Len(line) : TextOf(line)[i] = line[i].unit
<1> DEFINE n == Len(line)
<1>1. n \in Nat /\ \A i \in 1..n : line[i] \in Cell
  OBVIOUS
<1>2. \A i \in 1..n : line[i].unit \in Unit
  BY <1>1 DEF Cell
<1>3. TextOf(line) = [i \in 1..n |-> line[i].unit]
  BY DEF TextOf
<1> HIDE DEF n
<1>4. TextOf(line) \in [1..n -> Unit]
  BY <1>2, <1>3
<1> QED
  BY <1>1, <1>3, <1>4, IsSeq DEF n

LEMMA SpacesFacts ==
  ASSUME NEW n \in Int
  PROVE  /\ Spaces(n) \in Seq(Unit) /\ Len(Spaces(n)) = IF n > 0 THEN n ELSE 0
         /\ \A i \in 1..n : Spaces(n)[i] = Blank
<1> DEFINE m == IF n > 0 THEN n ELSE 0
<1>1. m \in Nat /\ \A i \in 1..n : i \in 1..m
  OBVIOUS
<1>2. Spaces(n) = [i \in 1..m |-> Blank] /\ Blank \in Unit
  BY DEF Spaces, Unit
<1> HIDE DEF m
<1>3. Spaces(n) \in [1..m -> Unit]
  BY <1>2
<1>4. Spaces(n) \in Seq(Unit) /\ Len(Spaces(n)) = m
  BY <1>1, <1>3, IsSeq
<1> QED
  BY <1>1, <1>2, <1>4 DEF m

LEMMA StyledFacts ==
  ASSUME NEW us \in Seq(Unit), NEW s \in CellStyle
  PROVE  /\ Styled(us, s) \in Seq(Cell) /\ Len(Styled(us, s)) = Len(us)
         /\ \A i \in 1..Len(us) : Styled(us, s)[i] = [unit |-> us[i], style |-> s]
<1> DEFINE n == Len(us)
<1>1. n \in Nat /\ \A i \in 1..n : us[i] \in Unit
  OBVIOUS
<1>2. Styled(us, s) = [i \in 1..n |-> [unit |-> us[i], style |-> s]]
  BY DEF Styled
<1> HIDE DEF n
<1>3. \A i \in 1..n : [unit |-> us[i], style |-> s] \in Cell
  BY <1>1 DEF Cell
<1>4. Styled(us, s) \in [1..n -> Cell]
  BY <1>2, <1>3
<1> QED
  BY <1>1, <1>2, <1>4, IsSeq DEF n

\* What overwriteLineAt makes, before it merges runs: its characters, its styles.
OverUnits(line, col, us) ==
  LET old == TextOf(line)
  IN SliceTo(old \o Spaces(col - Len(old)), col) \o us \o SliceFrom(old, col + Len(us))
OverStyle(line, col, us, s, i) ==
  IF i > col /\ i <= col + Len(us) THEN s
  ELSE IF i <= Len(line) THEN line[i].style ELSE DefaultStyle
Raw(line, col, us, s) ==
  [i \in 1..Len(OverUnits(line, col, us)) |->
     [unit |-> OverUnits(line, col, us)[i], style |-> OverStyle(line, col, us, s, i)]]

LEMMA OverwriteDef ==
  ASSUME NEW line, NEW col, NEW us, NEW s, us # <<>>
  PROVE  overwriteLineAt(line, col, us, s) = Merged(Raw(line, col, us, s))
BY DEF overwriteLineAt, Raw, OverUnits, OverStyle

LEMMA OverUnitsFacts ==
  ASSUME NEW line \in Seq(Cell), NEW col \in Int, NEW us \in Seq(Unit), col + Len(us) >= 0
  PROVE  LET all == OverUnits(line, col, us)
             end == col + Len(us)
         IN /\ all \in Seq(Unit)
            /\ col >= 0 =>
                 /\ Len(all) = IF end > Len(line) THEN end ELSE Len(line)
                 /\ \A i \in 1..Len(all) :
                      all[i] = IF i > col /\ i <= end THEN us[i - col]
                               ELSE IF i <= Len(line) THEN line[i].unit ELSE Blank
<1> DEFINE old == TextOf(line)
           gap == Spaces(col - Len(old))
           wide == old \o gap
           one == SliceTo(wide, col)
           two == one \o us
           end == col + Len(us)
           three == SliceFrom(old, end)
           all == two \o three
<1>1. /\ old \in Seq(Unit) /\ Len(old) = Len(line) /\ Len(old) \in Nat
      /\ \A i \in 1..Len(line) : old[i] = line[i].unit
  BY TextFacts
<1> HIDE DEF old
<1>2. /\ gap \in Seq(Unit)
      /\ Len(gap) = IF col - Len(old) > 0 THEN col - Len(old) ELSE 0
      /\ \A i \in 1..(col - Len(old)) : gap[i] = Blank
  <2>1. col - Len(old) \in Int
    BY <1>1
  <2> QED
    BY <2>1, SpacesFacts
<1> HIDE DEF gap
<1>3. /\ wide \in Seq(Unit) /\ Len(wide) = Len(old) + Len(gap)
      /\ \A i \in 1..Len(old) : wide[i] = old[i]
      /\ \A i \in (Len(old) + 1)..(Len(old) + Len(gap)) : wide[i] = gap[i - Len(old)]
  <2>1. old \in Seq(Unit) /\ gap \in Seq(Unit)
    BY <1>1, <1>2
  <2> QED
    BY <2>1, ConcatFacts
<1> HIDE DEF wide
<1>4. col <= Len(wide) /\ Len(us) \in Nat /\ end \in Nat
  BY <1>1, <1>2, <1>3
<1>5. /\ one \in Seq(Unit)
      /\ col >= 0 => Len(one) = col /\ \A i \in 1..col : one[i] = wide[i]
  BY <1>3, <1>4, SliceToFacts
<1> HIDE DEF one
<1>6. /\ two \in Seq(Unit) /\ Len(two) = Len(one) + Len(us)
      /\ \A i \in 1..Len(one) : two[i] = one[i]
      /\ \A i \in (Len(one) + 1)..(Len(one) + Len(us)) : two[i] = us[i - Len(one)]
  BY <1>5, ConcatFacts
<1> HIDE DEF two, end
<1>7. /\ three \in Seq(Unit)
      /\ Len(three) = IF end < Len(old) THEN Len(old) - end ELSE 0
      /\ \A i \in 1..(Len(old) - end) : three[i] = old[end + i]
  BY <1>1, <1>4, SliceFromFacts
<1> HIDE DEF three
<1>8. /\ all \in Seq(Unit) /\ Len(all) = Len(two) + Len(three)
      /\ \A i \in 1..Len(two) : all[i] = two[i]
      /\ \A i \in (Len(two) + 1)..(Len(two) + Len(three)) : all[i] = three[i - Len(two)]
  <2>1. two \in Seq(Unit) /\ three \in Seq(Unit)
    BY <1>6, <1>7
  <2> QED
    BY <2>1, ConcatFacts
<1>9. OverUnits(line, col, us) = all
  BY DEF OverUnits, all, two, three, one, wide, gap, old, end
<1> HIDE DEF all
<1>10. ASSUME col >= 0
       PROVE  /\ Len(all) = IF end > Len(line) THEN end ELSE Len(line)
              /\ \A i \in 1..Len(all) :
                   all[i] = IF i > col /\ i <= end THEN us[i - col]
                            ELSE IF i <= Len(line) THEN line[i].unit ELSE Blank
  <2>1. Len(one) = col /\ Len(two) = end
    BY <1>5, <1>6, <1>10 DEF end
  <2>2. Len(all) = IF end > Len(line) THEN end ELSE Len(line)
    BY <1>1, <1>4, <1>7, <1>8, <2>1
  <2>3. ASSUME NEW i \in 1..Len(all)
        PROVE  all[i] = IF i > col /\ i <= end THEN us[i - col]
                        ELSE IF i <= Len(line) THEN line[i].unit ELSE Blank
    <3>1. CASE i <= col
      <4>1. i \in 1..Len(one) /\ i \in 1..Len(two) /\ all[i] = wide[i]
        BY <1>4, <1>5, <1>6, <1>8, <1>10, <2>1, <3>1 DEF end
      <4>2. CASE i <= Len(line)
        <5>1. wide[i] = line[i].unit
          BY <1>1, <1>3, <4>2
        <5> QED
          BY <3>1, <4>1, <4>2, <5>1
      <4>3. CASE i > Len(line)
        <5>1. i \in (Len(old) + 1)..(Len(old) + Len(gap)) /\ i - Len(old) \in 1..(col - Len(old))
          BY <1>1, <1>2, <3>1, <4>3
        <5>2. wide[i] = Blank
          BY <1>2, <1>3, <5>1
        <5> QED
          BY <3>1, <4>1, <4>3, <5>2
      <4> QED
        BY <1>1, <4>2, <4>3
    <3>2. CASE i > col /\ i <= end
      <4>1. i \in (Len(one) + 1)..(Len(one) + Len(us)) /\ i \in 1..Len(two)
        BY <1>4, <1>10, <2>1, <3>2 DEF end
      <4>2. all[i] = us[i - col]
        BY <1>6, <1>8, <2>1, <4>1
      <4> QED
        BY <3>2, <4>2
    <3>3. CASE i > end
      <4>1. /\ i \in (Len(two) + 1)..(Len(two) + Len(three))
            /\ i - end \in 1..(Len(old) - end) /\ i \in 1..Len(line) /\ end + (i - end) = i
        BY <1>1, <1>4, <1>7, <1>8, <2>1, <2>2, <3>3
      <4>2. all[i] = three[i - end]
        BY <1>8, <2>1, <4>1
      <4>3. three[i - end] = old[i]
        BY <1>7, <4>1
      <4> QED
        BY <1>1, <1>4, <3>3, <4>1, <4>2, <4>3 DEF end
    <3> QED
      BY <1>4, <3>1, <3>2, <3>3
  <2> QED
    BY <2>2, <2>3
<1> QED
  BY <1>8, <1>9, <1>10 DEF end

LEMMA RawFacts ==
  ASSUME NEW line \in Seq(Cell), NEW col \in Int, NEW us \in Seq(Unit), NEW s \in CellStyle,
         col + Len(us) >= 0
  PROVE  LET raw == Raw(line, col, us, s)
             all == OverUnits(line, col, us)
         IN /\ raw \in Seq(Cell) /\ Len(raw) = Len(all)
            /\ \A i \in 1..Len(all) : /\ raw[i].unit = all[i]
                                      /\ raw[i].style = OverStyle(line, col, us, s, i)
<1> DEFINE n == Len(OverUnits(line, col, us))
<1>1. n \in Nat /\ \A i \in 1..n : OverUnits(line, col, us)[i] \in Unit
  BY OverUnitsFacts
<1>2. \A i \in 1..n : OverStyle(line, col, us, s, i) \in CellStyle
  <2>1. \A i \in 1..Len(line) : line[i].style \in CellStyle
    <3>1. \A i \in 1..Len(line) : line[i] \in Cell
      OBVIOUS
    <3> QED
      BY <3>1 DEF Cell
  <2> QED
    BY <1>1, <2>1, LiveIsNoStyle DEF OverStyle, CellStyle
<1>3. Raw(line, col, us, s) =
        [i \in 1..n |-> [unit |-> OverUnits(line, col, us)[i],
                         style |-> OverStyle(line, col, us, s, i)]]
  BY DEF Raw
<1> HIDE DEF n
<1>4. Raw(line, col, us, s) \in [1..n -> Cell]
  <2>1. \A i \in 1..n : [unit |-> OverUnits(line, col, us)[i],
                         style |-> OverStyle(line, col, us, s, i)] \in Cell
    BY <1>1, <1>2 DEF Cell
  <2> QED
    BY <1>3, <2>1
<1>5. Raw(line, col, us, s) \in Seq(Cell) /\ Len(Raw(line, col, us, s)) = n
  BY <1>1, <1>4, IsSeq
<1>6. \A i \in 1..n : /\ Raw(line, col, us, s)[i].unit = OverUnits(line, col, us)[i]
                      /\ Raw(line, col, us, s)[i].style = OverStyle(line, col, us, s, i)
  BY <1>3
<1> QED
  BY <1>5, <1>6 DEF n

\* What overwriteLineAt makes: the new characters over the old ones, each with
\* its own style; a gap before them is blank.
LEMMA OverwriteFacts ==
  ASSUME NEW line \in Seq(Cell), NEW col \in Int, NEW us \in Seq(Unit), NEW s \in CellStyle,
         us # <<>>, col + Len(us) >= 0
  PROVE  LET new == overwriteLineAt(line, col, us, s)
             end == col + Len(us)
         IN /\ new \in Seq(Cell)
            /\ s \in Style /\ (\A i \in 1..Len(line) : line[i].style \in Style)
               => \A i \in 1..Len(new) : new[i].style \in Style
            /\ col >= 0 =>
                 /\ Len(new) = IF end > Len(line) THEN end ELSE Len(line)
                 /\ \A i \in 1..Len(new) :
                      /\ new[i].unit = IF i > col /\ i <= end THEN us[i - col]
                                       ELSE IF i <= Len(line) THEN line[i].unit ELSE Blank
                      /\ Valued(new[i].style) = Valued(OverStyle(line, col, us, s, i))
<1> DEFINE raw == Raw(line, col, us, s)
           all == OverUnits(line, col, us)
           new == overwriteLineAt(line, col, us, s)
           end == col + Len(us)
<1>1. /\ raw \in Seq(Cell) /\ Len(raw) = Len(all) /\ Len(all) \in Nat
      /\ \A i \in 1..Len(all) : /\ raw[i].unit = all[i]
                                /\ raw[i].style = OverStyle(line, col, us, s, i)
  BY RawFacts, OverUnitsFacts
<1>2. col >= 0 => /\ Len(all) = IF end > Len(line) THEN end ELSE Len(line)
                  /\ \A i \in 1..Len(all) :
                       all[i] = IF i > col /\ i <= end THEN us[i - col]
                                ELSE IF i <= Len(line) THEN line[i].unit ELSE Blank
  BY OverUnitsFacts
<1>3. new = Merged(raw)
  BY OverwriteDef
<1> HIDE DEF raw, all, new
<1>4. /\ new \in Seq(Cell) /\ Len(new) = Len(raw)
      /\ \A i \in 1..Len(raw) : /\ new[i].unit = raw[i].unit
                                /\ Valued(new[i].style) = Valued(raw[i].style)
      /\ (\A i \in 1..Len(raw) : raw[i].style \in Style)
         => \A i \in 1..Len(raw) : new[i].style \in Style
  BY <1>1, <1>3, MergedFacts
<1>5. ASSUME s \in Style, \A i \in 1..Len(line) : line[i].style \in Style
      PROVE  \A i \in 1..Len(new) : new[i].style \in Style
  <2>1. \A i \in 1..Len(raw) : raw[i].style \in Style
    BY <1>1, <1>5, LiveIsNoStyle DEF OverStyle
  <2> QED
    BY <1>4, <2>1
<1>6. ASSUME col >= 0
      PROVE  /\ Len(new) = IF end > Len(line) THEN end ELSE Len(line)
             /\ \A i \in 1..Len(new) :
                  /\ new[i].unit = IF i > col /\ i <= end THEN us[i - col]
                                   ELSE IF i <= Len(line) THEN line[i].unit ELSE Blank
                  /\ Valued(new[i].style) = Valued(OverStyle(line, col, us, s, i))
  BY <1>1, <1>2, <1>4, <1>6
<1> QED
  BY <1>4, <1>5, <1>6 DEF new

LEMMA OverwriteAt ==
  ASSUME NEW line \in Seq(Cell), NEW col \in Nat, NEW us \in Seq(Unit), NEW s \in CellStyle,
         us # <<>>
  PROVE  LET new == overwriteLineAt(line, col, us, s)
             end == col + Len(us)
         IN /\ new \in Seq(Cell)
            /\ Len(new) = IF end > Len(line) THEN end ELSE Len(line)
            /\ \A i \in 1..Len(new) :
                 /\ new[i].unit = IF i > col /\ i <= end THEN us[i - col]
                                  ELSE IF i <= Len(line) THEN line[i].unit ELSE Blank
                 /\ Valued(new[i].style) = Valued(OverStyle(line, col, us, s, i))
<1>1. col \in Int /\ col >= 0 /\ col + Len(us) >= 0
  OBVIOUS
<1> QED
  BY <1>1, OverwriteFacts

LEMMA ShownFacts ==
  ASSUME NEW a \in Seq(Cell), NEW b \in Seq(Cell), Len(a) = Len(b),
         \A i \in 1..Len(a) : a[i].unit = b[i].unit /\ Valued(a[i].style) = Valued(b[i].style)
  PROVE  Shown(a) = Shown(b)
<1>1. \A i \in 1..Len(a) : [a[i] EXCEPT !.style = Valued(@)] = [b[i] EXCEPT !.style = Valued(@)]
  <2>1. ASSUME NEW i \in 1..Len(a)
        PROVE  [a[i] EXCEPT !.style = Valued(@)] = [b[i] EXCEPT !.style = Valued(@)]
    <3>1. a[i] \in Cell /\ b[i] \in Cell
      BY ElementOfSeq
    <3>2. /\ [a[i] EXCEPT !.style = Valued(@)] = [unit |-> a[i].unit, style |-> Valued(a[i].style)]
          /\ [b[i] EXCEPT !.style = Valued(@)] = [unit |-> b[i].unit, style |-> Valued(b[i].style)]
      BY <3>1 DEF Cell
    <3> QED
      BY <3>2
  <2> QED
    BY <2>1
<1> QED
  BY <1>1 DEF Shown

\* Styles that look the same make lines that look the same, at any column.
LEMMA SameLook ==
  ASSUME NEW line \in Seq(Cell), NEW col \in Int, NEW us \in Seq(Unit), col + Len(us) >= 0,
         us # <<>>, NEW s \in CellStyle, NEW t \in CellStyle, Valued(s) = Valued(t)
  PROVE  Shown(overwriteLineAt(line, col, us, s)) = Shown(overwriteLineAt(line, col, us, t))
<1> DEFINE all == OverUnits(line, col, us)
           a == Raw(line, col, us, s)
           b == Raw(line, col, us, t)
           new(x) == overwriteLineAt(line, col, us, x)
<1>1. /\ a \in Seq(Cell) /\ Len(a) = Len(all)
      /\ \A i \in 1..Len(all) : /\ a[i].unit = all[i]
                                /\ a[i].style = OverStyle(line, col, us, s, i)
  BY RawFacts
<1>2. /\ b \in Seq(Cell) /\ Len(b) = Len(all)
      /\ \A i \in 1..Len(all) : /\ b[i].unit = all[i]
                                /\ b[i].style = OverStyle(line, col, us, t, i)
  BY RawFacts
<1>3. overwriteLineAt(line, col, us, s) = Merged(a) /\ overwriteLineAt(line, col, us, t) = Merged(b)
  BY OverwriteDef
<1>4. \A i \in 1..Len(all) : Valued(OverStyle(line, col, us, s, i)) = Valued(OverStyle(line, col, us, t, i))
  BY DEF OverStyle
<1> HIDE DEF a, b, all
<1>5. /\ Merged(a) \in Seq(Cell) /\ Len(Merged(a)) = Len(a)
      /\ \A i \in 1..Len(a) : /\ Merged(a)[i].unit = a[i].unit
                              /\ Valued(Merged(a)[i].style) = Valued(a[i].style)
  BY <1>1, MergedFacts
<1>6. /\ Merged(b) \in Seq(Cell) /\ Len(Merged(b)) = Len(b)
      /\ \A i \in 1..Len(b) : /\ Merged(b)[i].unit = b[i].unit
                              /\ Valued(Merged(b)[i].style) = Valued(b[i].style)
  BY <1>2, MergedFacts
<1>7. Len(Merged(a)) = Len(all) /\ Len(Merged(b)) = Len(all)
  BY <1>1, <1>2, <1>5, <1>6
<1>8. \A i \in 1..Len(all) : /\ Merged(a)[i].unit = Merged(b)[i].unit
                             /\ Valued(Merged(a)[i].style) = Valued(Merged(b)[i].style)
  <2> SUFFICES ASSUME NEW i \in 1..Len(all)
               PROVE  /\ Merged(a)[i].unit = Merged(b)[i].unit
                      /\ Valued(Merged(a)[i].style) = Valued(Merged(b)[i].style)
    OBVIOUS
  <2>1. /\ a[i].unit = b[i].unit
        /\ Valued(a[i].style) = Valued(b[i].style)
    BY <1>1, <1>2, <1>4
  <2>2. /\ Merged(a)[i].unit = a[i].unit
        /\ Valued(Merged(a)[i].style) = Valued(a[i].style)
    BY <1>1, <1>5
  <2>3. /\ Merged(b)[i].unit = b[i].unit
        /\ Valued(Merged(b)[i].style) = Valued(b[i].style)
    BY <1>2, <1>6
  <2> QED
    BY <2>1, <2>2, <2>3
<1> QED
  BY <1>3, <1>5, <1>6, <1>7, <1>8, ShownFacts

LEMMA ShownTexts ==
  ASSUME NEW a \in Seq(Cell), NEW b \in Seq(Cell), Shown(a) = Shown(b)
  PROVE  Len(a) = Len(b) /\ TextOf(a) = TextOf(b)
<1>1. Len(a) \in Nat /\ Len(b) \in Nat
  OBVIOUS
<1>2. DOMAIN Shown(a) = 1..Len(a) /\ DOMAIN Shown(b) = 1..Len(b)
  BY DEF Shown
<1>3. Len(a) = Len(b)
  BY <1>1, <1>2
<1>4. ASSUME NEW i \in 1..Len(a)
      PROVE  a[i].unit = b[i].unit
  <2>1. a[i] \in Cell /\ b[i] \in Cell
    BY <1>3, ElementOfSeq
  <2>2. Shown(a)[i] = [unit |-> a[i].unit, style |-> Valued(a[i].style)]
    BY <2>1 DEF Cell, Shown
  <2>3. Shown(b)[i] = [unit |-> b[i].unit, style |-> Valued(b[i].style)]
    BY <1>3, <2>1 DEF Cell, Shown
  <2> QED
    BY <2>2, <2>3
<1> QED
  BY <1>3, <1>4 DEF TextOf

\* flushText puts the waiting text where getCurrentLine shows it, in the same
\* colours, and puts the parser's style object nowhere.
NoLive(line) == \A i \in 1..Len(line) : line[i].style \in Style

LEMMA FlushedFacts ==
  ASSUME StyleType, PageType
  PROVE  /\ Flushed \in Seq(Cell) /\ getCurrentLine \in Seq(Cell)
         /\ Shown(Flushed) = Shown(getCurrentLine)
         /\ NoLive(currentLine) => NoLive(Flushed)
<1> DEFINE line == currentLine
           us == currentText
           col == cursorCol - Len(us)
<1>1. /\ line \in Seq(Cell) /\ us \in Seq(Unit) /\ Len(us) \in Nat /\ Len(line) \in Nat
      /\ col \in Int /\ cursorCol \in Nat /\ col + Len(us) >= 0 /\ style \in Style
  BY Numbers DEF StyleType, PageType
<1>2. /\ Live \in CellStyle /\ style \in CellStyle /\ DefaultStyle \in CellStyle
      /\ Valued(Live) = style /\ Valued(style) = style
  BY <1>1, LiveIsNoStyle DEF CellStyle, Valued
<1>3. CASE us = <<>>
  BY <1>1, <1>3 DEF Flushed, getCurrentLine, overwriteLineAt, NoLive
<1>4. CASE us # <<>> /\ col < Len(line)
  <2>1. Flushed = overwriteLineAt(line, col, us, style)
    BY <1>1, <1>4 DEF Flushed
  <2>2. getCurrentLine = overwriteLineAt(line, col, us, Live)
    BY DEF getCurrentLine
  <2> HIDE DEF line, us, col
  <2>3. Shown(Flushed) = Shown(getCurrentLine)
    BY <1>1, <1>2, <1>4, <2>1, <2>2, SameLook
  <2>4. Flushed \in Seq(Cell) /\ (NoLive(line) => NoLive(Flushed))
    BY <1>1, <1>2, <1>4, <2>1, OverwriteFacts DEF NoLive
  <2>5. getCurrentLine \in Seq(Cell)
    BY <1>1, <1>2, <1>4, <2>2, OverwriteFacts
  <2> QED
    BY <2>3, <2>4, <2>5 DEF line
<1>5. CASE us # <<>> /\ col >= Len(line)
  <2> DEFINE gap == Styled(Spaces(col - Len(line)), DefaultStyle)
             padded == line \o gap
             same == padded # <<>> /\ Valued(Last(padded).style) = style
             st == IF same THEN Last(padded).style ELSE style
             tail == Styled(us, st)
             new == overwriteLineAt(line, col, us, Live)
  <2>1. Flushed = padded \o tail
    BY <1>5 DEF Flushed
  <2>2. getCurrentLine = new
    BY DEF getCurrentLine
  <2> HIDE DEF line, us, col
  <2>3. /\ gap \in Seq(Cell) /\ Len(gap) = col - Len(line)
        /\ \A i \in 1..(col - Len(line)) : gap[i] = [unit |-> Blank, style |-> DefaultStyle]
    <3>1. col - Len(line) \in Nat
      BY <1>1, <1>5
    <3>2. /\ Spaces(col - Len(line)) \in Seq(Unit)
          /\ Len(Spaces(col - Len(line))) = col - Len(line)
          /\ \A i \in 1..(col - Len(line)) : Spaces(col - Len(line))[i] = Blank
      <4> DEFINE n == col - Len(line)
      <4>1. n \in Int /\ (n > 0 \/ n = 0)
        BY <3>1
      <4> HIDE DEF n
      <4>2. /\ Spaces(n) \in Seq(Unit) /\ Len(Spaces(n)) = IF n > 0 THEN n ELSE 0
            /\ \A i \in 1..n : Spaces(n)[i] = Blank
        BY <4>1, SpacesFacts
      <4> QED
        BY <4>1, <4>2 DEF n
    <3> QED
      BY <1>2, <3>2, StyledFacts
  <2> HIDE DEF gap
  <2>4. /\ padded \in Seq(Cell) /\ Len(padded) = col
        /\ \A i \in 1..Len(line) : padded[i] = line[i]
        /\ \A i \in (Len(line) + 1)..col : padded[i] = [unit |-> Blank, style |-> DefaultStyle]
    <3>1. /\ padded \in Seq(Cell) /\ Len(padded) = Len(line) + Len(gap)
          /\ \A i \in 1..Len(line) : padded[i] = line[i]
          /\ \A i \in (Len(line) + 1)..(Len(line) + Len(gap)) : padded[i] = gap[i - Len(line)]
      BY <1>1, <2>3, ConcatFacts
    <3> HIDE DEF padded
    <3>2. Len(line) \in Nat /\ col \in Nat /\ Len(line) + Len(gap) = col
      BY <1>1, <1>5, <2>3
    <3>3. ASSUME NEW i \in (Len(line) + 1)..col
          PROVE  padded[i] = [unit |-> Blank, style |-> DefaultStyle]
      <4>1. i - Len(line) \in 1..(col - Len(line)) /\ padded[i] = gap[i - Len(line)]
        BY <3>1, <3>2
      <4> QED
        BY <2>3, <4>1
    <3> QED
      BY <3>1, <3>2, <3>3
  <2>5. NoLive(line) => NoLive(padded)
    <3> HIDE DEF padded
    <3>1. ASSUME NoLive(line), NEW i \in 1..Len(padded)
          PROVE  padded[i].style \in Style
      <4>1. CASE i <= Len(line)
        <5>1. padded[i] = line[i] /\ i \in 1..Len(line)
          BY <1>1, <2>4, <4>1
        <5> QED
          BY <3>1, <5>1 DEF NoLive
      <4>2. CASE i > Len(line)
        <5>1. padded[i] = [unit |-> Blank, style |-> DefaultStyle]
          BY <1>1, <2>4, <4>2
        <5> QED
          BY <5>1, LiveIsNoStyle
      <4> QED
        BY <1>1, <2>4, <4>1, <4>2
    <3> QED
      BY <3>1 DEF NoLive
  <2> HIDE DEF padded
  <2>6. st \in CellStyle /\ Valued(st) = style /\ (NoLive(line) => st \in Style)
    <3>1. ASSUME padded # <<>>
          PROVE  Last(padded).style \in CellStyle /\ (NoLive(padded) => Last(padded).style \in Style)
      <4>1. Len(padded) \in 1..Len(padded)
        BY <2>4, <3>1, EmptySeq
      <4>2. padded[Len(padded)] \in Cell
        BY <2>4, <4>1, ElementOfSeq
      <4>3. Last(padded) = padded[Len(padded)]
        BY DEF Last
      <4> QED
        BY <4>1, <4>2, <4>3 DEF Cell, NoLive
    <3> QED
      BY <1>1, <1>2, <2>5, <3>1
  <2> HIDE DEF st
  <2>7. /\ tail \in Seq(Cell) /\ Len(tail) = Len(us)
        /\ \A i \in 1..Len(us) : tail[i] = [unit |-> us[i], style |-> st]
    BY <1>1, <2>6, StyledFacts
  <2> HIDE DEF tail
  <2>8. /\ Flushed \in Seq(Cell) /\ Len(Flushed) = col + Len(us)
        /\ \A i \in 1..col : Flushed[i] = padded[i]
        /\ \A i \in (col + 1)..(col + Len(us)) : Flushed[i] = tail[i - col]
    <3>1. padded \in Seq(Cell) /\ tail \in Seq(Cell)
      BY <2>4, <2>7
    <3>2. /\ padded \o tail \in Seq(Cell) /\ Len(padded \o tail) = Len(padded) + Len(tail)
          /\ \A i \in 1..Len(padded) : (padded \o tail)[i] = padded[i]
          /\ \A i \in (Len(padded) + 1)..(Len(padded) + Len(tail)) :
               (padded \o tail)[i] = tail[i - Len(padded)]
      BY <3>1, ConcatFacts
    <3> QED
      BY <2>1, <2>4, <2>7, <3>2
  <2>9. /\ new \in Seq(Cell)
        /\ Len(new) = col + Len(us)
        /\ \A i \in 1..Len(new) :
             /\ new[i].unit = IF i > col /\ i <= col + Len(us) THEN us[i - col]
                              ELSE IF i <= Len(line) THEN line[i].unit ELSE Blank
             /\ Valued(new[i].style) = Valued(OverStyle(line, col, us, Live, i))
    <3>1. col >= 0 /\ (col + Len(us) > Len(line) \/ col + Len(us) = Len(line))
      BY <1>1, <1>5
    <3>2. /\ line \in Seq(Cell) /\ col \in Nat /\ us \in Seq(Unit) /\ us # <<>>
          /\ Live \in CellStyle
      BY <1>1, <1>2, <1>5
    <3>3. /\ new \in Seq(Cell)
          /\ Len(new) = IF col + Len(us) > Len(line) THEN col + Len(us) ELSE Len(line)
          /\ \A i \in 1..Len(new) :
               /\ new[i].unit = IF i > col /\ i <= col + Len(us) THEN us[i - col]
                                ELSE IF i <= Len(line) THEN line[i].unit ELSE Blank
               /\ Valued(new[i].style) = Valued(OverStyle(line, col, us, Live, i))
      BY <3>2, OverwriteAt
    <3> HIDE DEF new
    <3> QED
      BY <3>1, <3>3
  <2> HIDE DEF new
  <2>10. ASSUME NEW i \in 1..(col + Len(us))
         PROVE  Flushed[i].unit = new[i].unit /\ Valued(Flushed[i].style) = Valued(new[i].style)
    <3>1. CASE i <= Len(line)
      <4>1. Flushed[i] = line[i] /\ ~(i > col)
        BY <1>1, <1>5, <2>4, <2>8, <3>1
      <4> QED
        BY <1>1, <2>9, <3>1, <4>1 DEF OverStyle
    <3>2. CASE i > Len(line) /\ i <= col
      <4>1. Flushed[i] = [unit |-> Blank, style |-> DefaultStyle] /\ ~(i > col) /\ ~(i <= Len(line))
        BY <1>1, <2>4, <2>8, <3>2
      <4> QED
        BY <1>1, <2>9, <4>1 DEF OverStyle
    <3>3. CASE i > col
      <4>1. Flushed[i] = [unit |-> us[i - col], style |-> st]
        <5>1. i \in (col + 1)..(col + Len(us)) /\ i - col \in 1..Len(us)
          BY <1>1, <3>3
        <5> QED
          BY <2>7, <2>8, <5>1
      <4>2. i > col /\ i <= col + Len(us)
        BY <1>1, <3>3
      <4>3. new[i].unit = us[i - col] /\ Valued(new[i].style) = Valued(Live)
        BY <2>9, <4>2 DEF OverStyle
      <4> QED
        BY <1>2, <2>6, <4>1, <4>3
    <3> QED
      BY <1>1, <3>1, <3>2, <3>3
  <2>11. Shown(Flushed) = Shown(new)
    BY <2>8, <2>9, <2>10, ShownFacts
  <2>12. NoLive(line) => NoLive(Flushed)
    <3>1. ASSUME NoLive(line), NEW i \in 1..Len(Flushed)
          PROVE  Flushed[i].style \in Style
      <4>1. CASE i <= col
        <5>1. Flushed[i] = padded[i] /\ i \in 1..Len(padded)
          BY <1>1, <2>4, <2>8, <4>1
        <5> QED
          BY <2>5, <3>1, <5>1 DEF NoLive
      <4>2. CASE i > col
        <5>1. i \in (col + 1)..(col + Len(us)) /\ i - col \in 1..Len(us)
          BY <1>1, <2>8, <4>2
        <5>2. Flushed[i] = [unit |-> us[i - col], style |-> st]
          BY <2>7, <2>8, <5>1
        <5> QED
          BY <2>6, <3>1, <5>2
      <4> QED
        BY <1>1, <4>1, <4>2
    <3> QED
      BY <3>1 DEF NoLive
  <2> QED
    BY <2>2, <2>8, <2>9, <2>11, <2>12 DEF line
<1> QED
  BY <1>1, <1>3, <1>4, <1>5

LEMMA OverwriteType ==
  ASSUME NEW line \in Seq(Cell), NEW col \in Nat, NEW us \in Seq(Unit), NEW s \in CellStyle
  PROVE  overwriteLineAt(line, col, us, s) \in Seq(Cell)
<1>1. CASE us = <<>>
  BY <1>1 DEF overwriteLineAt
<1>2. CASE us # <<>>
  <2>1. col \in Int /\ col + Len(us) >= 0
    OBVIOUS
  <2> QED
    BY <1>2, <2>1, OverwriteFacts
<1> QED
  BY <1>1, <1>2

\* The line on the page, when its waiting text fits left of the cursor.
LEMMA CurrentLineFacts ==
  ASSUME StyleType, PageType, Len(currentText) <= cursorCol
  PROVE  LET now == getCurrentLine
             col == cursorCol - Len(currentText)
         IN /\ now \in Seq(Cell)
            /\ Len(now) = IF currentText # <<>> /\ cursorCol > Len(currentLine)
                          THEN cursorCol ELSE Len(currentLine)
            /\ \A i \in 1..Len(now) :
                 now[i].unit = IF i > col /\ i <= cursorCol THEN currentText[i - col]
                               ELSE IF i <= Len(currentLine) THEN currentLine[i].unit ELSE Blank
<1> DEFINE now == getCurrentLine
           col == cursorCol - Len(currentText)
<1>1. /\ currentLine \in Seq(Cell) /\ currentText \in Seq(Unit) /\ Len(currentText) \in Nat
      /\ Len(currentLine) \in Nat /\ cursorCol \in Nat /\ col \in Nat
      /\ col + Len(currentText) = cursorCol
  BY Numbers DEF PageType
<1>2. now = overwriteLineAt(currentLine, col, currentText, Live) /\ Live \in CellStyle
  BY DEF getCurrentLine, CellStyle
<1> HIDE DEF now
<1>3. CASE currentText = <<>>
  <2>1. now = currentLine /\ col = cursorCol
    BY <1>1, <1>2, <1>3 DEF overwriteLineAt
  <2> QED
    BY <1>1, <1>3, <2>1 DEF now
<1>4. CASE currentText # <<>>
  <2>1. /\ now \in Seq(Cell)
        /\ Len(now) = IF cursorCol > Len(currentLine) THEN cursorCol ELSE Len(currentLine)
        /\ \A i \in 1..Len(now) :
             now[i].unit = IF i > col /\ i <= cursorCol THEN currentText[i - col]
                           ELSE IF i <= Len(currentLine) THEN currentLine[i].unit ELSE Blank
    <3> HIDE DEF col
    <3>1. col \in Int /\ col >= 0 /\ col + Len(currentText) >= 0
      BY <1>1
    <3> DEFINE end == col + Len(currentText)
    <3>2. /\ now \in Seq(Cell)
          /\ Len(now) = IF end > Len(currentLine) THEN end ELSE Len(currentLine)
          /\ \A i \in 1..Len(now) :
               now[i].unit = IF i > col /\ i <= end THEN currentText[i - col]
                             ELSE IF i <= Len(currentLine) THEN currentLine[i].unit ELSE Blank
      <4>1. currentLine \in Seq(Cell) /\ currentText \in Seq(Unit) /\ currentText # <<>>
        BY <1>1, <1>4
      <4> QED
        BY <1>2, <3>1, <4>1, OverwriteFacts
    <3>3. end = cursorCol
      BY <1>1
    <3> HIDE DEF end
    <3> QED
      BY <3>2, <3>3
  <2> QED
    BY <1>4, <2>1 DEF now
<1> QED
  BY <1>3, <1>4

LEMMA FlushedLength ==
  ASSUME StyleType, PageType, Narrow, Wide = {}
  PROVE  Len(Flushed) = Len(getCurrentLine) /\ Len(Flushed) <= MaxCol
<1>1. Flushed \in Seq(Cell) /\ getCurrentLine \in Seq(Cell) /\ Len(Flushed) = Len(getCurrentLine)
  BY FlushedFacts, ShownTexts
<1>2. Len(currentText) <= cursorCol /\ Len(currentLine) <= MaxCol /\ cursorCol <= MaxCol
  BY Numbers DEF Narrow, PageType
<1> QED
  BY <1>1, <1>2, CurrentLineFacts

\* The numbers of a sequence that takes effect.
LEMMA FinalNumbers ==
  ASSUME StyleType, Final
  PROVE  /\ csiParams \in Seq(Nat)
         /\ \A i \in 1..2, d \in Nat : Number(i, d) \in Nat /\ (d > 0 => Number(i, d) > 0)
<1>1. csiParams \in Seq(Nat \cup {-1})
  <2>1. <<>> \in Seq(Nat \cup {-1}) /\ csiParams \in Params \cup {<<>>}
    BY DEF StyleType
  <2>2. Params \subseteq Seq(Nat \cup {-1})
    BY ParserBounds
  <2> QED
    BY <2>1, <2>2
<1>2. \A i \in 1..Len(csiParams) : csiParams[i] \in Nat
  BY <1>1 DEF Final, Private
<1>3. csiParams \in [1..Len(csiParams) -> Nat] /\ Len(csiParams) \in Nat
  BY <1>1, <1>2
<1>4. csiParams \in Seq(Nat)
  BY <1>3, IsSeq
<1>5. ASSUME NEW i \in 1..2, NEW d \in Nat
      PROVE  Number(i, d) \in Nat /\ (d > 0 => Number(i, d) > 0)
  BY <1>2, <1>3 DEF Number
<1> QED
  BY <1>4, <1>5

-----------------------------------------------------------------------------
(* The invariant holds at the start and through every step.                *)

LEMMA Start == Init => IInv
<1> SUFFICES ASSUME Init
             PROVE  IInv
  OBVIOUS
<1> USE Numbers DEF Init
<1>1. StyleType
  BY LiveIsNoStyle DEF StyleType
<1>2. PageType
  BY DEF PageType
<1>3. KeepsRecentLines /\ Narrow
  BY DEF KeepsRecentLines, Narrow
<1> QED
  BY <1>1, <1>2, <1>3 DEF IInv

\* Steps that leave the page, or the style, alone.
LEMMA SameParse == ASSUME StyleType, UNCHANGED <<style, parse>> PROVE StyleType'
BY DEF StyleType, parse

LEMMA AfterFinal == ASSUME StyleType, Final, style' \in Style PROVE StyleType'
BY DEF StyleType, Final

LEMMA SameLines ==
  ASSUME KeepsRecentLines, UNCHANGED <<lines, recent>>
  PROVE  KeepsRecentLines'
BY DEF KeepsRecentLines, TextOf

LEMMA SamePage ==
  ASSUME PageType, KeepsRecentLines, Narrow, UNCHANGED <<text, lines, recent>>
  PROVE  PageType' /\ KeepsRecentLines' /\ Narrow'
BY SameLines DEF PageType, Narrow, text

\* A step that changes the line or moves the cursor, and has flushed.
LEMMA LineStep ==
  ASSUME IInv, UNCHANGED <<lines, recent>>, currentLine' \in Seq(Cell), currentText' = <<>>,
         cursorCol' \in 0..MaxCol, Wide = {} => Len(currentLine') <= MaxCol
  PROVE  PageType' /\ KeepsRecentLines' /\ Narrow'
<1>1. PageType'
  BY DEF IInv, PageType
<1>2. KeepsRecentLines'
  BY SameLines DEF IInv
<1>3. Narrow'
  BY Numbers DEF Narrow
<1> QED
  BY <1>1, <1>2, <1>3

LEMMA Parses == ASSUME IInv, Parse PROVE IInv'
<1>1. CASE \E from, to \in {"normal", "escape", "csi", "osc"} : Goto(from, to)
  BY <1>1, SamePage DEF IInv, Goto, StyleType
<1>2. CASE \E p \in Params : CsiParams(p)
  <2>1. PICK p \in Params : CsiParams(p)
    BY <1>2
  <2>2. UNCHANGED <<text, lines, recent>> /\ StyleType'
    BY <2>1 DEF CsiParams, IInv, StyleType
  <2> QED
    BY <2>2, SamePage DEF IInv
<1> QED
  BY <1>1, <1>2 DEF Parse, Escape, EscapeOpens, EscapeOther, StringEnds, CsiIgnored

LEMMA FlushedMove ==
  ASSUME IInv, flushText, cursorCol' \in 0..MaxCol, UNCHANGED <<lines, recent>>
  PROVE  PageType' /\ KeepsRecentLines' /\ Narrow'
<1>1. Flushed \in Seq(Cell) /\ (Wide = {} => Len(Flushed) <= MaxCol)
  BY FlushedFacts, FlushedLength DEF IInv
<1> QED
  BY <1>1, LineStep DEF flushText

LEMMA MoveSteps == ASSUME IInv, CarriageReturn \/ Backspace PROVE IInv'
<1>1. cursorCol \in 0..MaxCol /\ 0 \in 0..MaxCol /\ cursorCol \in Nat /\ MaxCol \in Nat
  BY Numbers DEF IInv, PageType
<1>2. StyleType'
  BY SameParse DEF IInv, CarriageReturn, Backspace, Typed
<1>3. flushText /\ cursorCol' \in 0..MaxCol /\ UNCHANGED <<lines, recent>>
  <2>1. cursorCol > 0 => cursorCol - 1 \in 0..MaxCol
    BY <1>1
  <2> QED
    BY <1>1, <2>1 DEF CarriageReturn, Backspace
<1> QED
  BY <1>2, <1>3, FlushedMove DEF IInv

LEMMA MovesStep == ASSUME IInv, NEW c \in Nat, Moves(c) PROVE IInv'
<1>1. StyleType'
  BY AfterFinal DEF IInv, Moves, StyleType
<1>2. flushText /\ cursorCol' \in 0..MaxCol /\ UNCHANGED <<lines, recent>>
  BY Numbers DEF Moves
<1> QED
  BY <1>1, <1>2, FlushedMove DEF IInv

LEMMA EditsStep == ASSUME IInv, NEW line \in Seq(Cell), Edits(line) PROVE IInv'
<1>1. StyleType'
  BY AfterFinal DEF IInv, Edits, StyleType
<1>2. PageType' /\ KeepsRecentLines' /\ Narrow'
  BY LineStep DEF Edits, IInv, PageType
<1> QED
  BY <1>1, <1>2 DEF IInv

LEMMA UnitsFacts ==
  ASSUME NEW c \in Chars
  PROVE  Units(c) \in Seq(Unit) /\ Len(Units(c)) \in 1..2 /\ (Wide = {} => Units(c) = <<c>>)
<1>1. <<"hi", "lo">> \in Seq(Unit) /\ <<c>> \in Seq(Unit) /\ Len(<<"hi", "lo">>) = 2 /\ Len(<<c>>) = 1
  BY DEF Unit
<1> QED
  BY <1>1 DEF Units

LEMMA PutStep == ASSUME IInv, NEW c \in Chars, Put(c) PROVE IInv'
<1>1. StyleType'
  BY SameParse DEF IInv, Put, Typed
<1>2. /\ currentText \in Seq(Unit) /\ Units(c) \in Seq(Unit) /\ Len(Units(c)) \in 1..2
      /\ Wide = {} => Len(Units(c)) = 1
  BY UnitsFacts DEF IInv, PageType
<1>3. currentText' \in Seq(Unit) /\ Len(currentText') = Len(currentText) + Len(Units(c))
  BY <1>2, ConcatFacts DEF Put
<1>4. cursorCol' \in 0..MaxCol /\ cursorCol' > 0 /\ cursorCol' = cursorCol + 1 /\ cursorCol \in Nat
  BY Numbers DEF IInv, PageType, Put
<1>5. PageType'
  BY <1>3, <1>4 DEF IInv, PageType, Put
<1>6. KeepsRecentLines'
  BY SameLines DEF IInv, Put
<1>7. Narrow'
  <2>1. ASSUME Wide = {}
        PROVE  Len(currentText') <= cursorCol' /\ Len(currentLine') <= MaxCol
    <3>1. Len(currentText) <= cursorCol /\ Len(currentLine) <= MaxCol /\ Len(currentText) \in Nat
      BY <1>2, <2>1 DEF IInv, Narrow
    <3>2. Len(currentText') = Len(currentText) + 1
      BY <1>2, <1>3, <2>1
    <3> QED
      BY <1>4, <3>1, <3>2 DEF Put
  <2> QED
    BY <2>1 DEF Narrow
<1> QED
  BY <1>1, <1>5, <1>6, <1>7 DEF IInv

LEMMA TabSpaces ==
  ASSUME PageType
  PROVE  LET n == TabStop - (cursorCol % TabStop)
         IN n \in Nat /\ n > 0 /\ Spaces(n) \in Seq(Unit) /\ Len(Spaces(n)) = n
<1> DEFINE n == TabStop - (cursorCol % TabStop)
<1>1. n \in Nat /\ n > 0
  <2>1. cursorCol \in Nat /\ TabStop \in Nat /\ TabStop > 0
    BY Numbers DEF PageType
  <2>2. cursorCol % TabStop \in 0..(TabStop - 1)
    BY <2>1
  <2> QED
    BY <2>1, <2>2
<1> HIDE DEF n
<1>2. Spaces(n) \in Seq(Unit) /\ Len(Spaces(n)) = n
  BY <1>1, SpacesFacts
<1> QED
  BY <1>1, <1>2 DEF n

LEMMA TabStep == ASSUME IInv, Tab PROVE IInv'
<1> DEFINE n == TabStop - (cursorCol % TabStop)
<1>1. StyleType'
  BY SameParse DEF IInv, Tab, Typed
<1>2. n \in Nat /\ n > 0 /\ Spaces(n) \in Seq(Unit) /\ Len(Spaces(n)) = n
  BY TabSpaces DEF IInv
<1>3. /\ currentLine' = Flushed /\ currentText' = Spaces(n) /\ cursorCol' = cursorCol + n
      /\ cursorCol + n <= MaxCol /\ UNCHANGED <<lines, recent>>
  BY DEF Tab
<1> HIDE DEF n
<1>4. Flushed \in Seq(Cell) /\ (Wide = {} => Len(Flushed) <= MaxCol)
  BY FlushedFacts, FlushedLength DEF IInv
<1>5. cursorCol' \in 0..MaxCol /\ cursorCol' > 0 /\ cursorCol \in Nat
  BY <1>2, <1>3, Numbers DEF IInv, PageType
<1>6. PageType'
  BY <1>2, <1>3, <1>4, <1>5 DEF IInv, PageType
<1>7. KeepsRecentLines'
  BY <1>3, SameLines DEF IInv
<1>8. Narrow'
  BY <1>2, <1>3, <1>4, <1>5 DEF Narrow
<1> QED
  BY <1>1, <1>6, <1>7, <1>8 DEF IInv

\* The finished lines after a newline.
LEMMA NewlineLines ==
  ASSUME IInv, Newline
  PROVE  LET n == Len(lines) + 1
             cut == IF n > MaxLines + Slack THEN n - MaxLines ELSE 0
         IN /\ cut \in Nat /\ cut <= n
            /\ lines' \in Seq(Seq(Cell)) /\ Len(lines') = n - cut
            /\ \A i \in 1..(n - cut) :
                 lines'[i] = IF cut + i = n THEN Flushed ELSE lines[cut + i]
<1> DEFINE all == Append(lines, Flushed)
           n == Len(lines) + 1
           cut == IF n > MaxLines + Slack THEN n - MaxLines ELSE 0
<1>1. lines \in Seq(Seq(Cell)) /\ Flushed \in Seq(Cell) /\ n \in Nat /\ Len(lines) = n - 1
  BY FlushedFacts DEF IInv, PageType
<1>2. /\ all \in Seq(Seq(Cell)) /\ Len(all) = n
      /\ \A i \in 1..n : all[i] = IF i = n THEN Flushed ELSE lines[i]
  <2>1. /\ all \in Seq(Seq(Cell)) /\ Len(all) = Len(lines) + 1
        /\ \A i \in 1..Len(lines) : all[i] = lines[i]
        /\ all[Len(lines) + 1] = Flushed
    BY <1>1, AppendProperties
  <2> HIDE DEF all
  <2>2. \A i \in 1..n : i = n \/ i \in 1..Len(lines)
    BY <1>1
  <2> QED
    BY <1>1, <2>1, <2>2
<1>3. lines' = IF Len(all) > MaxLines + Slack THEN SliceFrom(all, Len(all) - MaxLines) ELSE all
  BY DEF Newline, pushLine
<1> HIDE DEF all, n
<1>4. cut \in Nat /\ cut <= n /\ (cut > 0 => cut < n)
  BY <1>1, Numbers
<1>5. /\ lines' \in Seq(Seq(Cell)) /\ Len(lines') = n - cut
      /\ \A i \in 1..(n - cut) : lines'[i] = all[cut + i]
  <2>1. CASE ~(n > MaxLines + Slack)
    <3>1. lines' = all /\ cut = 0
      BY <1>2, <1>3, <2>1
    <3> HIDE DEF cut
    <3> QED
      BY <1>1, <1>2, <3>1
  <2>2. CASE n > MaxLines + Slack
    <3>1. lines' = SliceFrom(all, cut) /\ cut < n
      BY <1>1, <1>2, <1>3, <2>2, Numbers
    <3> HIDE DEF cut
    <3>2. all \in Seq(Seq(Cell)) /\ cut \in Nat
      BY <1>2, <1>4
    <3>3. /\ SliceFrom(all, cut) \in Seq(Seq(Cell))
          /\ Len(SliceFrom(all, cut)) = IF cut < Len(all) THEN Len(all) - cut ELSE 0
          /\ \A i \in 1..(Len(all) - cut) : SliceFrom(all, cut)[i] = all[cut + i]
      BY <3>2, SliceFromFacts
    <3> QED
      BY <1>2, <3>1, <3>3
  <2> QED
    BY <2>1, <2>2
<1> HIDE DEF cut
<1>6. \A i \in 1..(n - cut) : all[cut + i] = IF cut + i = n THEN Flushed ELSE lines[cut + i]
  <2>1. ASSUME NEW i \in 1..(n - cut)
        PROVE  cut + i \in 1..n
    BY <1>1, <1>4
  <2> QED
    BY <1>2, <2>1
<1> QED
  BY <1>4, <1>5, <1>6 DEF n, cut

LEMMA NewlineStep == ASSUME IInv, Newline PROVE IInv'
<1> DEFINE n == Len(lines) + 1
           cut == IF n > MaxLines + Slack THEN n - MaxLines ELSE 0
           r == Len(recent)
           seen == Append(recent, TextOf(Flushed))
           drop == IF Len(seen) > MaxLines THEN 1 ELSE 0
<1>1. StyleType'
  BY SameParse DEF IInv, Newline, Typed
<1>2. Flushed \in Seq(Cell) /\ TextOf(Flushed) \in Seq(Unit)
  BY FlushedFacts, TextFacts DEF IInv
<1>3. /\ recent \in Seq(Seq(Unit)) /\ n \in Nat /\ n - 1 <= MaxLines + Slack
      /\ r \in Nat /\ r <= MaxLines /\ r <= n - 1
      /\ \A i \in 1..r : TextOf(lines[n - 1 - r + i]) = recent[i]
  <2>1. /\ lines \in Seq(Seq(Cell)) /\ recent \in Seq(Seq(Unit))
        /\ Len(lines) <= MaxLines + Slack /\ r <= MaxLines /\ r <= Len(lines)
        /\ \A i \in 1..r : TextOf(lines[Len(lines) - r + i]) = recent[i]
    BY DEF IInv, PageType, KeepsRecentLines
  <2>2. Len(lines) \in Nat /\ Len(lines) = n - 1 /\ n \in Nat /\ r \in Nat
    BY <2>1
  <2> HIDE DEF n, r
  <2> QED
    BY <2>1, <2>2
<1>4. /\ cut \in Nat /\ cut <= n
      /\ lines' \in Seq(Seq(Cell)) /\ Len(lines') = n - cut
      /\ \A i \in 1..(n - cut) : lines'[i] = IF cut + i = n THEN Flushed ELSE lines[cut + i]
  BY NewlineLines
<1> HIDE DEF n, r
<1>5. /\ seen \in Seq(Seq(Unit)) /\ Len(seen) = r + 1
      /\ \A i \in 1..r : seen[i] = recent[i]
      /\ seen[r + 1] = TextOf(Flushed)
  BY <1>2, <1>3, AppendProperties DEF r
<1>6. /\ recent' = SliceFrom(seen, drop)
      /\ currentLine' = <<>> /\ currentText' = <<>> /\ cursorCol' = 0
  BY DEF Newline
<1> HIDE DEF seen
<1>7. /\ n - cut >= r + 1 - drop /\ n - cut <= MaxLines + Slack
      /\ drop \in 0..1 /\ r + 1 - drop <= MaxLines
  BY <1>3, <1>5, Numbers
<1>8. cut \in 0..n
  BY <1>3, <1>4
<1> HIDE DEF cut
<1>9. /\ recent' \in Seq(Seq(Unit)) /\ Len(recent') = r + 1 - drop
      /\ \A i \in 1..(r + 1 - drop) : recent'[i] = seen[drop + i]
  <2>1. drop \in Nat /\ (drop < r + 1 \/ drop = r + 1) /\ seen \in Seq(Seq(Unit))
    BY <1>3, <1>5, <1>7
  <2> HIDE DEF drop
  <2>2. /\ SliceFrom(seen, drop) \in Seq(Seq(Unit))
        /\ Len(SliceFrom(seen, drop)) = IF drop < Len(seen) THEN Len(seen) - drop ELSE 0
        /\ \A i \in 1..(Len(seen) - drop) : SliceFrom(seen, drop)[i] = seen[drop + i]
    BY <2>1, SliceFromFacts
  <2> QED
    <3>1. Len(seen) = r + 1 /\ r \in Nat
      BY <1>3, <1>5
    <3>2. Len(seen) - drop = r + 1 - drop /\ Len(SliceFrom(seen, drop)) = r + 1 - drop
      BY <2>1, <2>2, <3>1
    <3> QED
      BY <1>6, <2>2, <3>2
<1> HIDE DEF drop
<1>10. KeepsRecentLines'
  <2>1. ASSUME NEW i \in 1..(r + 1 - drop)
        PROVE  TextOf(lines'[(n - cut) - (r + 1 - drop) + i]) = recent'[i]
    <3> DEFINE j == (n - cut) - (r + 1 - drop) + i
    <3>1. /\ j \in 1..(n - cut) /\ cut + j = n - 1 - r + (drop + i)
          /\ (cut + j = n <=> drop + i = r + 1)
      BY <1>3, <1>7, <1>8
    <3>2. recent'[i] = seen[drop + i]
      BY <1>9
    <3> HIDE DEF j
    <3>3. CASE drop + i <= r
      <4>1. drop + i \in 1..r /\ cut + j # n
        BY <1>3, <1>7, <3>1, <3>3
      <4>2. lines'[j] = lines[n - 1 - r + (drop + i)]
        BY <1>4, <3>1, <4>1
      <4> QED
        BY <1>3, <1>5, <3>2, <4>1, <4>2 DEF j
    <3>4. CASE drop + i = r + 1
      <4>1. lines'[j] = Flushed
        BY <1>4, <3>1, <3>4
      <4> QED
        BY <1>5, <3>2, <3>4, <4>1 DEF j
    <3> QED
      BY <1>3, <1>7, <3>3, <3>4
  <2>2. (KeepsRecentLines)' <=>
          /\ Len(lines') >= Len(recent')
          /\ \A i \in 1..Len(recent') : TextOf(lines'[Len(lines') - Len(recent') + i]) = recent'[i]
    BY DEF KeepsRecentLines, TextOf
  <2> QED
    BY <1>4, <1>7, <1>9, <2>1, <2>2
<1>11. PageType'
  BY <1>4, <1>6, <1>7, <1>9, Numbers DEF PageType
<1>12. Narrow'
  BY <1>6, Numbers DEF Narrow
<1> QED
  BY <1>1, <1>10, <1>11, <1>12 DEF IInv

LEMMA EraseSteps == ASSUME IInv, EraseLine \/ EraseDisplay PROVE IInv'
<1>1. StyleType'
  BY AfterFinal DEF IInv, EraseLine, EraseDisplay, StyleType
<1>2. currentLine' = <<>> /\ currentText' = <<>> /\ cursorCol' = 0
  BY DEF EraseLine, EraseDisplay
<1>3. Narrow'
  BY <1>2, Numbers DEF Narrow
<1>4. UNCHANGED <<lines, recent>> \/ (lines' = <<>> /\ recent' = <<>>)
  BY DEF EraseLine, EraseDisplay
<1>5. PageType'
  <2>1. /\ <<>> \in Seq(Seq(Cell)) /\ <<>> \in Seq(Seq(Unit)) /\ <<>> \in Seq(Cell)
        /\ <<>> \in Seq(Unit) /\ Len(<<>>) = 0
    OBVIOUS
  <2>2. lines' \in Seq(Seq(Cell)) /\ Len(lines') <= MaxLines + Slack
    <3>1. lines \in Seq(Seq(Cell)) /\ Len(lines) <= MaxLines + Slack /\ 0 <= MaxLines + Slack
      BY Numbers DEF IInv, PageType
    <3>2. CASE lines' = lines
      BY <3>1, <3>2
    <3>3. CASE lines' = <<>>
      BY <2>1, <3>1, <3>3
    <3> QED
      BY <1>4, <3>2, <3>3
  <2>3. recent' \in Seq(Seq(Unit)) /\ Len(recent') <= MaxLines
    <3>1. recent \in Seq(Seq(Unit)) /\ Len(recent) <= MaxLines /\ 0 <= MaxLines
      BY Numbers DEF IInv, PageType
    <3>2. CASE recent' = recent
      BY <3>1, <3>2
    <3>3. CASE recent' = <<>>
      BY <2>1, <3>1, <3>3
    <3> QED
      BY <1>4, <3>2, <3>3
  <2> QED
    BY <1>2, <2>1, <2>2, <2>3, Numbers DEF PageType
<1>6. KeepsRecentLines'
  <2>1. CASE UNCHANGED <<lines, recent>>
    BY <2>1, SameLines DEF IInv
  <2>2. CASE lines' = <<>> /\ recent' = <<>>
    BY <2>2 DEF KeepsRecentLines
  <2> QED
    BY <1>4, <2>1, <2>2
<1> QED
  BY <1>1, <1>3, <1>5, <1>6 DEF IInv

\* A line after SGR: the cells that shared the parser's style keep the old one.
Relabelled(line, to) ==
  [i \in 1..Len(line) |-> IF to.new /\ line[i].style = Live
                          THEN [line[i] EXCEPT !.style = to.old] ELSE line[i]]

LEMMA RelabelledFacts ==
  ASSUME NEW line \in Seq(Cell), NEW to, to.old \in Style
  PROVE  /\ Relabelled(line, to) \in Seq(Cell) /\ Len(Relabelled(line, to)) = Len(line)
         /\ TextOf(Relabelled(line, to)) = TextOf(line)
         /\ NoLive(line) => Relabelled(line, to) = line
<1> DEFINE n == Len(line)
           new == Relabelled(line, to)
<1>1. n \in Nat /\ \A i \in 1..n : line[i] \in Cell
  OBVIOUS
<1>2. new = [i \in 1..n |-> IF to.new /\ line[i].style = Live
                            THEN [line[i] EXCEPT !.style = to.old] ELSE line[i]]
  BY DEF Relabelled
<1> HIDE DEF n, new
<1>3. ASSUME NEW i \in 1..n
      PROVE  /\ new[i] \in Cell /\ new[i].unit = line[i].unit
             /\ line[i].style \in Style => new[i] = line[i]
  <2>1. CASE to.new /\ line[i].style = Live
    <3>1. new[i] = [line[i] EXCEPT !.style = to.old]
      BY <1>2, <2>1
    <3>2. to.old \in CellStyle
      BY DEF CellStyle
    <3> QED
      BY <1>1, <2>1, <3>1, <3>2, LiveIsNoStyle DEF Cell
  <2>2. CASE ~(to.new /\ line[i].style = Live)
    <3>1. new[i] = line[i]
      BY <1>2, <2>2
    <3> QED
      BY <1>1, <3>1
  <2> QED
    BY <2>1, <2>2
<1>4. new \in Seq(Cell) /\ Len(new) = n
  <2>1. new \in [1..n -> Cell]
    <3>1. new = [i \in 1..n |-> new[i]]
      BY <1>2
    <3> QED
      BY <1>3, <3>1
  <2> QED
    BY <1>1, <2>1, IsSeq
<1>5. TextOf(new) = TextOf(line)
  BY <1>3, <1>4 DEF TextOf, n
<1>6. NoLive(line) => new = line
  <2>1. ASSUME NoLive(line)
        PROVE  new = line
    <3>1. \A i \in 1..n : new[i] = line[i]
      BY <1>3, <2>1 DEF NoLive, n
    <3> QED
      BY <1>4, <3>1, SeqEqual DEF n
  <2> QED
    BY <2>1
<1> QED
  BY <1>4, <1>5, <1>6 DEF n, new

LEMMA GraphicsDef ==
  ASSUME SetGraphics
  PROVE  /\ Final /\ style' = Sgr(csiParams).now
         /\ currentLine' = Relabelled(Flushed, Sgr(csiParams)) /\ currentText' = <<>>
         /\ lines' = [i \in 1..Len(lines) |-> Relabelled(lines[i], Sgr(csiParams))]
         /\ UNCHANGED <<cursorCol, recent>>
BY DEF SetGraphics, Relabelled

LEMMA GraphicsFacts ==
  ASSUME IInv, SetGraphics
  PROVE  /\ style' \in Style /\ Sgr(csiParams).old \in Style
         /\ lines' \in Seq(Seq(Cell)) /\ Len(lines') = Len(lines)
         /\ \A i \in 1..Len(lines) : /\ lines'[i] = Relabelled(lines[i], Sgr(csiParams))
                                     /\ TextOf(lines'[i]) = TextOf(lines[i])
<1>1. csiParams \in Seq(Nat) /\ style \in Style
  BY GraphicsDef, FinalNumbers DEF IInv, StyleType
<1>2. Sgr(csiParams).now \in Style /\ Sgr(csiParams).old \in Style
  BY <1>1, SgrFacts
<1> DEFINE n == Len(lines)
           to == Sgr(csiParams)
<1>3. n \in Nat /\ \A i \in 1..n : lines[i] \in Seq(Cell)
  BY DEF IInv, PageType
<1>4. lines' = [i \in 1..n |-> Relabelled(lines[i], to)] /\ style' = to.now
  BY GraphicsDef
<1> HIDE DEF n, to
<1>5. \A i \in 1..n : /\ Relabelled(lines[i], to) \in Seq(Cell)
                      /\ TextOf(Relabelled(lines[i], to)) = TextOf(lines[i])
  BY <1>2, <1>3, RelabelledFacts DEF to
<1>6. lines' \in [1..n -> Seq(Cell)]
  BY <1>4, <1>5
<1>7. lines' \in Seq(Seq(Cell)) /\ Len(lines') = n
  BY <1>3, <1>6, IsSeq
<1> QED
  BY <1>2, <1>4, <1>5, <1>7 DEF n, to

LEMMA GraphicsStep == ASSUME IInv, SetGraphics PROVE IInv'
<1>1. StyleType'
  BY GraphicsDef, GraphicsFacts, AfterFinal DEF IInv
<1>2. Flushed \in Seq(Cell) /\ (Wide = {} => Len(Flushed) <= MaxCol)
  BY FlushedFacts, FlushedLength DEF IInv
<1>3. currentLine' \in Seq(Cell) /\ Len(currentLine') = Len(Flushed)
  BY <1>2, GraphicsDef, GraphicsFacts, RelabelledFacts
<1>4. currentText' = <<>> /\ cursorCol' = cursorCol /\ recent' = recent
  BY GraphicsDef
<1>5. PageType'
  BY <1>3, <1>4, GraphicsFacts DEF IInv, PageType
<1>6. KeepsRecentLines'
  <2> DEFINE n == Len(lines)
             r == Len(recent)
  <2>1. /\ n \in Nat /\ r \in Nat /\ r <= n
        /\ \A i \in 1..r : TextOf(lines[n - r + i]) = recent[i]
    BY DEF IInv, PageType, KeepsRecentLines
  <2>2. Len(lines') = n /\ \A i \in 1..n : TextOf(lines'[i]) = TextOf(lines[i])
    BY GraphicsFacts
  <2>3. (KeepsRecentLines)' <=>
          /\ Len(lines') >= Len(recent')
          /\ \A i \in 1..Len(recent') : TextOf(lines'[Len(lines') - Len(recent') + i]) = recent'[i]
    BY DEF KeepsRecentLines, TextOf
  <2>4. Len(recent') = r /\ recent' = recent
    BY <1>4
  <2> HIDE DEF n, r
  <2>5. ASSUME NEW i \in 1..r
        PROVE  TextOf(lines'[n - r + i]) = recent[i]
    <3>1. n - r + i \in 1..n
      BY <2>1
    <3> QED
      BY <2>1, <2>2, <3>1
  <2> QED
    BY <2>1, <2>2, <2>3, <2>4, <2>5
<1>7. Narrow'
  BY <1>2, <1>3, <1>4, Numbers DEF IInv, PageType, Narrow
<1> QED
  BY <1>1, <1>5, <1>6, <1>7 DEF IInv

LEMMA TruncatedFacts ==
  ASSUME NEW line \in Seq(Cell), NEW col \in Nat
  PROVE  LET n == IF col < Len(line) THEN col ELSE Len(line)
         IN /\ truncateLineAt(line, col) \in Seq(Cell) /\ Len(truncateLineAt(line, col)) = n
            /\ \A i \in 1..n : truncateLineAt(line, col)[i] = line[i]
<1> DEFINE n == IF col < Len(line) THEN col ELSE Len(line)
<1>1. n \in Int /\ n >= 0 /\ n <= Len(line)
  OBVIOUS
<1>2. truncateLineAt(line, col) = SliceTo(line, n)
  BY DEF truncateLineAt
<1> HIDE DEF n
<1>3. /\ SliceTo(line, n) \in Seq(Cell) /\ Len(SliceTo(line, n)) = n
      /\ \A i \in 1..n : SliceTo(line, n)[i] = line[i]
  BY <1>1, SliceToFacts
<1> QED
  BY <1>2, <1>3 DEF n

LEMMA SequenceStep == ASSUME IInv, Sequence PROVE IInv'
<1>1. /\ Flushed \in Seq(Cell) /\ TextOf(Flushed) \in Seq(Unit) /\ cursorCol \in Nat
      /\ Live \in CellStyle /\ DefaultStyle \in CellStyle /\ Len(Flushed) \in Nat
  BY FlushedFacts, TextFacts, LiveIsNoStyle, Numbers DEF IInv, PageType, CellStyle
<1>2. ASSUME Final
      PROVE  Number(1, 1) \in Nat /\ Number(1, 1) > 0 /\ Number(2, 1) \in Nat /\ Number(2, 1) > 0
  BY <1>2, FinalNumbers DEF IInv
<1>3. ASSUME NEW us \in Seq(Unit), NEW c \in Nat, NEW s \in CellStyle
      PROVE  overwriteLineAt(Flushed, c, us, s) \in Seq(Cell)
  BY <1>1, OverwriteType
<1>4. CASE ColumnAbsolute \/ ColumnOf
  <2>1. Final
    BY <1>4 DEF ColumnAbsolute, ColumnOf, Moves
  <2>2. Number(1, 1) - 1 \in Nat /\ Number(2, 1) - 1 \in Nat
    BY <1>2, <2>1
  <2> QED
    BY <1>4, <2>2, MovesStep DEF ColumnAbsolute, ColumnOf
<1>5. CASE Forward
  <2>1. cursorCol + Number(1, 1) \in Nat
    BY <1>1, <1>2, <1>5 DEF Forward, Moves
  <2> QED
    BY <1>5, <2>1, MovesStep DEF Forward
<1>6. CASE Backward
  <2> DEFINE n == Number(1, 1)
             c == IF n < cursorCol THEN cursorCol - n ELSE 0
  <2>1. Moves(c)
    BY <1>6 DEF Backward
  <2>2. n \in Nat
    BY <1>2, <2>1 DEF Moves
  <2> HIDE DEF n
  <2>3. c \in Nat
    BY <1>1, <2>2
  <2> HIDE DEF c
  <2> QED
    BY <2>1, <2>3, MovesStep
<1>7. CASE EraseToEnd
  <2>1. truncateLineAt(Flushed, cursorCol) \in Seq(Cell)
    BY <1>1, TruncatedFacts
  <2> QED
    BY <1>7, <2>1, EditsStep DEF EraseToEnd
<1>8. CASE EraseToStart
  <2> DEFINE n == IF cursorCol < Len(Flushed) THEN cursorCol ELSE Len(Flushed)
             line == overwriteLineAt(Flushed, 0, Spaces(n), DefaultStyle)
  <2>1. Edits(line)
    BY <1>8 DEF EraseToStart
  <2>2. n \in Int
    BY <1>1
  <2>3. Spaces(n) \in Seq(Unit)
    <3> HIDE DEF n
    <3> QED
      BY <2>2, SpacesFacts
  <2>4. line \in Seq(Cell)
    BY <1>1, <1>3, <2>3
  <2> HIDE DEF line
  <2> QED
    BY <2>1, <2>4, EditsStep
<1>9. CASE EraseLine \/ EraseDisplay
  BY <1>9, EraseSteps
<1>10. CASE EraseNothing
  BY <1>1, <1>10, EditsStep DEF EraseNothing
<1>11. CASE EraseChars
  <2> DEFINE line == overwriteLineAt(Flushed, cursorCol, Spaces(Number(1, 1)), DefaultStyle)
  <2>1. Edits(line)
    BY <1>11 DEF EraseChars
  <2>2. Number(1, 1) \in Int
    BY <1>2, <2>1 DEF Edits
  <2>3. Spaces(Number(1, 1)) \in Seq(Unit)
    BY <2>2, SpacesFacts
  <2>4. line \in Seq(Cell)
    BY <1>1, <1>3, <2>3
  <2> HIDE DEF line
  <2> QED
    BY <2>1, <2>4, EditsStep
<1>12. CASE DeleteChars
  <2> DEFINE rest == SliceFrom(TextOf(Flushed), cursorCol + Number(1, 1))
             cutline == truncateLineAt(Flushed, cursorCol)
             line == IF cursorCol < Len(Flushed)
                     THEN overwriteLineAt(cutline, cursorCol, rest, Live)
                     ELSE Flushed
  <2>1. Edits(line)
    BY <1>12 DEF DeleteChars
  <2>2. cursorCol + Number(1, 1) \in Nat
    BY <1>1, <1>2, <2>1 DEF Edits
  <2>3. rest \in Seq(Unit)
    BY <1>1, <2>2, SliceFromFacts
  <2>4. cutline \in Seq(Cell)
    BY <1>1, TruncatedFacts
  <2> HIDE DEF rest, cutline
  <2>5. line \in Seq(Cell)
    BY <1>1, <2>3, <2>4, OverwriteType
  <2> HIDE DEF line
  <2> QED
    BY <2>1, <2>5, EditsStep
<1>13. CASE InsertChars
  <2> DEFINE rest == SliceFrom(TextOf(Flushed), cursorCol)
             new == Spaces(Number(1, 1)) \o rest
             line == IF cursorCol <= Len(Flushed)
                     THEN overwriteLineAt(Flushed, cursorCol, new, Live) ELSE Flushed
  <2>1. Edits(line)
    BY <1>13 DEF InsertChars
  <2>2. Number(1, 1) \in Int
    BY <1>2, <2>1 DEF Edits
  <2>3. Spaces(Number(1, 1)) \in Seq(Unit) /\ rest \in Seq(Unit)
    BY <1>1, <2>2, SpacesFacts, SliceFromFacts
  <2>4. new \in Seq(Unit)
    BY <2>3, ConcatFacts
  <2> HIDE DEF new
  <2>5. line \in Seq(Cell)
    BY <1>1, <1>3, <2>4
  <2> HIDE DEF line
  <2> QED
    BY <2>1, <2>5, EditsStep
<1>14. CASE SetGraphics
  BY <1>14, GraphicsStep
<1> QED
  BY <1>4, <1>5, <1>6, <1>7, <1>8, <1>9, <1>10, <1>11, <1>12, <1>13, <1>14 DEF Sequence

LEMMA Steps == IInv /\ [Next]_vars => IInv'
<1> SUFFICES ASSUME IInv, [Next]_vars
             PROVE  IInv'
  OBVIOUS
<1>1. CASE \E c \in Chars : Put(c)
  BY <1>1, PutStep
<1>2. CASE Control
  BY <1>2, NewlineStep, MoveSteps, TabStep DEF Control
<1>3. CASE Sequence
  BY <1>3, SequenceStep
<1>4. CASE Parse
  BY <1>4, Parses
<1>5. CASE UNCHANGED vars
  <2>1. UNCHANGED <<style, text, lines, parse, recent>>
    BY <1>5 DEF vars
  <2> QED
    BY <2>1, SameParse, SamePage DEF IInv
<1> QED
  BY <1>1, <1>2, <1>3, <1>4, <1>5 DEF Next

LEMMA Always == Spec => []IInv
BY Start, Steps, PTL DEF Spec

\* Whatever bytes arrive, in whatever chunks: styles are styles, columns are
\* counted from 0, text waits only right of column 0, and the page never
\* grows past its limit and slack (feed, handleCSI, handleSGR, pushLine).
THEOREM ParserTypes == Spec => []TypeOK
<1>1. IInv => TypeOK
  <2> SUFFICES ASSUME IInv
               PROVE  TypeOK
    OBVIOUS
  <2>1. ASSUME NEW line \in Seq(Cell)
        PROVE  IsLine(line)
    <3>1. \A i \in 1..Len(line) : line[i] \in Cell
      OBVIOUS
    <3> QED
      BY <3>1 DEF IsLine, Cell, CellStyle
  <2>2. \A i \in 1..Len(lines) : IsLine(lines[i])
    <3>1. \A i \in 1..Len(lines) : lines[i] \in Seq(Cell)
      BY DEF IInv, PageType
    <3> QED
      BY <2>1, <3>1
  <2> QED
    BY <2>1, <2>2, Numbers DEF IInv, StyleType, PageType, TypeOK
<1> QED
  BY <1>1, Always, PTL

\* The last MaxLines finished lines are on the page, in order, whatever was
\* trimmed and however often (pushLine).
THEOREM RecentLinesStay == Spec => []KeepsRecentLines
<1>1. IInv => KeepsRecentLines
  BY DEF IInv
<1> QED
  BY <1>1, Always, PTL

-----------------------------------------------------------------------------
(* Colours.                                                                *)

\* What is shown when the parser's style is st.
ShownAs(line, st) ==
  [i \in 1..Len(line) |-> [line[i] EXCEPT !.style = IF @ = Live THEN st ELSE @]]

LEMMA PlainShown ==
  ASSUME NEW line \in Seq(Cell), NEW st, NoLive(line)
  PROVE  ShownAs(line, st) = line
<1> DEFINE n == Len(line)
<1>1. n \in Nat /\ \A i \in 1..n : line[i] \in Cell /\ line[i].style # Live
  BY LiveIsNoStyle DEF NoLive
<1>2. ShownAs(line, st) = [i \in 1..n |-> [line[i] EXCEPT !.style = IF @ = Live THEN st ELSE @]]
  BY DEF ShownAs
<1> HIDE DEF n
<1>3. \A i \in 1..n : [line[i] EXCEPT !.style = IF @ = Live THEN st ELSE @] = line[i]
  BY <1>1 DEF Cell
<1>4. \A i \in 1..n : ShownAs(line, st)[i] = line[i]
  BY <1>2, <1>3
<1>5. ShownAs(line, st) \in [1..n -> Cell]
  <2>1. ShownAs(line, st) = [i \in 1..n |-> ShownAs(line, st)[i]]
    BY <1>2
  <2> QED
    BY <1>1, <1>4, <2>1
<1>6. ShownAs(line, st) \in Seq(Cell) /\ Len(ShownAs(line, st)) = n
  BY <1>1, <1>5, IsSeq
<1> QED
  BY <1>4, <1>6, SeqEqual DEF n

\* A change of style repaints nothing that is shown already, unless deleting
\* or inserting characters made a cell share the parser's object (handleSGR,
\* and the flushText that every SGR sequence begins with).
THEOREM ColoursRepaintNothing == Spec => NoRepaint
<1>1. IInv /\ [Next]_vars => [SetGraphics /\ ~Shares => ShownAll' = ShownAll]_vars
  <2> SUFFICES ASSUME IInv, SetGraphics, ~Shares
               PROVE  ShownAll' = ShownAll
    OBVIOUS
  <2> DEFINE to == Sgr(csiParams)
  <2>1. /\ currentLine \in Seq(Cell) /\ \A i \in 1..Len(lines) : lines[i] \in Seq(Cell)
        /\ lines \in Seq(Seq(Cell)) /\ Len(lines) \in Nat
    BY DEF IInv, PageType
  <2>2. ASSUME NEW line \in Seq(Cell), \A i \in 1..Len(line) : line[i].style # Live
        PROVE  NoLive(line)
    <3>1. \A i \in 1..Len(line) : line[i] \in Cell
      OBVIOUS
    <3> QED
      BY <2>2, <3>1 DEF NoLive, Cell, CellStyle
  <2>3. NoLive(currentLine) /\ \A i \in 1..Len(lines) : NoLive(lines[i])
    <3>1. \A i \in 1..Len(currentLine) : currentLine[i].style # Live
      BY DEF Shares
    <3>2. \A k \in 1..Len(lines) : \A i \in 1..Len(lines[k]) : lines[k][i].style # Live
      BY DEF Shares
    <3> QED
      BY <2>1, <2>2, <3>1, <3>2
  <2>4. /\ Flushed \in Seq(Cell) /\ getCurrentLine \in Seq(Cell)
        /\ Shown(Flushed) = Shown(getCurrentLine) /\ NoLive(Flushed)
    BY <2>3, FlushedFacts DEF IInv
  <2>5. currentLine' = Flushed /\ currentText' = <<>>
    BY <2>4, GraphicsDef, GraphicsFacts, RelabelledFacts
  <2>6. lines' = lines
    <3>1. \A i \in 1..Len(lines) : lines'[i] = lines[i]
      BY <2>1, <2>3, GraphicsFacts, RelabelledFacts
    <3>2. lines' \in Seq(Seq(Cell)) /\ Len(lines') = Len(lines)
      BY GraphicsFacts
    <3> QED
      BY <2>1, <3>1, <3>2, SeqEqual
  <2>7. getCurrentLine' = Flushed
    BY <2>5 DEF getCurrentLine, overwriteLineAt
  <2>8. ShownAll = <<ShownAs(getCurrentLine, style), [i \in 1..Len(lines) |-> ShownAs(lines[i], style)]>>
    BY DEF ShownAll, Shown, ShownAs, Valued
  <2>9. ShownAll' = <<ShownAs(getCurrentLine', style'),
                      [i \in 1..Len(lines') |-> ShownAs(lines'[i], style')]>>
    BY DEF ShownAll, Shown, ShownAs, Valued
  <2>10. ShownAs(getCurrentLine, style) = Flushed
    <3>1. Shown(Flushed) = ShownAs(Flushed, style) /\ Shown(getCurrentLine) = ShownAs(getCurrentLine, style)
      BY DEF Shown, ShownAs, Valued
    <3> QED
      BY <2>4, <3>1, PlainShown
  <2>11. ShownAs(getCurrentLine', style') = Flushed
    BY <2>4, <2>7, PlainShown
  <2>12. \A i \in 1..Len(lines) : ShownAs(lines[i], style) = lines[i] /\ ShownAs(lines[i], style') = lines[i]
    BY <2>1, <2>3, PlainShown
  <2> QED
    BY <2>6, <2>8, <2>9, <2>10, <2>11, <2>12
<1> QED
  BY <1>1, Always, PTL DEF Spec, NoRepaint

-----------------------------------------------------------------------------
(* The parser implements TerminalText while no character is wide.  (A wide *)
(* one moves the cursor by one and has two units: PairsWhole, which TLC    *)
(* refutes.)                                                               *)

Txt == TextOf(getCurrentLine)
Above == [i \in 1..Len(lines) |-> TextOf(lines[i])]

LEMMA OverIsUnits ==
  ASSUME NEW line \in Seq(Cell), NEW c \in Nat, NEW us \in Seq(Unit)
  PROVE  T!Over(TextOf(line), c, us) = OverUnits(line, c, us)
<1>1. \A s : T!Before(s, c) = SliceTo(s, c)
  BY DEF T!Before, SliceTo
<1>2. \A s, n : T!From(s, n) = SliceFrom(s, n)
  BY DEF T!From, SliceFrom
<1>3. \A n : T!Blanks(n) = Spaces(n)
  BY DEF T!Blanks, Spaces
<1> QED
  BY <1>1, <1>2, <1>3 DEF T!Over, OverUnits

LEMMA OverFacts ==
  ASSUME NEW t \in Seq(Unit), NEW c \in Nat, NEW us \in Seq(Unit)
  PROVE  LET over == T!Over(t, c, us)
             end == c + Len(us)
         IN /\ over \in Seq(Unit)
            /\ Len(over) = IF end > Len(t) THEN end ELSE Len(t)
            /\ \A i \in 1..Len(over) :
                 over[i] = IF i > c /\ i <= end THEN us[i - c]
                           ELSE IF i <= Len(t) THEN t[i] ELSE Blank
<1> DEFINE line == Styled(t, Live)
           end == c + Len(us)
           over == OverUnits(line, c, us)
<1>1. /\ line \in Seq(Cell) /\ Len(line) = Len(t) /\ Len(t) \in Nat
      /\ \A i \in 1..Len(t) : line[i].unit = t[i]
  <2>1. Live \in CellStyle
    BY DEF CellStyle
  <2>2. /\ line \in Seq(Cell) /\ Len(line) = Len(t)
        /\ \A i \in 1..Len(t) : line[i] = [unit |-> t[i], style |-> Live]
    BY <2>1, StyledFacts
  <2>3. Len(t) \in Nat
    OBVIOUS
  <2> HIDE DEF line
  <2>4. ASSUME NEW i \in 1..Len(t)
        PROVE  line[i].unit = t[i]
    <3>1. line[i] = [unit |-> t[i], style |-> Live]
      BY <2>2
    <3> QED
      BY <3>1
  <2> QED
    BY <2>2, <2>3, <2>4
<1> HIDE DEF line
<1>2. TextOf(line) = t
  <2>1. /\ TextOf(line) \in Seq(Unit) /\ Len(TextOf(line)) = Len(line)
        /\ \A i \in 1..Len(line) : TextOf(line)[i] = line[i].unit
    BY <1>1, TextFacts
  <2> QED
    BY <1>1, <2>1, SeqEqual
<1>3. T!Over(t, c, us) = over
  BY <1>1, <1>2, OverIsUnits
<1>4. /\ over \in Seq(Unit)
      /\ Len(over) = IF end > Len(line) THEN end ELSE Len(line)
      /\ \A i \in 1..Len(over) :
           over[i] = IF i > c /\ i <= end THEN us[i - c]
                     ELSE IF i <= Len(line) THEN line[i].unit ELSE Blank
  <2>1. c \in Int /\ c >= 0 /\ c + Len(us) >= 0
    OBVIOUS
  <2> QED
    BY <1>1, <2>1, OverUnitsFacts
<1> HIDE DEF over
<1>5. \A i \in 1..Len(over) :
        over[i] = IF i > c /\ i <= end THEN us[i - c]
                  ELSE IF i <= Len(t) THEN t[i] ELSE Blank
  BY <1>1, <1>4
<1> QED
  BY <1>1, <1>3, <1>4, <1>5

LEMMA OverwriteText ==
  ASSUME NEW line \in Seq(Cell), NEW c \in Nat, NEW us \in Seq(Unit), NEW s \in CellStyle,
         us # <<>>
  PROVE  TextOf(overwriteLineAt(line, c, us, s)) = T!Over(TextOf(line), c, us)
<1> DEFINE new == overwriteLineAt(line, c, us, s)
           raw == Raw(line, c, us, s)
           all == OverUnits(line, c, us)
<1>1. c \in Int /\ c >= 0 /\ c + Len(us) >= 0
  OBVIOUS
<1>2. /\ raw \in Seq(Cell) /\ Len(raw) = Len(all) /\ all \in Seq(Unit)
      /\ \A i \in 1..Len(all) : raw[i].unit = all[i]
  BY <1>1, RawFacts, OverUnitsFacts
<1>3. new = Merged(raw) /\ T!Over(TextOf(line), c, us) = all
  BY OverwriteDef, OverIsUnits
<1> HIDE DEF new, raw, all
<1>4. /\ new \in Seq(Cell) /\ Len(new) = Len(raw)
      /\ \A i \in 1..Len(raw) : new[i].unit = raw[i].unit
  BY <1>2, <1>3, MergedFacts
<1>5. /\ TextOf(new) \in Seq(Unit) /\ Len(TextOf(new)) = Len(new)
      /\ \A i \in 1..Len(new) : TextOf(new)[i] = new[i].unit
  BY <1>4, TextFacts
<1>6. TextOf(new) = all
  BY <1>2, <1>4, <1>5, SeqEqual
<1> QED
  BY <1>3, <1>6 DEF new

\* The text on the page, character by character.
Fits == StyleType /\ PageType /\ Len(currentText) <= cursorCol
TextIs ==
  LET col == cursorCol - Len(currentText)
  IN /\ Txt \in Seq(Unit)
     /\ Len(Txt) = IF currentText # <<>> /\ cursorCol > Len(currentLine)
                   THEN cursorCol ELSE Len(currentLine)
     /\ \A i \in 1..Len(Txt) :
          Txt[i] = IF i > col /\ i <= cursorCol THEN currentText[i - col]
                   ELSE IF i <= Len(currentLine) THEN currentLine[i].unit ELSE Blank

LEMMA TextFits == Fits => TextIs
<1> SUFFICES ASSUME StyleType, PageType, Len(currentText) <= cursorCol
             PROVE  TextIs
  BY DEF Fits
<1> DEFINE now == getCurrentLine
           col == cursorCol - Len(currentText)
<1>1. /\ now \in Seq(Cell)
      /\ Len(now) = IF currentText # <<>> /\ cursorCol > Len(currentLine)
                    THEN cursorCol ELSE Len(currentLine)
      /\ \A i \in 1..Len(now) :
           now[i].unit = IF i > col /\ i <= cursorCol THEN currentText[i - col]
                         ELSE IF i <= Len(currentLine) THEN currentLine[i].unit ELSE Blank
  BY CurrentLineFacts
<1>2. Txt = TextOf(now)
  BY DEF Txt
<1> HIDE DEF now, col
<1>3. /\ TextOf(now) \in Seq(Unit) /\ Len(TextOf(now)) = Len(now)
      /\ \A i \in 1..Len(now) : TextOf(now)[i] = now[i].unit
  BY <1>1, TextFacts
<1> QED
  BY <1>1, <1>2, <1>3 DEF TextIs, col

LEMMA NextText == (Fits => TextIs)'
BY TextFits, PTL

LEMMA FitsNow ==
  ASSUME IInv, Wide = {}
  PROVE  /\ Fits /\ TextIs
         /\ TextOf(Flushed) = Txt /\ Len(Txt) = Len(Flushed) /\ Len(Txt) <= MaxCol
         /\ Flushed \in Seq(Cell) /\ Txt \in Seq(Unit)
         /\ \A i \in 1..Len(Txt) : Flushed[i].unit = Txt[i]
<1>1. Fits /\ TextIs
  BY TextFits DEF IInv, Narrow, Fits
<1>2. Flushed \in Seq(Cell) /\ getCurrentLine \in Seq(Cell)
  BY FlushedFacts DEF IInv
<1>3. TextOf(Flushed) = Txt /\ Len(Flushed) = Len(getCurrentLine)
  BY <1>2, FlushedFacts, ShownTexts DEF IInv, Txt
<1>4. /\ Txt \in Seq(Unit) /\ Len(Txt) = Len(Flushed)
      /\ \A i \in 1..Len(Flushed) : Txt[i] = Flushed[i].unit
  BY <1>2, <1>3, TextFacts
<1>5. Len(Txt) <= MaxCol
  BY <1>4, FlushedLength DEF IInv
<1> QED
  BY <1>1, <1>2, <1>3, <1>4, <1>5

LEMMA FlushedNow ==
  ASSUME IInv, Wide = {}
  PROVE  /\ Flushed \in Seq(Cell) /\ Len(Flushed) \in Nat /\ cursorCol \in Nat
         /\ Txt \in Seq(Unit) /\ TextOf(Flushed) = Txt
         /\ Len(Txt) = Len(Flushed) /\ Len(Txt) <= MaxCol
         /\ \A i \in 1..Len(Txt) : Flushed[i].unit = Txt[i]
         /\ DefaultStyle \in CellStyle /\ Live \in CellStyle
<1>1. cursorCol \in Nat
  BY Numbers DEF IInv, PageType
<1>2. DefaultStyle \in CellStyle /\ Live \in CellStyle
  BY LiveIsNoStyle DEF CellStyle
<1> QED
  BY <1>1, <1>2, FitsNow

LEMMA FitsNext ==
  ASSUME IInv, Wide = {}, Next
  PROVE  TextIs' /\ Fits'
<1>1. IInv'
  BY Steps
<1>2. Fits'
  BY <1>1 DEF IInv, Narrow, Fits
<1> QED
  BY <1>2, NextText

\* Once the text is flushed, the line is what the page shows.
LEMMA AfterFlush == ASSUME currentText' = <<>> PROVE Txt' = TextOf(currentLine')
BY DEF Txt, getCurrentLine, overwriteLineAt, TextOf

LEMMA AboveSame == ASSUME UNCHANGED lines PROVE Above' = Above
BY DEF Above, TextOf

LEMMA PutWrites == ASSUME IInv, Wide = {}, NEW c \in Chars, Put(c) PROVE T!Next
<1> DEFINE us == currentText
           n == Len(currentLine)
           col == cursorCol - Len(us)
           over == T!Over(Txt, cursorCol, <<c>>)
<1>1. /\ us \in Seq(Unit) /\ Len(us) \in Nat /\ cursorCol \in Nat /\ n \in Nat
      /\ col \in Nat /\ <<c>> \in Seq(Unit) /\ Len(<<c>>) = 1 /\ <<c>>[1] = c
  <2>1. Fits
    BY FitsNow
  <2> QED
    BY <2>1, Numbers DEF Fits, PageType, Unit
<1>2. TextIs /\ TextIs'
  BY FitsNow, FitsNext DEF Next
<1>3. /\ currentText' = us \o <<c>> /\ cursorCol' = cursorCol + 1
      /\ currentLine' = currentLine /\ UNCHANGED lines
  BY UnitsFacts DEF Put
<1>4. /\ Len(currentText') = Len(us) + 1
      /\ \A i \in 1..Len(us) : currentText'[i] = us[i]
      /\ currentText'[Len(us) + 1] = c
  <2>1. /\ Len(us \o <<c>>) = Len(us) + Len(<<c>>)
        /\ \A i \in 1..Len(us) : (us \o <<c>>)[i] = us[i]
        /\ \A i \in (Len(us) + 1)..(Len(us) + Len(<<c>>)) : (us \o <<c>>)[i] = <<c>>[i - Len(us)]
    BY <1>1, ConcatFacts
  <2>2. Len(us) + 1 \in (Len(us) + 1)..(Len(us) + Len(<<c>>)) /\ (Len(us) + 1) - Len(us) = 1
    BY <1>1
  <2> QED
    BY <1>1, <1>3, <2>1, <2>2
<1>5. /\ Txt \in Seq(Unit)
      /\ Len(Txt) = IF us # <<>> /\ cursorCol > n THEN cursorCol ELSE n
      /\ \A i \in 1..Len(Txt) :
           Txt[i] = IF i > col /\ i <= cursorCol THEN us[i - col]
                    ELSE IF i <= n THEN currentLine[i].unit ELSE Blank
  BY <1>2 DEF TextIs
<1>6. /\ Txt' \in Seq(Unit)
      /\ Len(Txt') = IF cursorCol + 1 > n THEN cursorCol + 1 ELSE n
      /\ \A i \in 1..Len(Txt') :
           Txt'[i] = IF i > col /\ i <= cursorCol + 1 THEN currentText'[i - col]
                     ELSE IF i <= n THEN currentLine[i].unit ELSE Blank
  <2>1. cursorCol' - Len(currentText') = col /\ currentText' # <<>>
    BY <1>1, <1>3, <1>4
  <2> QED
    BY <1>2, <1>3, <2>1 DEF TextIs
<1>7. /\ over \in Seq(Unit)
      /\ Len(over) = IF cursorCol + 1 > Len(Txt) THEN cursorCol + 1 ELSE Len(Txt)
      /\ \A i \in 1..Len(over) :
           over[i] = IF i > cursorCol /\ i <= cursorCol + 1 THEN <<c>>[i - cursorCol]
                     ELSE IF i <= Len(Txt) THEN Txt[i] ELSE Blank
  <2> DEFINE new == <<c>>
             end == cursorCol + Len(new)
  <2>1. new \in Seq(Unit) /\ end = cursorCol + 1
    BY <1>1
  <2> HIDE DEF new
  <2>2. /\ T!Over(Txt, cursorCol, new) \in Seq(Unit)
        /\ Len(T!Over(Txt, cursorCol, new)) = IF end > Len(Txt) THEN end ELSE Len(Txt)
        /\ \A i \in 1..Len(T!Over(Txt, cursorCol, new)) :
             T!Over(Txt, cursorCol, new)[i] =
               IF i > cursorCol /\ i <= end THEN new[i - cursorCol]
               ELSE IF i <= Len(Txt) THEN Txt[i] ELSE Blank
    BY <1>1, <1>5, <2>1, OverFacts
  <2> HIDE DEF end
  <2> QED
    BY <2>1, <2>2 DEF new
<1>8. (us = <<>> => Len(us) = 0) /\ (us # <<>> => Len(us) > 0)
  BY <1>1
<1> HIDE DEF us, n, col, over
<1>9. Txt' = over
  <2>1. Len(Txt') = Len(over)
    BY <1>1, <1>5, <1>6, <1>7
  <2>2. ASSUME NEW i \in 1..Len(over)
        PROVE  Txt'[i] = over[i]
    <3>1. CASE i > cursorCol /\ i <= cursorCol + 1
      <4>1. i = cursorCol + 1 /\ i > col /\ i - col = Len(us) + 1 /\ i - cursorCol = 1
        BY <1>1, <3>1 DEF col
      <4> QED
        BY <1>1, <1>4, <1>6, <1>7, <2>1, <3>1, <4>1
    <3>2. CASE i > col /\ i <= cursorCol
      <4>1. i - col \in 1..Len(us) /\ us # <<>> /\ i \in 1..Len(Txt) /\ i <= cursorCol + 1
        BY <1>1, <1>5, <1>8, <3>2 DEF col
      <4>2. ~(i > cursorCol)
        BY <1>1, <3>2
      <4> QED
        BY <1>4, <1>5, <1>6, <1>7, <2>1, <3>2, <4>1, <4>2
    <3>3. CASE i <= col
      <4>1. ~(i > col) /\ ~(i > cursorCol)
        BY <1>1, <3>3 DEF col
      <4>2. i <= Len(Txt) => i \in 1..Len(Txt)
        BY <1>5
      <4>3. i > Len(Txt) => i > n
        BY <1>1, <1>5
      <4> QED
        BY <1>1, <1>5, <1>6, <1>7, <2>1, <4>1, <4>2, <4>3
    <3>4. CASE i > cursorCol + 1
      <4>1. i \in 1..Len(Txt) /\ i <= n /\ ~(i <= cursorCol + 1) /\ ~(i <= cursorCol)
        BY <1>1, <1>5, <1>7, <3>4
      <4> QED
        BY <1>5, <1>6, <1>7, <2>1, <4>1
    <3> QED
      BY <1>1, <1>7, <3>1, <3>2, <3>3, <3>4 DEF col
  <2> QED
    BY <1>6, <1>7, <2>1, <2>2, SeqEqual
<1>10. T!Write(<<c>>)
  BY <1>1, <1>3, <1>9, AboveSame DEF T!Write, Txt, Above, over
<1> QED
  BY <1>10 DEF T!Next, T!Put

LEMMA TabWrites == ASSUME IInv, Wide = {}, Tab PROVE T!Next
<1> DEFINE k == TabStop - (cursorCol % TabStop)
           new == Spaces(k)
           over == T!Over(Txt, cursorCol, new)
           n == Len(Flushed)
<1>1. k \in Nat /\ k > 0 /\ new \in Seq(Unit) /\ Len(new) = k /\ \A i \in 1..k : new[i] = Blank
  <2>1. k \in Nat /\ k > 0 /\ new \in Seq(Unit) /\ Len(new) = k
    BY TabSpaces DEF IInv
  <2> HIDE DEF k
  <2> QED
    BY <2>1, SpacesFacts
<1>2. /\ currentLine' = Flushed /\ currentText' = new /\ cursorCol' = cursorCol + k
      /\ UNCHANGED lines
  BY DEF Tab
<1>3. T!Blanks(k) = new
  BY DEF T!Blanks, Spaces
<1>4. T!Tab <=> T!Write(T!Blanks(k))
  BY DEF T!Tab
<1> HIDE DEF k, new
<1>5. cursorCol \in Nat /\ TextIs'
  BY FitsNow, FitsNext, Numbers DEF IInv, PageType, Next, Control
<1>6. /\ Flushed \in Seq(Cell) /\ Txt \in Seq(Unit) /\ Len(Txt) = n /\ n \in Nat
      /\ \A i \in 1..n : Flushed[i].unit = Txt[i]
  BY FitsNow
<1> HIDE DEF n
<1>7. /\ Txt' \in Seq(Unit)
      /\ Len(Txt') = IF cursorCol + k > n THEN cursorCol + k ELSE n
      /\ \A i \in 1..Len(Txt') :
           Txt'[i] = IF i > cursorCol /\ i <= cursorCol + k THEN new[i - cursorCol]
                     ELSE IF i <= n THEN Flushed[i].unit ELSE Blank
  <2>1. cursorCol' - Len(currentText') = cursorCol /\ currentText' # <<>>
    BY <1>1, <1>2, <1>5
  <2> QED
    BY <1>2, <1>5, <2>1 DEF TextIs, n
<1>8. /\ over \in Seq(Unit)
      /\ Len(over) = IF cursorCol + Len(new) > Len(Txt) THEN cursorCol + Len(new) ELSE Len(Txt)
      /\ \A i \in 1..Len(over) :
           over[i] = IF i > cursorCol /\ i <= cursorCol + Len(new) THEN new[i - cursorCol]
                     ELSE IF i <= Len(Txt) THEN Txt[i] ELSE Blank
  BY <1>1, <1>5, <1>6, OverFacts
<1> HIDE DEF over
<1>9. Len(Txt') = Len(over)
  BY <1>1, <1>6, <1>7, <1>8
<1>10. ASSUME NEW i \in 1..Len(over)
       PROVE  Txt'[i] = over[i]
  <2>1. i <= n => i \in 1..n
    BY <1>6
  <2> QED
    BY <1>1, <1>6, <1>7, <1>8, <1>9, <2>1
<1>11. Txt' = over
  BY <1>7, <1>8, <1>9, <1>10, SeqEqual
<1>12. T!Write(new)
  BY <1>1, <1>2, <1>11, AboveSame DEF T!Write, Txt, Above, over
<1> QED
  BY <1>3, <1>4, <1>12 DEF T!Next

LEMMA NewlineFinishes == ASSUME IInv, Wide = {}, Newline PROVE T!Next
<1> DEFINE n == Len(lines) + 1
           cut == IF n > MaxLines + Slack THEN n - MaxLines ELSE 0
           all == Append(Above, Txt)
<1>1. lines \in Seq(Seq(Cell)) /\ n \in Nat /\ Len(lines) = n - 1
  BY DEF IInv, PageType
<1>2. /\ cut \in Nat /\ cut <= n
      /\ lines' \in Seq(Seq(Cell)) /\ Len(lines') = n - cut
      /\ \A i \in 1..(n - cut) : lines'[i] = IF cut + i = n THEN Flushed ELSE lines[cut + i]
  BY NewlineLines
<1>3. Txt \in Seq(Unit) /\ TextOf(Flushed) = Txt
  BY FitsNow
<1>4. /\ Above \in Seq(Seq(Unit)) /\ Len(Above) = n - 1
      /\ \A i \in 1..(n - 1) : Above[i] = TextOf(lines[i])
  <2>1. Above = [i \in 1..(n - 1) |-> TextOf(lines[i])] /\ n - 1 \in Nat
    BY <1>1 DEF Above
  <2>2. \A i \in 1..(n - 1) : TextOf(lines[i]) \in Seq(Unit)
    BY <1>1, TextFacts
  <2> HIDE DEF n
  <2>3. Above \in [1..(n - 1) -> Seq(Unit)] /\ n - 1 \in Nat
    BY <2>1, <2>2
  <2>4. Above \in Seq(Seq(Unit)) /\ Len(Above) = n - 1
    BY <2>3, IsSeq
  <2> QED
    BY <2>1, <2>4
<1> HIDE DEF n
<1>5. /\ all \in Seq(Seq(Unit)) /\ Len(all) = n
      /\ \A i \in 1..(n - 1) : all[i] = TextOf(lines[i])
      /\ all[n] = Txt
  <2>1. /\ all \in Seq(Seq(Unit)) /\ Len(all) = Len(Above) + 1
        /\ \A i \in 1..Len(Above) : all[i] = Above[i]
        /\ all[Len(Above) + 1] = Txt
    BY <1>3, <1>4, AppendProperties
  <2> HIDE DEF all
  <2>2. Len(Above) + 1 = n
    BY <1>1, <1>4
  <2> QED
    BY <1>4, <2>1, <2>2
<1>6. /\ Above' \in Seq(Seq(Unit)) /\ Len(Above') = n - cut
      /\ \A i \in 1..(n - cut) : Above'[i] = all[cut + i]
  <2>1. Above' = [i \in 1..(n - cut) |-> TextOf(lines'[i])] /\ n - cut \in Nat
    BY <1>1, <1>2 DEF Above, TextOf
  <2> HIDE DEF cut, all
  <2>2. ASSUME NEW i \in 1..(n - cut)
        PROVE  TextOf(lines'[i]) = all[cut + i] /\ TextOf(lines'[i]) \in Seq(Unit)
    <3>1. CASE cut + i = n
      BY <1>2, <1>3, <1>5, <3>1
    <3>2. CASE cut + i # n
      <4>1. cut + i \in 1..(n - 1)
        BY <1>1, <1>2, <3>2
      <4>2. lines[cut + i] \in Seq(Cell)
        BY <1>1, <4>1
      <4> QED
        BY <1>2, <1>5, <3>2, <4>1, <4>2, TextFacts
    <3> QED
      BY <3>1, <3>2
  <2>3. Above' \in [1..(n - cut) -> Seq(Unit)]
    BY <2>1, <2>2
  <2>4. Above' \in Seq(Seq(Unit)) /\ Len(Above') = n - cut
    BY <2>1, <2>3, IsSeq
  <2> QED
    BY <2>1, <2>2, <2>4
<1>7. Above' = IF Len(all) > MaxLines + Slack THEN T!From(all, Len(all) - MaxLines) ELSE all
  <2>1. \A s, m : T!From(s, m) = SliceFrom(s, m)
    BY DEF T!From, SliceFrom
  <2> HIDE DEF all
  <2>2. CASE n > MaxLines + Slack
    <3>1. cut = n - MaxLines
      BY <2>2
    <3> HIDE DEF cut
    <3>2. /\ SliceFrom(all, cut) \in Seq(Seq(Unit))
          /\ Len(SliceFrom(all, cut)) = IF cut < Len(all) THEN Len(all) - cut ELSE 0
          /\ \A i \in 1..(Len(all) - cut) : SliceFrom(all, cut)[i] = all[cut + i]
      <4>1. all \in Seq(Seq(Unit)) /\ cut \in Nat
        BY <1>2, <1>5
      <4> QED
        BY <4>1, SliceFromFacts
    <3>3. Len(SliceFrom(all, cut)) = n - cut
      BY <1>1, <1>2, <1>5, <3>2
    <3>4. Above' = SliceFrom(all, cut)
      BY <1>5, <1>6, <3>2, <3>3, SeqEqual
    <3> QED
      BY <1>5, <2>1, <2>2, <3>1, <3>4
  <2>3. CASE ~(n > MaxLines + Slack)
    <3>1. cut = 0
      BY <2>3
    <3> HIDE DEF cut
    <3>2. Len(Above') = Len(all) /\ \A i \in 1..Len(all) : Above'[i] = all[i]
      BY <1>1, <1>5, <1>6, <3>1
    <3>3. Above' = all
      BY <1>5, <1>6, <3>2, SeqEqual
    <3> QED
      BY <1>5, <2>3, <3>3
  <2> QED
    BY <2>2, <2>3
<1>8. currentText' = <<>> /\ currentLine' = <<>> /\ cursorCol' = 0
  BY DEF Newline
<1>9. Txt' = <<>>
  BY <1>8, AfterFlush DEF TextOf
<1>10. T!Newline
  BY <1>7, <1>8, <1>9 DEF T!Newline, Txt, Above, all
<1> QED
  BY <1>10 DEF T!Next

LEMMA FlushedText ==
  ASSUME IInv, Wide = {}, flushText
  PROVE  Txt' = Txt
BY FitsNow, AfterFlush DEF flushText

LEMMA CursorMoves ==
  ASSUME IInv, Wide = {}, flushText, cursorCol' \in 0..MaxCol, UNCHANGED lines
  PROVE  T!Next
<1>1. Txt' = Txt /\ Above' = Above
  BY FlushedText, AboveSame
<1>2. T!Move(cursorCol')
  BY <1>1 DEF T!Move, Txt, Above
<1> QED
  BY <1>2 DEF T!Next

LEMMA MovesMoves ==
  ASSUME IInv, Wide = {}, NEW c \in Nat, Moves(c)
  PROVE  T!Next
<1>1. flushText /\ cursorCol' \in 0..MaxCol /\ UNCHANGED lines
  BY Numbers DEF Moves
<1> QED
  BY <1>1, CursorMoves

LEMMA EditsText ==
  ASSUME NEW line \in Seq(Cell), Edits(line)
  PROVE  /\ Txt' = TextOf(line) /\ Above' = Above /\ cursorCol' = cursorCol
         /\ Len(line) <= MaxCol /\ Final
BY AfterFlush, AboveSame DEF Edits

LEMMA TruncatedText ==
  ASSUME NEW line \in Seq(Cell), NEW c \in 0..Len(line)
  PROVE  /\ TextOf(truncateLineAt(line, c)) = SliceTo(TextOf(line), c)
         /\ SliceTo(TextOf(line), c) \in Seq(Unit) /\ Len(SliceTo(TextOf(line), c)) = c
<1> DEFINE t == TextOf(line)
           cut == truncateLineAt(line, c)
<1>1. /\ t \in Seq(Unit) /\ Len(t) = Len(line) /\ Len(line) \in Nat /\ c \in Nat /\ c <= Len(t)
      /\ \A i \in 1..Len(line) : t[i] = line[i].unit
  BY TextFacts
<1>2. cut \in Seq(Cell) /\ Len(cut) = c /\ \A i \in 1..c : cut[i] = line[i]
  <2> DEFINE n == IF c < Len(line) THEN c ELSE Len(line)
  <2>1. cut \in Seq(Cell) /\ Len(cut) = n /\ \A i \in 1..n : cut[i] = line[i]
    BY <1>1, TruncatedFacts
  <2>2. n = c
    BY <1>1
  <2> HIDE DEF n, cut
  <2> QED
    BY <2>1, <2>2
<1> HIDE DEF t, cut
<1>3. /\ SliceTo(t, c) \in Seq(Unit) /\ Len(SliceTo(t, c)) = c
      /\ \A i \in 1..c : SliceTo(t, c)[i] = t[i]
  <2>1. c \in Int /\ c >= 0 /\ c <= Len(t)
    BY <1>1
  <2> QED
    BY <1>1, <2>1, SliceToFacts
<1>4. /\ TextOf(cut) \in Seq(Unit) /\ Len(TextOf(cut)) = c
      /\ \A i \in 1..c : TextOf(cut)[i] = cut[i].unit
  BY <1>2, TextFacts
<1>5. \A i \in 1..c : TextOf(cut)[i] = SliceTo(t, c)[i]
  <2>1. \A i \in 1..c : i \in 1..Len(line)
    BY <1>1
  <2> QED
    BY <1>1, <1>2, <1>3, <1>4, <2>1
<1>6. TextOf(cut) = SliceTo(t, c)
  BY <1>3, <1>4, <1>5, SeqEqual
<1> QED
  BY <1>3, <1>6 DEF t, cut

LEMMA EraseEndErases ==
  ASSUME IInv, Wide = {}, EraseToEnd
  PROVE  T!Next
<1> DEFINE line == truncateLineAt(Flushed, cursorCol)
<1>1. /\ Flushed \in Seq(Cell) /\ cursorCol \in Nat /\ Len(Flushed) \in Nat
      /\ Txt \in Seq(Unit) /\ Len(Txt) = Len(Flushed) /\ TextOf(Flushed) = Txt
  BY FlushedNow
<1>2. line \in Seq(Cell)
  BY <1>1, TruncatedFacts
<1>3. Txt' = TextOf(line) /\ Above' = Above /\ cursorCol' = cursorCol
  BY <1>2, EditsText DEF EraseToEnd
<1>4. Txt' = IF cursorCol < Len(Txt) THEN T!Before(Txt, cursorCol) ELSE Txt
  <2>1. CASE cursorCol < Len(Txt)
    <3>1. T!Before(Txt, cursorCol) = SliceTo(Txt, cursorCol)
      BY <1>1 DEF T!Before, SliceTo
    <3>2. cursorCol \in 0..Len(Flushed)
      BY <1>1, <2>1
    <3> QED
      BY <1>1, <1>3, <2>1, <3>1, <3>2, TruncatedText
  <2>2. CASE ~(cursorCol < Len(Txt))
    <3>1. line = SliceTo(Flushed, Len(Flushed))
      BY <1>1, <2>2 DEF truncateLineAt
    <3>2. line = Flushed
      BY <1>1, <3>1, SubSeqFull DEF SliceTo
    <3> QED
      BY <1>1, <1>3, <2>2, <3>2
  <2> QED
    BY <2>1, <2>2
<1>5. T!EraseEnd
  BY <1>3, <1>4 DEF T!EraseEnd, Txt, Above
<1> QED
  BY <1>5 DEF T!Next

LEMMA EraseStartErases ==
  ASSUME IInv, Wide = {}, EraseToStart
  PROVE  T!Next
<1> DEFINE n == IF cursorCol < Len(Flushed) THEN cursorCol ELSE Len(Flushed)
           new == Spaces(n)
           line == overwriteLineAt(Flushed, 0, new, DefaultStyle)
           to == [i \in 1..Len(Txt) |-> IF i <= cursorCol THEN Blank ELSE Txt[i]]
<1>1. /\ Flushed \in Seq(Cell) /\ cursorCol \in Nat /\ Len(Flushed) \in Nat
      /\ Txt \in Seq(Unit) /\ Len(Txt) = Len(Flushed) /\ DefaultStyle \in CellStyle
      /\ \A i \in 1..Len(Txt) : Flushed[i].unit = Txt[i]
  BY FlushedNow
<1>2. n \in Nat /\ n <= Len(Txt) /\ n <= cursorCol /\ (n = cursorCol \/ n = Len(Txt))
  BY <1>1
<1>3. Edits(line)
  BY DEF EraseToStart
<1> HIDE DEF n
<1>4. new \in Seq(Unit) /\ Len(new) = n /\ \A i \in 1..n : new[i] = Blank
  BY <1>2, SpacesFacts
<1> HIDE DEF new
<1>5. line \in Seq(Cell)
  BY <1>1, <1>4, OverwriteType
<1>6. /\ Len(line) = Len(Txt)
      /\ \A i \in 1..Len(Txt) : line[i].unit = IF i <= cursorCol THEN Blank ELSE Txt[i]
  <2>1. CASE new = <<>>
    <3>1. line = Flushed /\ n = 0
      BY <1>4, <2>1 DEF overwriteLineAt
    <3> HIDE DEF line
    <3> QED
      BY <1>1, <1>2, <3>1
  <2>2. CASE new # <<>>
    <3> DEFINE z == 0
               end == z + Len(new)
    <3>1. end = n /\ z \in Int /\ z >= 0 /\ end >= 0 /\ line = overwriteLineAt(Flushed, z, new, DefaultStyle)
      BY <1>2, <1>4
    <3> HIDE DEF z, line
    <3>2. /\ Len(line) = IF end > Len(Flushed) THEN end ELSE Len(Flushed)
          /\ \A i \in 1..Len(line) :
               line[i].unit = IF i > z /\ i <= end THEN new[i - z]
                              ELSE IF i <= Len(Flushed) THEN Flushed[i].unit ELSE Blank
      <4>1. /\ Flushed \in Seq(Cell) /\ z \in Nat /\ new \in Seq(Unit) /\ new # <<>>
            /\ DefaultStyle \in CellStyle
        BY <1>1, <1>4, <2>2, <3>1
      <4>2. LET over == overwriteLineAt(Flushed, z, new, DefaultStyle)
            IN  /\ Len(over) = IF z + Len(new) > Len(Flushed) THEN z + Len(new) ELSE Len(Flushed)
                /\ \A i \in 1..Len(over) :
                     over[i].unit = IF i > z /\ i <= z + Len(new) THEN new[i - z]
                                    ELSE IF i <= Len(Flushed) THEN Flushed[i].unit ELSE Blank
        BY <4>1, OverwriteAt
      <4> QED
        BY <3>1, <4>2
    <3> HIDE DEF end
    <3>3. Len(line) = Len(Txt)
      BY <1>1, <1>2, <3>1, <3>2
    <3>4. ASSUME NEW i \in 1..Len(Txt)
          PROVE  line[i].unit = IF i <= cursorCol THEN Blank ELSE Txt[i]
      <4>1. i > z /\ i - z = i /\ i <= Len(Flushed) /\ (i <= cursorCol <=> i <= n)
        BY <1>1, <1>2 DEF z
      <4>2. i <= n => new[i] = Blank
        BY <1>2, <1>4, <4>1
      <4> QED
        BY <1>1, <3>1, <3>2, <3>3, <4>1, <4>2
    <3> QED
      BY <3>3, <3>4
  <2> QED
    BY <2>1, <2>2
<1> HIDE DEF line
<1>7. Txt' = TextOf(line) /\ Above' = Above /\ cursorCol' = cursorCol
  BY <1>3, <1>5, EditsText
<1>8. TextOf(line) = to
  BY <1>6 DEF TextOf
<1>9. T!EraseStart
  BY <1>7, <1>8 DEF T!EraseStart, Txt, Above
<1> QED
  BY <1>9 DEF T!Next

LEMMA LineErased ==
  ASSUME IInv, EraseLine \/ EraseDisplay
  PROVE  T!Next
<1>1. currentText' = <<>> /\ currentLine' = <<>> /\ cursorCol' = 0
  BY DEF EraseLine, EraseDisplay
<1>2. Txt' = <<>>
  BY <1>1, AfterFlush DEF TextOf
<1>3. CASE EraseLine
  <2>1. T!EraseLine
    BY <1>1, <1>2, <1>3, AboveSame DEF EraseLine, T!EraseLine, Txt, Above
  <2> QED
    BY <2>1 DEF T!Next
<1>4. CASE EraseDisplay
  <2>1. Above' = <<>>
    BY <1>4 DEF EraseDisplay, Above
  <2>2. T!ClearScreen
    BY <1>1, <1>2, <2>1 DEF T!ClearScreen, Txt, Above
  <2> QED
    BY <2>2 DEF T!Next
<1> QED
  BY <1>3, <1>4

LEMMA CharsErased ==
  ASSUME IInv, Wide = {}, EraseChars
  PROVE  T!Next
<1> DEFINE n == Number(1, 1)
           new == Spaces(n)
           line == overwriteLineAt(Flushed, cursorCol, new, DefaultStyle)
<1>1. Edits(line)
  BY DEF EraseChars
<1>2. n \in Nat /\ n > 0
  BY <1>1, FinalNumbers DEF Edits, IInv
<1>3. /\ Flushed \in Seq(Cell) /\ cursorCol \in Nat /\ Len(Flushed) \in Nat
      /\ TextOf(Flushed) = Txt /\ DefaultStyle \in CellStyle
  BY FlushedNow
<1> HIDE DEF n
<1>4. new \in Seq(Unit) /\ Len(new) = n /\ new # <<>> /\ T!Blanks(n) = new
  <2>1. new \in Seq(Unit) /\ Len(new) = n
    BY <1>2, SpacesFacts
  <2> QED
    BY <1>2, <2>1 DEF T!Blanks, Spaces
<1> HIDE DEF new
<1>5. line \in Seq(Cell) /\ TextOf(line) = T!Over(Txt, cursorCol, new)
  BY <1>3, <1>4, OverwriteType, OverwriteText
<1>6. Len(line) >= cursorCol + n
  <2> DEFINE end == cursorCol + Len(new)
  <2>1. cursorCol \in Int /\ cursorCol >= 0 /\ end >= 0 /\ end = cursorCol + n
    BY <1>2, <1>3, <1>4
  <2>2. Len(line) = IF end > Len(Flushed) THEN end ELSE Len(Flushed)
    BY <1>3, <1>4, <2>1, OverwriteFacts
  <2> HIDE DEF end, line
  <2> QED
    BY <1>2, <1>3, <2>1, <2>2
<1> HIDE DEF line
<1>7. /\ Txt' = TextOf(line) /\ Above' = Above /\ cursorCol' = cursorCol
      /\ Len(line) <= MaxCol
  BY <1>1, <1>5, EditsText
<1>8. n \in 1..MaxCol
  <2>1. Len(line) \in Nat
    BY <1>5
  <2> QED
    BY <1>2, <1>3, <1>6, <1>7, <2>1, Numbers
<1>9. T!EraseChars(n)
  BY <1>4, <1>5, <1>7 DEF T!EraseChars, Txt, Above
<1> QED
  BY <1>8, <1>9 DEF T!Next

\* Writing to the end of a line, or past it, leaves what is left of the column.
LEMMA OverTail ==
  ASSUME NEW t \in Seq(Unit), NEW c \in 0..Len(t), NEW us \in Seq(Unit), c + Len(us) >= Len(t)
  PROVE  T!Over(t, c, us) = SliceTo(t, c) \o us
<1> DEFINE one == SliceTo(t, c)
           end == c + Len(us)
           over == T!Over(t, c, us)
<1>1. c \in Nat /\ Len(t) \in Nat /\ Len(us) \in Nat /\ c <= Len(t)
  OBVIOUS
<1>2. one \in Seq(Unit) /\ Len(one) = c /\ \A i \in 1..c : one[i] = t[i]
  <2>1. c \in Int /\ c >= 0
    BY <1>1
  <2> QED
    BY <1>1, <2>1, SliceToFacts
<1> HIDE DEF one
<1>3. /\ one \o us \in Seq(Unit) /\ Len(one \o us) = c + Len(us)
      /\ \A i \in 1..c : (one \o us)[i] = one[i]
      /\ \A i \in (c + 1)..(c + Len(us)) : (one \o us)[i] = us[i - c]
  <2>1. one \in Seq(Unit) /\ us \in Seq(Unit)
    BY <1>2
  <2>2. /\ one \o us \in Seq(Unit) /\ Len(one \o us) = Len(one) + Len(us)
        /\ \A i \in 1..Len(one) : (one \o us)[i] = one[i]
        /\ \A i \in (Len(one) + 1)..(Len(one) + Len(us)) : (one \o us)[i] = us[i - Len(one)]
    BY <2>1, ConcatFacts
  <2> QED
    BY <1>2, <2>2
<1>4. /\ over \in Seq(Unit)
      /\ Len(over) = IF end > Len(t) THEN end ELSE Len(t)
      /\ \A i \in 1..Len(over) :
           over[i] = IF i > c /\ i <= end THEN us[i - c]
                     ELSE IF i <= Len(t) THEN t[i] ELSE Blank
  BY <1>1, OverFacts
<1> HIDE DEF over
<1>5. end = c + Len(us) /\ Len(over) = c + Len(us)
  <2>1. end = c + Len(us) /\ end \in Nat /\ end >= Len(t)
    BY <1>1
  <2> HIDE DEF end
  <2>2. Len(over) = end
    BY <1>1, <1>4, <2>1
  <2> QED
    BY <2>1, <2>2
<1> HIDE DEF end
<1>6. ASSUME NEW i \in 1..(c + Len(us))
      PROVE  over[i] = (one \o us)[i]
  <2>1. CASE i <= c
    <3>1. i \in 1..c /\ ~(i > c) /\ i <= Len(t)
      BY <1>1, <2>1
    <3> QED
      BY <1>2, <1>3, <1>4, <1>5, <3>1
  <2>2. CASE i > c
    <3>1. i \in (c + 1)..(c + Len(us)) /\ i <= end
      BY <1>1, <1>5, <2>2
    <3> QED
      BY <1>3, <1>4, <1>5, <2>2, <3>1
  <2>3. i <= c \/ i > c
    BY <1>1
  <2> QED
    BY <2>1, <2>2, <2>3, Zenon
<1> QED
  BY <1>3, <1>4, <1>5, <1>6, SeqEqual DEF one, over

LEMMA CharsDeleted ==
  ASSUME IInv, Wide = {}, DeleteChars
  PROVE  [T!Next]_(T!vars)
<1> DEFINE n == Number(1, 1)
           rest == SliceFrom(Txt, cursorCol + n)
           cut == truncateLineAt(Flushed, cursorCol)
           line == overwriteLineAt(cut, cursorCol, rest, Live)
<1>1. /\ Flushed \in Seq(Cell) /\ Len(Flushed) \in Nat /\ cursorCol \in Nat
      /\ Txt \in Seq(Unit) /\ TextOf(Flushed) = Txt
      /\ Len(Txt) = Len(Flushed) /\ Len(Txt) <= MaxCol /\ Live \in CellStyle
  BY FlushedNow
<1>2. Edits(IF cursorCol < Len(Flushed) THEN line ELSE Flushed)
  BY <1>1 DEF DeleteChars
<1>3. n \in Nat /\ n > 0
  BY <1>2, FinalNumbers DEF Edits, IInv
<1> HIDE DEF n
<1>4. CASE cursorCol < Len(Flushed)
  <2> DEFINE m == IF n <= MaxCol THEN n ELSE MaxCol
             one == SliceTo(Txt, cursorCol)
  <2>1. /\ rest \in Seq(Unit)
        /\ Len(rest) = IF cursorCol + n < Len(Txt) THEN Len(Txt) - (cursorCol + n) ELSE 0
    <3>1. cursorCol + n \in Nat
      BY <1>1, <1>3
    <3> QED
      BY <1>1, <3>1, SliceFromFacts
  <2>2. /\ cut \in Seq(Cell) /\ TextOf(cut) = one /\ one \in Seq(Unit) /\ Len(one) = cursorCol
        /\ Len(cut) = cursorCol
    <3>1. cursorCol \in 0..Len(Flushed)
      BY <1>1, <1>4
    <3>2. cut \in Seq(Cell) /\ TextOf(cut) = one /\ one \in Seq(Unit) /\ Len(one) = cursorCol
      BY <1>1, <3>1, TruncatedText, TruncatedFacts
    <3>3. Len(TextOf(cut)) = Len(cut)
      BY <3>2, TextFacts
    <3> QED
      BY <3>2, <3>3
  <2>3. m \in 1..MaxCol
    BY <1>1, <1>3, <1>4, Numbers
  <2>4. T!From(Txt, cursorCol + m) = rest
    <3>1. T!From(Txt, cursorCol + m) = SliceFrom(Txt, cursorCol + m)
      BY DEF T!From, SliceFrom
    <3>2. CASE n <= MaxCol
      BY <3>1, <3>2
    <3>3. CASE n > MaxCol
      <4>1. cursorCol + m \in Nat /\ ~(cursorCol + m < Len(Txt)) /\ ~(cursorCol + n < Len(Txt))
        BY <1>1, <1>3, <3>3, Numbers
      <4> HIDE DEF m
      <4>2. /\ SliceFrom(Txt, cursorCol + m) \in Seq(Unit)
            /\ Len(SliceFrom(Txt, cursorCol + m)) = 0
        BY <1>1, <4>1, SliceFromFacts
      <4>3. Len(rest) = 0
        BY <2>1, <4>1
      <4> HIDE DEF rest
      <4> QED
        BY <2>1, <3>1, <4>2, <4>3
    <3> QED
      BY <1>3, <3>2, <3>3, Numbers
  <2> HIDE DEF cut, rest
  <2>5. line \in Seq(Cell) /\ TextOf(line) = one \o rest
    <3>1. line \in Seq(Cell)
      BY <1>1, <2>1, <2>2, OverwriteType
    <3>2. CASE rest = <<>>
      <4>1. line = cut
        BY <3>2 DEF overwriteLineAt
      <4>2. one \o rest = one
        BY <2>2, <3>2, ConcatEmptySeq
      <4> QED
        BY <2>2, <3>1, <4>1, <4>2
    <3>3. CASE rest # <<>>
      <4>1. TextOf(line) = T!Over(one, cursorCol, rest)
        BY <1>1, <2>1, <2>2, <3>3, OverwriteText
      <4>2. cursorCol \in 0..Len(one) /\ cursorCol + Len(rest) >= Len(one)
        BY <1>1, <2>1, <2>2
      <4> HIDE DEF one
      <4>3. T!Over(one, cursorCol, rest) = SliceTo(one, cursorCol) \o rest
        BY <2>1, <2>2, <4>2, OverTail
      <4>4. SliceTo(one, cursorCol) = one
        <5>1. SliceTo(one, cursorCol) = SubSeq(one, 1, Len(one))
          BY <1>1, <2>2 DEF SliceTo
        <5> QED
          BY <2>2, <5>1, SubSeqFull
      <4> QED
        BY <3>1, <4>1, <4>3, <4>4
    <3> QED
      BY <3>2, <3>3
  <2>6. Edits(line)
    BY <1>2, <1>4
  <2> HIDE DEF line
  <2>7. Txt' = TextOf(line) /\ Above' = Above /\ cursorCol' = cursorCol
    BY <2>5, <2>6, EditsText
  <2>8. T!Before(Txt, cursorCol) = one
    BY <1>1 DEF T!Before, SliceTo
  <2>9. cursorCol < Len(Txt) /\ Txt' = T!Before(Txt, cursorCol) \o T!From(Txt, cursorCol + m)
    BY <1>1, <1>4, <2>4, <2>5, <2>7, <2>8
  <2> HIDE DEF m
  <2>10. T!DeleteChars(m)
    BY <2>7, <2>9 DEF T!DeleteChars, Txt, Above
  <2> QED
    BY <2>3, <2>10 DEF T!Next
<1>5. CASE ~(cursorCol < Len(Flushed))
  <2>1. Edits(Flushed)
    BY <1>2, <1>5
  <2>2. Txt' = Txt /\ Above' = Above /\ cursorCol' = cursorCol
    BY <1>1, <2>1, EditsText
  <2> QED
    BY <2>2 DEF T!vars, Txt, Above
<1> QED
  BY <1>4, <1>5

LEMMA CharsInserted ==
  ASSUME IInv, Wide = {}, InsertChars
  PROVE  [T!Next]_(T!vars)
<1> DEFINE n == Number(1, 1)
           rest == SliceFrom(Txt, cursorCol)
           blanks == Spaces(n)
           new == blanks \o rest
           line == overwriteLineAt(Flushed, cursorCol, new, Live)
           one == SliceTo(Txt, cursorCol)
<1>1. /\ Flushed \in Seq(Cell) /\ Len(Flushed) \in Nat /\ cursorCol \in Nat
      /\ Txt \in Seq(Unit) /\ TextOf(Flushed) = Txt
      /\ Len(Txt) = Len(Flushed) /\ Live \in CellStyle
  BY FlushedNow
<1>2. Edits(IF cursorCol <= Len(Flushed) THEN line ELSE Flushed)
  BY <1>1 DEF InsertChars
<1>3. n \in Nat /\ n > 0
  BY <1>2, FinalNumbers DEF Edits, IInv
<1> HIDE DEF n
<1>4. blanks \in Seq(Unit) /\ Len(blanks) = n /\ T!Blanks(n) = blanks
  <2>1. blanks \in Seq(Unit) /\ Len(blanks) = n
    BY <1>3, SpacesFacts
  <2> QED
    BY <2>1 DEF T!Blanks, Spaces
<1> HIDE DEF blanks
<1>5. CASE cursorCol <= Len(Flushed)
  <2>1. /\ rest \in Seq(Unit)
        /\ Len(rest) = IF cursorCol < Len(Txt) THEN Len(Txt) - cursorCol ELSE 0
    BY <1>1, SliceFromFacts
  <2>2. T!From(Txt, cursorCol) = rest
    BY DEF T!From, SliceFrom
  <2> HIDE DEF rest
  <2>3. new \in Seq(Unit) /\ Len(new) = n + Len(rest)
    BY <1>4, <2>1, ConcatFacts
  <2>4. new # <<>> /\ cursorCol + Len(new) = n + Len(Txt)
    <3>1. Len(rest) = Len(Txt) - cursorCol
      BY <1>1, <1>5, <2>1
    <3> HIDE DEF new
    <3>2. Len(new) > 0 /\ cursorCol + Len(new) = n + Len(Txt)
      BY <1>1, <1>3, <1>5, <2>3, <3>1
    <3> QED
      BY <3>2
  <2>5. one \in Seq(Unit) /\ T!Before(Txt, cursorCol) = one
    <3>1. cursorCol \in 0..Len(Flushed)
      BY <1>1, <1>5
    <3> QED
      BY <1>1, <3>1, TruncatedText DEF T!Before, SliceTo
  <2>6. T!Before(Txt, cursorCol) \o T!Blanks(n) \o T!From(Txt, cursorCol) = one \o new
    <3> HIDE DEF one
    <3>1. (one \o blanks) \o rest = one \o (blanks \o rest)
      <4>1. one \in Seq(Unit) /\ blanks \in Seq(Unit) /\ rest \in Seq(Unit)
        BY <1>4, <2>1, <2>5
      <4> QED
        BY <4>1, ConcatAssociative
    <3> QED
      BY <1>4, <2>2, <2>5, <3>1
  <2> HIDE DEF new
  <2>7. T!Over(Txt, cursorCol, new) = one \o new
    <3>1. cursorCol \in 0..Len(Txt) /\ cursorCol + Len(new) >= Len(Txt)
      BY <1>1, <1>3, <1>5, <2>4
    <3> QED
      BY <1>1, <2>3, <3>1, OverTail
  <2>8. line \in Seq(Cell) /\ TextOf(line) = T!Over(Txt, cursorCol, new)
    BY <1>1, <2>3, <2>4, OverwriteType, OverwriteText
  <2>9. Edits(line)
    BY <1>2, <1>5
  <2>10. Len(line) = n + Len(Txt)
    <3> DEFINE end == cursorCol + Len(new)
    <3>1. cursorCol \in Int /\ cursorCol >= 0 /\ end >= 0
      BY <1>1, <1>3, <2>4
    <3>2. Len(line) = IF end > Len(Flushed) THEN end ELSE Len(Flushed)
      BY <1>1, <2>3, <2>4, <3>1, OverwriteFacts
    <3> HIDE DEF line
    <3> QED
      BY <1>1, <1>3, <2>4, <3>2
  <2> HIDE DEF line, one
  <2>11. Txt' = TextOf(line) /\ Above' = Above /\ cursorCol' = cursorCol /\ Len(line) <= MaxCol
    BY <2>8, <2>9, EditsText
  <2>12. n \in 1..MaxCol /\ cursorCol <= Len(Txt)
    BY <1>1, <1>3, <1>5, <2>10, <2>11, Numbers
  <2>13. Txt' = T!Before(Txt, cursorCol) \o T!Blanks(n) \o T!From(Txt, cursorCol)
    BY <2>6, <2>7, <2>8, <2>11
  <2>14. T!InsertChars(n)
    BY <2>11, <2>12, <2>13 DEF T!InsertChars, Txt, Above
  <2> QED
    BY <2>12, <2>14 DEF T!Next
<1>6. CASE ~(cursorCol <= Len(Flushed))
  <2>1. Edits(Flushed)
    BY <1>2, <1>6
  <2>2. Txt' = Txt /\ Above' = Above /\ cursorCol' = cursorCol
    BY <1>1, <2>1, EditsText
  <2> QED
    BY <2>2 DEF T!vars, Txt, Above
<1> QED
  BY <1>5, <1>6

LEMMA ColoursAside ==
  ASSUME IInv, Wide = {}, SetGraphics
  PROVE  UNCHANGED T!vars
<1>1. Flushed \in Seq(Cell) /\ TextOf(Flushed) = Txt
  BY FlushedNow
<1>2. /\ currentText' = <<>> /\ cursorCol' = cursorCol
      /\ TextOf(currentLine') = TextOf(Flushed)
  BY <1>1, GraphicsDef, GraphicsFacts, RelabelledFacts
<1>3. Txt' = Txt
  BY <1>1, <1>2, AfterFlush
<1>4. Above' = Above
  <2>1. Len(lines') = Len(lines) /\ \A i \in 1..Len(lines) : TextOf(lines'[i]) = TextOf(lines[i])
    BY GraphicsFacts
  <2>2. Above' = [i \in 1..Len(lines') |-> TextOf(lines'[i])]
    BY DEF Above, TextOf
  <2> QED
    BY <2>1, <2>2 DEF Above
<1> QED
  BY <1>2, <1>3, <1>4 DEF T!vars, Txt, Above

\* A step that leaves the line, its waiting text and the cursor alone.
LEMMA SameText ==
  ASSUME IInv, IInv', Wide = {}, UNCHANGED <<text, lines>>
  PROVE  UNCHANGED T!vars
<1>1. TextIs
  BY FitsNow
<1>2. TextIs'
  <2>1. Fits'
    BY DEF IInv, Narrow, Fits
  <2> QED
    BY <2>1, NextText
<1>3. UNCHANGED <<currentLine, currentText, cursorCol, lines>>
  BY DEF text
<1>4. Txt \in Seq(Unit) /\ Txt' \in Seq(Unit) /\ Len(Txt') = Len(Txt)
  BY <1>1, <1>2, <1>3 DEF TextIs
<1>5. \A i \in 1..Len(Txt) : Txt'[i] = Txt[i]
  BY <1>1, <1>2, <1>3, <1>4 DEF TextIs
<1>6. Txt' = Txt /\ Above' = Above
  BY <1>3, <1>4, <1>5, SeqEqual, AboveSame
<1> QED
  BY <1>3, <1>6 DEF T!vars, Txt, Above

LEMMA StepMaps ==
  ASSUME IInv, IInv', Wide = {}, [Next]_vars
  PROVE  [T!Next]_(T!vars)
<1>1. CASE \E c \in Chars : Put(c)
  BY <1>1, PutWrites
<1>2. CASE Newline
  BY <1>2, NewlineFinishes
<1>3. CASE CarriageReturn \/ Backspace
  <2>1. cursorCol \in 0..MaxCol /\ 0 \in 0..MaxCol /\ cursorCol \in Nat
    BY Numbers DEF IInv, PageType
  <2>2. cursorCol' \in 0..MaxCol
    BY <1>3, <2>1, Numbers DEF CarriageReturn, Backspace
  <2> QED
    BY <1>3, <2>2, CursorMoves DEF CarriageReturn, Backspace
<1>4. CASE Tab
  BY <1>4, TabWrites
<1>5. CASE ColumnAbsolute \/ ColumnOf \/ Forward \/ Backward
  <2>1. Final
    BY <1>5 DEF ColumnAbsolute, ColumnOf, Forward, Backward, Moves
  <2>2. Number(1, 1) \in Nat /\ Number(1, 1) > 0 /\ Number(2, 1) \in Nat /\ Number(2, 1) > 0
    BY <2>1, FinalNumbers DEF IInv
  <2>3. cursorCol \in Nat
    BY FlushedNow
  <2>4. CASE ColumnAbsolute \/ ColumnOf
    <3>1. Number(1, 1) - 1 \in Nat /\ Number(2, 1) - 1 \in Nat
      BY <2>2
    <3> QED
      BY <2>4, <3>1, MovesMoves DEF ColumnAbsolute, ColumnOf
  <2>5. CASE Forward
    <3>1. cursorCol + Number(1, 1) \in Nat
      BY <2>2, <2>3
    <3> QED
      BY <2>5, <3>1, MovesMoves DEF Forward
  <2>6. CASE Backward
    <3> DEFINE c == IF Number(1, 1) < cursorCol THEN cursorCol - Number(1, 1) ELSE 0
    <3>1. Moves(c)
      BY <2>6 DEF Backward
    <3>2. c \in Nat
      BY <2>2, <2>3
    <3> HIDE DEF c
    <3> QED
      BY <3>1, <3>2, MovesMoves
  <2> QED
    BY <1>5, <2>4, <2>5, <2>6
<1>6. CASE EraseToEnd
  BY <1>6, EraseEndErases
<1>7. CASE EraseToStart
  BY <1>7, EraseStartErases
<1>8. CASE EraseLine \/ EraseDisplay
  BY <1>8, LineErased
<1>9. CASE EraseNothing
  <2>1. Flushed \in Seq(Cell) /\ TextOf(Flushed) = Txt /\ Edits(Flushed)
    BY <1>9, FlushedNow DEF EraseNothing
  <2>2. Txt' = Txt /\ Above' = Above /\ cursorCol' = cursorCol
    BY <2>1, EditsText
  <2> QED
    BY <2>2 DEF T!vars, Txt, Above
<1>10. CASE EraseChars
  BY <1>10, CharsErased
<1>11. CASE DeleteChars
  BY <1>11, CharsDeleted
<1>12. CASE InsertChars
  BY <1>12, CharsInserted
<1>13. CASE SetGraphics
  BY <1>13, ColoursAside
<1>14. CASE Parse
  <2>1. UNCHANGED <<text, lines>>
    BY <1>14 DEF Parse, Escape, EscapeOpens, EscapeOther, StringEnds, CsiIgnored, Goto, CsiParams
  <2> QED
    BY <2>1, SameText
<1>15. CASE UNCHANGED vars
  BY <1>15, SameText DEF vars
<1> QED
  BY <1>1, <1>2, <1>3, <1>4, <1>5, <1>6, <1>7, <1>8, <1>9, <1>10, <1>11, <1>12, <1>13, <1>14,
     <1>15 DEF Next, Control, Sequence

\* While no character is wide, text that waits in currentText is shown as if
\* every character had been written at once: no sequence moves the cursor,
\* changes the line or finishes it before the waiting text is in it (feed,
\* handleCSI, flushText, overwriteLineAt, pushLine).
THEOREM WaitingTextIsShown ==
  ASSUME Wide = {}
  PROVE  Spec => ImplementsText
<1>1. Init => T!Init
  <2> SUFFICES ASSUME Init
               PROVE  T!Init
    OBVIOUS
  <2>1. getCurrentLine = <<>> /\ lines = <<>> /\ cursorCol = 0
    BY DEF Init, getCurrentLine, overwriteLineAt
  <2> QED
    BY <2>1 DEF T!Init, TextOf
<1>2. IInv /\ IInv' /\ [Next]_vars => [T!Next]_(T!vars)
  BY StepMaps
<1> QED
  BY <1>1, <1>2, Always, PTL DEF Spec, ImplementsText, T!Spec
=============================================================================
