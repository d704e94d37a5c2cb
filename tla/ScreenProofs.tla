----------------------------- MODULE ScreenProofs -----------------------------
(***************************************************************************)
(* The screen, for any size of it and of the characters, and any texts.    *)
(* What the parser makes of a number is a recursive function of the text,  *)
(* whose defining equation is proved first, from the least number at which *)
(* it could fail.  The invariant then says where the cursor can be: within *)
(* the lines while something is drawn in front of it or nothing has moved  *)
(* it, not above the window unless it was paged, and at most one line      *)
(* below it unless there is a gap.                                         *)
(***************************************************************************)
EXTENDS Screen, SequenceTheorems, FiniteSetTheorems, WellFoundedInduction,
        NaturalsInduction, TLAPS

\* The strings, named with those typed: no prover knows a literal to be one.
Bytes == STRING \cup {"c", "w", Newline, Continuation}

TextsTyped == text \in Seq(Bytes) /\ chunk \in Seq(Bytes) /\ line \in Seq(Bytes)

\* The cursor is behind what was drawn, and within the lines.
OnScreen ==
    ~ moved \/ line # <<>> =>
        cursor_x \in 0 .. Cols /\ cursor_y \in Nat /\ Len(line) <= Place

\* The window does not begin below the cursor.
WindowAbove == ~ moved /\ ~ paged => top \div CharHeight <= cursor_y

\* The line of the cursor is at most the one below the window, and it is in
\* the window if something stands in front of the cursor.
CursorNear ==
    ~ gap /\ ~ moved =>
        /\ cursor_y * CharHeight <= top + Height
        /\ line # <<>> \/ cursor_x > 0 => cursor_y * CharHeight + CharHeight <= top + Height

ScreenInv == CursorSafe /\ TextsTyped /\ OnScreen /\ WindowAbove /\ CursorNear /\ LineDrawn

-----------------------------------------------------------------------------
(* Induction over the bytes of a text *)

\* Every non-empty set of numbers has a least one.
LEMMA Least ==
    ASSUME NEW T, T \subseteq Nat, T # {}
    PROVE  \E x \in T : \A y \in T : ~ (y < x)
<1>1. IsWellFoundedOn(OpToRel(<, Nat), Nat)
    BY NatLessThanWellFounded
<1>2. \E x \in T : \A y \in T : ~ (<<y, x>> \in OpToRel(<, Nat))
    BY <1>1, WFMin
<1>3. \A x, y \in Nat : y < x => <<y, x>> \in OpToRel(<, Nat)
    BY DEF OpToRel
<1> QED BY <1>2, <1>3

\* g agrees with the recursion of NumbersTo up to n.
Approximates(g, n) ==
    g = [i \in 0 .. n |-> IF i < 3 THEN <<>> ELSE AddChar(g[i - 1], text[i])]

LEMMA ApproximationGrows ==
    ASSUME NEW n \in Nat, NEW g, Approximates(g, n)
    PROVE  \E h : Approximates(h, n + 1)
<1> DEFINE h == [i \in 0 .. n + 1 |->
                    IF i <= n THEN g[i] ELSE IF i < 3 THEN <<>> ELSE AddChar(g[i - 1], text[i])]
<1>1. \A i \in 0 .. n + 1 : h[i] = IF i < 3 THEN <<>> ELSE AddChar(h[i - 1], text[i])
    <2> TAKE i \in 0 .. n + 1
    <2>1. CASE i < 3
        BY <2>1 DEF Approximates
    <2>2. CASE i >= 3
        <3>1. h[i - 1] = g[i - 1]
            BY <2>2
        <3>2. h[i] = AddChar(g[i - 1], text[i])
            BY <2>2 DEF Approximates
        <3> QED BY <2>2, <3>1, <3>2
    <2> QED BY <2>1, <2>2
<1>2. h = [i \in 0 .. n + 1 |-> h[i]]
    OBVIOUS
<1> HIDE DEF h
<1>3. h = [i \in 0 .. n + 1 |-> IF i < 3 THEN <<>> ELSE AddChar(h[i - 1], text[i])]
    BY <1>1, <1>2
<1> QED BY <1>3 DEF Approximates

LEMMA ApproximationExists == \A n \in Nat : \E g : Approximates(g, n)
<1> DEFINE T == {n \in Nat : ~ \E g : Approximates(g, n)}
<1> SUFFICES ASSUME T # {} PROVE FALSE
    OBVIOUS
<1>1. PICK x \in T : \A y \in T : ~ (y < x)
    BY Least
<1>2. x # 0
    <2>1. Approximates([i \in 0 .. 0 |-> <<>>], 0)
        BY DEF Approximates
    <2> QED BY <2>1
<1>3. x - 1 \in Nat /\ x - 1 \notin T
    BY <1>1, <1>2
<1>4. PICK g : Approximates(g, x - 1)
    BY <1>3
<1> QED BY <1>3, <1>4, ApproximationGrows

LEMMA ApproximationsAgree ==
    ASSUME NEW n \in Nat, NEW g, NEW h, Approximates(g, n), Approximates(h, n + 1)
    PROVE  \A i \in 0 .. n : g[i] = h[i]
<1> DEFINE T == {i \in 0 .. n : g[i] # h[i]}
<1> SUFFICES ASSUME T # {} PROVE FALSE
    OBVIOUS
<1>1. PICK x \in T : \A y \in T : ~ (y < x)
    <2>1. T \subseteq Nat
        OBVIOUS
    <2> HIDE DEF T
    <2> QED BY <2>1, Least
<1>2. x \in 0 .. n /\ x \in 0 .. n + 1 /\ g[x] # h[x]
    OBVIOUS
<1>3. /\ g[x] = IF x < 3 THEN <<>> ELSE AddChar(g[x - 1], text[x])
      /\ h[x] = IF x < 3 THEN <<>> ELSE AddChar(h[x - 1], text[x])
    BY <1>2 DEF Approximates
<1>4. x >= 3
    BY <1>2, <1>3
<1>5. g[x - 1] = h[x - 1]
    BY <1>1, <1>2, <1>4
<1> QED BY <1>2, <1>3, <1>5

\* NumbersTo is what its definition says.
LEMMA NumbersStep ==
    \A i \in Nat : NumbersTo[i] = IF i < 3 THEN <<>> ELSE AddChar(NumbersTo[i - 1], text[i])
<1> DEFINE near == [n \in Nat |-> CHOOSE g : Approximates(g, n)]
           f == [n \in Nat |-> near[n][n]]
<1>1. \A n \in Nat : Approximates(near[n], n)
    BY ApproximationExists
<1> HIDE DEF near
<1>2. \A n \in Nat : f[n] = IF n < 3 THEN <<>> ELSE AddChar(f[n - 1], text[n])
    <2> TAKE n \in Nat
    <2>1. near[n][n] = IF n < 3 THEN <<>> ELSE AddChar(near[n][n - 1], text[n])
        <3>1. n \in 0 .. n /\ Approximates(near[n], n)
            BY <1>1
        <3> QED BY <3>1 DEF Approximates
    <2>2. CASE n < 3
        BY <2>1, <2>2
    <2>3. CASE n >= 3
        <3> DEFINE m == n - 1
        <3>1. m \in Nat /\ m \in 0 .. m /\ m + 1 = n
            BY <2>3
        <3> HIDE DEF m
        <3>2. Approximates(near[m], m) /\ Approximates(near[n], m + 1)
            BY <1>1, <3>1
        <3>3. near[m][m] = near[n][m]
            BY <3>1, <3>2, ApproximationsAgree
        <3> QED BY <2>1, <2>3, <3>1, <3>3 DEF m
    <2> QED BY <2>2, <2>3
<1>3. f = [n \in Nat |-> f[n]]
    OBVIOUS
<1> HIDE DEF f
<1>4. f = [i \in Nat |-> IF i < 3 THEN <<>> ELSE AddChar(f[i - 1], text[i])]
    BY <1>2, <1>3
<1>5. \E g : g = [i \in Nat |-> IF i < 3 THEN <<>> ELSE AddChar(g[i - 1], text[i])]
    BY <1>4
<1>6. NumbersTo = [i \in Nat |-> IF i < 3 THEN <<>> ELSE AddChar(NumbersTo[i - 1], text[i])]
    BY <1>5 DEF NumbersTo
<1> QED BY <1>6

-----------------------------------------------------------------------------
(* The parser *)

LEMMA DigitType == \A c \in Parameter : c # ";" => Digit[c] \in Nat
<1> SUFFICES ASSUME NEW c \in Range(Digits) PROVE Digit[c] \in Nat
    BY DEF Parameter
<1>1. DOMAIN Digits = 1 .. 10
    BY DEF Digits
<1>2. PICK x \in 1 .. 10 : Digits[x] = c
    BY <1>1 DEF Range
<1>3. x - 1 \in 0 .. 9 /\ (x - 1) + 1 = x
    OBVIOUS
<1> DEFINE v == CHOOSE n \in 0 .. 9 : Digits[n + 1] = c
<1>4. v \in 0 .. 9
    BY <1>2, <1>3
<1>5. Digit[c] = v
    BY DEF Digit
<1> HIDE DEF v
<1> QED BY <1>4, <1>5

LEMMA AddCharType ==
    ASSUME NEW numbers \in Seq(Nat), NEW c \in Parameter
    PROVE  AddChar(numbers, c) \in Seq(Nat)
<1>1. CASE c = ";"
    BY <1>1, AppendProperties DEF AddChar
<1>2. CASE c # ";" /\ numbers = <<>>
    <2>1. Digit[c] \in Nat
        BY <1>2, DigitType
    <2>2. AddChar(numbers, c) = <<Digit[c]>>
        BY <1>2 DEF AddChar
    <2> DEFINE d == Digit[c]
    <2> HIDE DEF d
    <2>3. d \in Nat => <<d>> \in Seq(Nat)
        OBVIOUS
    <2> QED BY <2>1, <2>2, <2>3 DEF d
<1>3. CASE c # ";" /\ numbers # <<>>
    <2> DEFINE n == Len(numbers)
               new == 10 * numbers[n] + Digit[c]
    <2>1. Digit[c] \in Nat
        BY <1>3, DigitType
    <2>2. n \in 1 .. Len(numbers) /\ numbers[n] \in Nat
        <3>1. Len(numbers) \in Nat \ {0}
            BY <1>3, EmptySeq
        <3>2. Len(numbers) \in 1 .. Len(numbers)
            BY <3>1
        <3> QED BY <3>2, ElementOfSeq
    <2>3. new \in Nat
        BY <2>1, <2>2
    <2>4. AddChar(numbers, c) = [numbers EXCEPT ![n] = new]
        BY <1>3 DEF AddChar
    <2> HIDE DEF n, new
    <2> QED BY <2>2, <2>3, <2>4, ExceptSeq
<1> QED BY <1>1, <1>2, <1>3

\* The first index of a set of them
LEMMA MinOf ==
    ASSUME NEW I, I \subseteq Nat, I # {}
    PROVE  Min(I) \in I /\ \A i \in I : Min(I) <= i
<1>1. PICK x \in I : \A y \in I : ~ (y < x)
    BY Least
<1>2. \A y \in I : x <= y
    BY <1>1
<1> QED BY <1>1, <1>2 DEF Min

LEMMA EndFacts ==
    ASSUME text \in Seq(Bytes), End # 0
    PROVE  /\ End \in 3 .. Len(text)
           /\ \A i \in 3 .. End - 1 : text[i] \in Parameter
<1> DEFINE I == {i \in 3 .. Len(text) : text[i] \notin Parameter}
<1>1. End = IF I # {} THEN Min(I) ELSE 0
    BY DEF End, SelectInSubSeq
<1>2. Len(text) \in Nat /\ I \subseteq Nat
    BY LenProperties
<1>3. End \in I /\ \A i \in I : End <= i
    <2> HIDE DEF I
    <2> QED BY <1>1, <1>2, MinOf
<1>4. ASSUME NEW i \in 3 .. End - 1
      PROVE  text[i] \in Parameter
    BY <1>2, <1>3
<1> QED BY <1>3, <1>4

LEMMA NumbersType ==
    ASSUME text \in Seq(Bytes), IsSequence
    PROVE  Numbers \in Seq(Nat) /\ Param \in Nat
<1>1. End # 0
    BY DEF IsSequence
<1>2. /\ End \in 3 .. Len(text) /\ Len(text) \in Nat
      /\ \A i \in 3 .. End - 1 : text[i] \in Parameter
    BY <1>1, EndFacts, LenProperties
<1>3. \A i \in 0 .. End - 1 : NumbersTo[i] \in Seq(Nat)
    <2> DEFINE T == {i \in 0 .. End - 1 : NumbersTo[i] \notin Seq(Nat)}
    <2> SUFFICES ASSUME T # {} PROVE FALSE
        OBVIOUS
    <2>1. T \subseteq Nat
        BY <1>2
    <2>2. PICK x \in T : \A y \in T : ~ (y < x)
        <3> HIDE DEF T
        <3> QED BY <2>1, Least
    <2>3. x \in 0 .. End - 1 /\ x \in Nat /\ NumbersTo[x] \notin Seq(Nat)
        BY <2>1
    <2>4. NumbersTo[x] = IF x < 3 THEN <<>> ELSE AddChar(NumbersTo[x - 1], text[x])
        BY <2>3, NumbersStep
    <2>5. x >= 3
        BY <2>3, <2>4, EmptySeq
    <2>6. x \in 3 .. End - 1 /\ x - 1 \in 0 .. End - 1 /\ x - 1 < x
        BY <1>2, <2>3, <2>5
    <2>7. NumbersTo[x - 1] \in Seq(Nat)
        BY <2>2, <2>6
    <2> QED BY <1>2, <2>3, <2>4, <2>5, <2>6, <2>7, AddCharType
<1>4. Numbers \in Seq(Nat)
    <2>1. End - 1 \in 0 .. End - 1
        BY <1>2
    <2> QED BY <1>1, <1>3, <2>1 DEF Numbers
<1>5. Numbers # <<>> => Last(Numbers) \in Nat
    BY <1>4, EmptySeq, ElementOfSeq DEF Last
<1> QED BY <1>4, <1>5 DEF Param

LEMMA CountFacts ==
    ASSUME text \in Seq(Bytes), text # <<>>
    PROVE  Count \in 0 .. Len(text)
<1> DEFINE I == {i \in 2 .. Len(text) : text[i] = Esc}
           next == IF I # {} THEN Min(I) ELSE 0
           first == IF text[1] = Esc THEN 2 ELSE 1
           last == IF next = 0 THEN Len(text) ELSE next - 1
<1>1. Piece = SubSeq(text, first, last)
    BY DEF Piece, SelectInSubSeq
<1>2. Len(text) \in Nat \ {0} /\ \A i \in 1 .. Len(text) : text[i] \in Bytes
    BY EmptySeq, ElementOfSeq
<1>3. next \in 0 .. Len(text)
    <2>1. I \subseteq Nat
        BY <1>2
    <2>2. I # {} => Min(I) \in I
        <3> HIDE DEF I
        <3> QED BY <2>1, MinOf
    <2> QED BY <1>2, <2>2
<1>4. first \in 1 .. 2 /\ last \in 0 .. Len(text)
    <2> HIDE DEF next
    <2> QED BY <1>2, <1>3
<1> HIDE DEF first, last
<1>5. Len(Piece) \in 0 .. Len(text)
    <2>1. \A i \in first .. last : text[i] \in Bytes
        BY <1>2, <1>4
    <2>2. Len(Piece) = IF first <= last THEN last - first + 1 ELSE 0
        BY <1>1, <1>4, <2>1, SubSeqProperties
    <2> QED BY <1>2, <1>4, <2>2
<1> DEFINE J == {i \in 1 .. Len(Piece) : Piece[i] # Continuation}
<1>6. IsFiniteSet(1 .. Len(Piece)) /\ Cardinality(1 .. Len(Piece)) = Len(Piece)
    <2> DEFINE k == Len(Piece)
    <2>1. k \in Nat /\ 1 \in Int /\ k \in Int
        BY <1>2, <1>5
    <2> HIDE DEF k
    <2>2. IsFiniteSet(1 .. k) /\ Cardinality(1 .. k) = IF 1 > k THEN 0 ELSE k - 1 + 1
        BY <2>1, FS_Interval
    <2>3. Cardinality(1 .. k) = k
        BY <2>1, <2>2
    <2> QED BY <2>2, <2>3 DEF k
<1>7. J \subseteq 1 .. Len(Piece)
    OBVIOUS
<1>8. Count = Cardinality(J)
    BY DEF Count
<1> HIDE DEF J
<1>9. IsFiniteSet(J) /\ Cardinality(J) <= Cardinality(1 .. Len(Piece))
    BY <1>6, <1>7, FS_Subset
<1>10. Cardinality(J) \in Nat
    BY <1>9, FS_CardinalityType
<1> QED BY <1>2, <1>5, <1>6, <1>8, <1>9, <1>10

-----------------------------------------------------------------------------
(* Rows and lines *)

LEMMA Division ==
    ASSUME NEW n \in Int, NEW d \in Nat \ {0}
    PROVE  /\ n \div d \in Int /\ n % d \in 0 .. d - 1
           /\ n = (n \div d) * d + (n % d)
OBVIOUS

\* Lines in order are rows in order.
LEMMA TimesOrder ==
    ASSUME NEW a \in Int, NEW b \in Int, NEW d \in Nat \ {0}
    PROVE  /\ a * d \in Int /\ (a + 1) * d = a * d + d /\ (a - 1) * d = a * d - d
           /\ a <= b => a * d <= b * d
           /\ a * d < b * d + d => a <= b
OBVIOUS

LEMMA DivisionUnique ==
    ASSUME NEW q \in Int, NEW d \in Nat \ {0}, NEW r \in 0 .. d - 1
    PROVE  (q * d + r) \div d = q /\ (q * d + r) % d = r
OBVIOUS

LEMMA Sizes ==
    /\ Rows \in Nat /\ MaxTop \in Nat /\ Lines \in Nat
    /\ MaxTop + Height = Rows
    /\ Lines * CharHeight <= Rows /\ Rows < Lines * CharHeight + CharHeight
<1>1. Rows \in Nat /\ MaxTop \in Nat /\ MaxTop + Height = Rows
    BY ScreenAssumption DEF Rows, MaxTop
<1>2. Rows \in Int /\ CharHeight \in Nat \ {0}
    BY <1>1, ScreenAssumption
<1>3. /\ Lines \in Int
      /\ Rows = Lines * CharHeight + (Rows % CharHeight)
      /\ Rows % CharHeight \in 0 .. CharHeight - 1
    BY <1>2, Division DEF Lines
<1>4. Lines * CharHeight <= Rows /\ Rows < Lines * CharHeight + CharHeight
    BY <1>2, <1>3
<1>5. 0 <= Lines
    <2>1. 0 * CharHeight = 0 /\ Lines * CharHeight \in Int
        BY <1>2, <1>3
    <2>2. 0 * CharHeight < Lines * CharHeight + CharHeight
        BY <1>1, <1>2, <1>4, <2>1
    <2> QED BY <1>2, <1>3, <2>2, TimesOrder
<1> QED BY <1>1, <1>3, <1>4, <1>5

\* A line that is in the buffer has its rows in it.
LEMMA LineFits ==
    ASSUME NEW y \in Int
    PROVE  y * CharHeight + CharHeight <= Rows <=> y < Lines
<1>1. CharHeight \in Nat \ {0} /\ Lines \in Int
    BY ScreenAssumption, Sizes
<1>2. y + 1 \in Int /\ (y + 1) * CharHeight = y * CharHeight + CharHeight
    BY <1>1, TimesOrder
<1>3. ASSUME y < Lines PROVE y * CharHeight + CharHeight <= Rows
    <2>1. (y + 1) * CharHeight <= Lines * CharHeight
        BY <1>1, <1>2, <1>3, TimesOrder
    <2> QED BY <1>1, <1>2, <2>1, Sizes
<1>4. ASSUME y * CharHeight + CharHeight <= Rows PROVE y < Lines
    <2>1. (y + 1) * CharHeight < Lines * CharHeight + CharHeight
        BY <1>1, <1>2, <1>4, Sizes
    <2>2. y + 1 <= Lines
        BY <1>1, <1>2, <2>1, TimesOrder
    <2> QED BY <1>1, <2>2
<1> QED BY <1>3, <1>4

\* A character within a line covers the rows of that line and the place of
\* one character.
LEMMA PlaceOf ==
    ASSUME NEW x \in 0 .. Cols - 1, NEW y \in Nat
    PROVE  /\ Row(x, y) = y * CharHeight /\ Row(x, y) % CharHeight = 0
           /\ Touched(x, y) = {y * Cols + x}
           /\ Fits(x, y) <=> y < Lines
           /\ Fits(x, y) => y * Cols + x \in Cell
<1>1. CharHeight \in Nat \ {0} /\ Cols \in Nat \ {0}
    BY ScreenAssumption
<1>2. x \div Cols = 0 /\ x % Cols = x
    <2>1. 0 * Cols + x = x
        BY <1>1
    <2> QED BY <1>1, <2>1, DivisionUnique
<1>3. Row(x, y) = y * CharHeight
    BY <1>1, <1>2 DEF Row
<1>4. /\ Row(x, y) % CharHeight = 0 /\ Row(x, y) \div CharHeight = y
      /\ (Row(x, y) + CharHeight - 1) \div CharHeight = y
    <2>1. 0 \in 0 .. CharHeight - 1 /\ CharHeight - 1 \in 0 .. CharHeight - 1
        BY <1>1
    <2>2. /\ (y * CharHeight + 0) \div CharHeight = y
          /\ (y * CharHeight + 0) % CharHeight = 0
          /\ (y * CharHeight + (CharHeight - 1)) \div CharHeight = y
        BY <1>1, <2>1, DivisionUnique
    <2>3. /\ y * CharHeight + 0 = Row(x, y)
          /\ y * CharHeight + (CharHeight - 1) = Row(x, y) + CharHeight - 1
        BY <1>1, <1>3
    <2> QED BY <2>2, <2>3
<1>5. Touched(x, y) = {y * Cols + x}
    <2>1. Touched(x, y) = {l * Cols + x : l \in y .. y}
        BY <1>2, <1>4 DEF Touched
    <2>2. \A l : l \in y .. y <=> l = y
        OBVIOUS
    <2> QED BY <2>1, <2>2
<1>6. Fits(x, y) <=> y < Lines
    BY <1>3, LineFits DEF Fits
<1>7. ASSUME y < Lines PROVE y * Cols + x \in Cell
    <2>1. y + 1 <= Lines /\ Lines \in Nat
        BY <1>7, Sizes
    <2>2. (y + 1) * Cols <= Lines * Cols /\ (y + 1) * Cols = y * Cols + Cols
        BY <1>1, <2>1, TimesOrder
    <2>3. y * Cols \in Nat /\ Lines * Cols \in Nat
        BY <1>1, <2>1
    <2> QED BY <1>1, <2>2, <2>3 DEF Cell
<1> QED BY <1>3, <1>4, <1>5, <1>6, <1>7

\* What drawing one character within a line changes.
LEMMA PaintedOne ==
    ASSUME NEW x \in 0 .. Cols - 1, NEW y \in Nat, NEW c
    PROVE  /\ DOMAIN Painted(x, y, c) = Cell
           /\ \A p \in Cell : Painted(x, y, c)[p] = IF p = y * Cols + x THEN c ELSE cells[p]
BY PlaceOf DEF Painted

LEMMA ConstantsType ==
    /\ Cols \in Nat \ {0} /\ CharHeight \in Nat \ {0} /\ Height \in Nat /\ Height > CharHeight
    /\ MaxWrites \in Nat
BY ScreenAssumption

-----------------------------------------------------------------------------
(* The induction *)

LEMMA NothingDrawn == <<>> \in Seq(Bytes) /\ Len(<<>>) = 0 /\ DOMAIN <<>> = {}
BY EmptySeq

LEMMA InitInv == Init => ScreenInv
<1> SUFFICES ASSUME Init PROVE ScreenInv
    OBVIOUS
<1> USE DEF Init
<1>1. CursorSafe
    <2>1. 0 \in 0 .. MaxTop /\ 0 \in 0 .. MaxWrites
        BY ConstantsType, Sizes
    <2>2. DOMAIN cells = Cell
        OBVIOUS
    <2>3. /\ top \in 0 .. MaxTop /\ writes \in 0 .. MaxWrites
          /\ cursor_x \in Int /\ cursor_y \in Int
        BY <2>1
    <2>4. fault = "no" /\ moved \in BOOLEAN /\ paged \in BOOLEAN /\ gap \in BOOLEAN
        OBVIOUS
    <2> HIDE DEF Init
    <2> QED BY <2>2, <2>3, <2>4 DEF CursorSafe, TypeOK
<1>2. Place = 0
    BY ConstantsType DEF Place
<1>3. TextsTyped /\ OnScreen
    BY <1>2, ConstantsType, NothingDrawn DEF TextsTyped, OnScreen
<1>4. WindowAbove
    <2>1. 0 \div CharHeight = 0
        <3>1. 0 * CharHeight + 0 = 0 /\ 0 \in 0 .. CharHeight - 1
            BY ConstantsType
        <3> QED BY <3>1, ConstantsType, DivisionUnique
    <2> QED BY <2>1 DEF WindowAbove
<1>5. CursorNear
    BY ConstantsType DEF CursorNear
<1>6. LineDrawn
    BY NothingDrawn DEF LineDrawn
<1> QED BY <1>1, <1>3, <1>4, <1>5, <1>6 DEF ScreenInv

\* Steps that draw nothing and leave the cursor and the window alone.
LEMMA QuietKeeps ==
    ASSUME ScreenInv, UNCHANGED <<Buffer, Cursor, History, fault>>,
           text' \in Seq(Bytes), chunk' \in Seq(Bytes), writes' \in 0 .. MaxWrites
    PROVE  ScreenInv'
<1> USE DEF Buffer, Cursor, History
<1>1. CursorSafe'
    BY DEF ScreenInv, CursorSafe, TypeOK
<1>2. TextsTyped' /\ OnScreen' /\ WindowAbove' /\ CursorNear'
    BY DEF ScreenInv, TextsTyped, OnScreen, WindowAbove, CursorNear, Place
<1>3. LineDrawn'
    BY DEF ScreenInv, LineDrawn, Place, Running
<1> QED BY <1>1, <1>2, <1>3 DEF ScreenInv

\* A panic leaves everything but the text as it is.
LEMMA PanicKeeps ==
    ASSUME ScreenInv, UNCHANGED <<Buffer, Cursor, History, chunk, writes>>,
           text' \in Seq(Bytes), fault' \in {"wide", "number", "cursor", "clear", "full"},
           ~ moved => /\ fault' # "cursor"
                      /\ fault' = "clear" => paged
                      /\ fault' = "full" => cursor_y >= Lines - 1
    PROVE  ScreenInv'
<1> USE DEF Buffer, Cursor, History
<1>1. CursorSafe'
    BY DEF ScreenInv, CursorSafe, TypeOK
<1>2. TextsTyped' /\ OnScreen' /\ WindowAbove' /\ CursorNear'
    BY DEF ScreenInv, TextsTyped, OnScreen, WindowAbove, CursorNear, Place
<1>3. LineDrawn'
    BY DEF LineDrawn, Running
<1> QED BY <1>1, <1>2, <1>3 DEF ScreenInv

\* A step that moves the cursor: all that is left to keep are the types.
LEMMA MoveKeeps ==
    ASSUME ScreenInv, cursor_x' \in Int, cursor_y' \in Int, line' = <<>>, moved' = TRUE,
           text' \in Seq(Bytes), chunk' \in Seq(Bytes),
           UNCHANGED <<Buffer, fault, writes, paged, gap>>
    PROVE  ScreenInv'
<1> USE DEF Buffer
<1>1. CursorSafe'
    BY DEF ScreenInv, CursorSafe, TypeOK
<1>2. TextsTyped' /\ OnScreen' /\ WindowAbove' /\ CursorNear'
    BY NothingDrawn DEF ScreenInv, TextsTyped, OnScreen, WindowAbove, CursorNear
<1>3. LineDrawn'
    BY NothingDrawn DEF LineDrawn
<1> QED BY <1>1, <1>2, <1>3 DEF ScreenInv

\* The window when it is moved by a line
LEMMA WindowMoves ==
    ASSUME TypeOK
    PROVE  /\ Down \in 0 .. MaxTop /\ top <= Down /\ Down <= top + CharHeight
           /\ Down = top + CharHeight \/ Down = MaxTop
           /\ Up \in 0 .. MaxTop /\ Up <= top
BY ConstantsType, Sizes DEF TypeOK, Down, Up

\* The text behind an escape sequence
LEMMA SequenceText ==
    ASSUME TextsTyped, NEW f, Sequence(f)
    PROVE  text' \in Seq(Bytes) /\ chunk' \in Seq(Bytes) /\ Running /\ IsSequence
<1>1. Running /\ IsSequence /\ text' = SubSeq(text, End + 1, Len(text)) /\ chunk' = chunk
    BY DEF Sequence, Parsing
<1>2. End \in 3 .. Len(text) /\ Len(text) \in Nat
    BY <1>1, EndFacts, LenProperties DEF TextsTyped, IsSequence
<1>3. \A i \in End + 1 .. Len(text) : text[i] \in Bytes
    BY <1>2, ElementOfSeq DEF TextsTyped
<1>4. End + 1 \in Int /\ Len(text) \in Int
    BY <1>2
<1>5. SubSeq(text, End + 1, Len(text)) \in Seq(Bytes)
    BY <1>3, <1>4, SubSeqProperties
<1> QED BY <1>1, <1>5 DEF TextsTyped

\* The rest of a piece
LEMMA OthersType ==
    ASSUME chunk \in Seq(Bytes), chunk # <<>>
    PROVE  Others \in Seq(Bytes) /\ Head(chunk) \in Bytes
<1>1. Tail(chunk) \in Seq(Bytes) /\ Len(Tail(chunk)) = Len(chunk) - 1 /\ Head(chunk) \in Bytes
    BY HeadTailProperties
<1>2. Len(chunk) > 1 => Tail(chunk) # <<>>
    <2>1. Len(chunk) \in Nat
        BY LenProperties
    <2>2. Tail(chunk) = <<>> => Len(Tail(chunk)) = 0
        BY NothingDrawn
    <2> QED BY <1>1, <2>1, <2>2
<1>3. Tail(chunk) # <<>> => Tail(Tail(chunk)) \in Seq(Bytes)
    BY <1>1, HeadTailProperties
<1> QED BY <1>1, <1>2, <1>3 DEF Others

LEMMA ShortSeq ==
    ASSUME NEW S, NEW a \in S, NEW b \in S
    PROVE  <<a>> \in Seq(S) /\ <<a, b>> \in Seq(S)
OBVIOUS

LEMMA WriteKeeps ==
    ASSUME ScreenInv,
           \/ \E t \in Texts : WriteStr(t)
           \/ \E c \in Keystrokes : WriteChar(c)
    PROVE  ScreenInv'
<1>1. writes \in 0 .. MaxWrites /\ text \in Seq(Bytes) /\ chunk \in Seq(Bytes)
    BY DEF ScreenInv, CursorSafe, TypeOK, TextsTyped
<1>2. ASSUME NEW t \in Texts, WriteStr(t) PROVE ScreenInv'
    <2>1. t \in Seq(Bytes)
        BY ScreenAssumption, SeqMonotonic DEF Bytes
    <2>2. writes' \in 0 .. MaxWrites
        BY <1>1, <1>2, ConstantsType DEF WriteStr
    <2> QED BY <1>1, <1>2, <2>1, <2>2, QuietKeeps DEF WriteStr
<1>3. ASSUME NEW c \in Keystrokes, WriteChar(c) PROVE ScreenInv'
    <2>1. c \in Seq(Bytes)
        <3>1. \A a, b \in Bytes : <<a>> \in Seq(Bytes) /\ <<a, b>> \in Seq(Bytes)
            BY ShortSeq
        <3>2. /\ "c" \in Bytes /\ "w" \in Bytes
              /\ Newline \in Bytes /\ Continuation \in Bytes
            BY DEF Bytes
        <3>3. c = <<"c">> \/ c = <<"w", Continuation>> \/ c = <<Newline>>
            BY DEF Keystrokes
        <3> QED BY <3>1, <3>2, <3>3
    <2>2. writes' \in 0 .. MaxWrites
        BY <1>1, <1>3, ConstantsType DEF WriteChar
    <2> QED BY <1>1, <1>3, <2>1, <2>2, QuietKeeps DEF WriteChar
<1> QED BY <1>2, <1>3

LEMMA TakePieceKeeps ==
    ASSUME ScreenInv, TakePiece
    PROVE  ScreenInv'
<1>1. /\ text \in Seq(Bytes) /\ chunk \in Seq(Bytes) /\ writes \in 0 .. MaxWrites
      /\ text # <<>> /\ writes' = writes /\ UNCHANGED <<Buffer, Cursor, History>>
    BY DEF ScreenInv, CursorSafe, TypeOK, TextsTyped, TakePiece, Parsing
<1>2. CASE text' = <<>> /\ UNCHANGED <<chunk, fault>>
    BY <1>1, <1>2, NothingDrawn, QuietKeeps
<1>3. CASE fault' = "wide" /\ UNCHANGED <<text, chunk>>
    BY <1>1, <1>3, PanicKeeps
<1>4. CASE /\ chunk' = SubSeq(text, 1, Count)
           /\ text' = SubSeq(text, Count + 1, Len(text))
           /\ UNCHANGED fault
    <2>1. Count \in 0 .. Len(text) /\ Len(text) \in Nat
        BY <1>1, CountFacts, LenProperties
    <2>2. Count \in Int /\ Count + 1 \in Int /\ Len(text) \in Int /\ 1 \in Int
        BY <2>1
    <2>3. /\ \A i \in 1 .. Count : text[i] \in Bytes
          /\ \A i \in Count + 1 .. Len(text) : text[i] \in Bytes
        BY <1>1, <2>1, ElementOfSeq
    <2>4. SubSeq(text, 1, Count) \in Seq(Bytes)
        BY <2>2, <2>3, SubSeqProperties
    <2>5. SubSeq(text, Count + 1, Len(text)) \in Seq(Bytes)
        BY <2>2, <2>3, SubSeqProperties
    <2> QED BY <1>1, <1>4, <2>4, <2>5, QuietKeeps
<1> QED BY <1>2, <1>3, <1>4 DEF TakePiece

LEMMA OverflowKeeps ==
    ASSUME ScreenInv, Overflow
    PROVE  ScreenInv'
BY PanicKeeps DEF Overflow, Panic, ScreenInv, TextsTyped

\* The sequences that move the cursor, by any number or to any place
LEMMA CursorMoves ==
    ASSUME ScreenInv,
           CursorUp \/ CursorDown \/ CursorForward \/ CursorBackward \/ CursorPos
    PROVE  ScreenInv'
<1>1. cursor_x \in Int /\ cursor_y \in Int /\ TextsTyped /\ text \in Seq(Bytes)
    BY DEF ScreenInv, CursorSafe, TypeOK, TextsTyped
<1>2. ASSUME NEW f, Sequence(f), NEW x \in Int, NEW y \in Int, Move(x, y)
      PROVE  ScreenInv'
    <2>1. text' \in Seq(Bytes) /\ chunk' \in Seq(Bytes) /\ writes' = writes
        BY <1>1, <1>2, SequenceText DEF Sequence
    <2> QED BY <1>2, <2>1, MoveKeeps DEF Move
<1>3. ASSUME NEW f, Sequence(f) PROVE Param \in Nat /\ Numbers \in Seq(Nat)
    BY <1>1, <1>3, SequenceText, NumbersType
<1>4. CASE CursorUp
    <2>1. cursor_y - Param \in Int
        BY <1>1, <1>3, <1>4 DEF CursorUp
    <2> QED BY <1>1, <1>2, <1>4, <2>1 DEF CursorUp
<1>5. CASE CursorDown
    <2>1. cursor_y + Param \in Int
        BY <1>1, <1>3, <1>5 DEF CursorDown
    <2> QED BY <1>1, <1>2, <1>5, <2>1 DEF CursorDown
<1>6. CASE CursorForward
    <2>1. cursor_x + Param \in Int
        BY <1>1, <1>3, <1>6 DEF CursorForward
    <2> QED BY <1>1, <1>2, <1>6, <2>1 DEF CursorForward
<1>7. CASE CursorBackward
    <2>1. cursor_x - Param \in Int
        BY <1>1, <1>3, <1>7 DEF CursorBackward
    <2> QED BY <1>1, <1>2, <1>7, <2>1 DEF CursorBackward
<1>8. CASE CursorPos
    <2> DEFINE x == IF Len(Numbers) = 2 THEN Numbers[2] ELSE 1
               y == IF Numbers = <<>> THEN 1 ELSE Numbers[1]
    <2>1. Numbers \in Seq(Nat)
        BY <1>3, <1>8 DEF CursorPos
    <2>2. Numbers # <<>> => Len(Numbers) \in Nat \ {0}
        BY <2>1, EmptySeq
    <2>3. \A i \in 1 .. Len(Numbers) : Numbers[i] \in Nat
        BY <2>1, ElementOfSeq
    <2>4. x \in Int /\ y \in Int
        BY <2>2, <2>3
    <2>5. Sequence("H") /\ Move(x, y)
        BY <1>8 DEF CursorPos
    <2> HIDE DEF x, y
    <2> QED BY <1>2, <2>4, <2>5
<1> QED BY <1>4, <1>5, <1>6, <1>7, <1>8

LEMMA SetGraphicsModeKeeps ==
    ASSUME ScreenInv, SetGraphicsMode
    PROVE  ScreenInv'
<1>1. TextsTyped /\ writes \in 0 .. MaxWrites
    BY DEF ScreenInv, CursorSafe, TypeOK
<1>2. text' \in Seq(Bytes) /\ chunk' \in Seq(Bytes) /\ writes' = writes
    BY <1>1, SequenceText DEF SetGraphicsMode, Sequence
<1> QED BY <1>1, <1>2, QuietKeeps DEF SetGraphicsMode

\* The place of a cursor that is on the screen
LEMMA PlaceType ==
    ASSUME cursor_x \in Int, cursor_y \in Int
    PROVE  Place \in Int /\ cursor_y * Cols \in Int /\ cursor_y * CharHeight \in Int
BY ConstantsType DEF Place

\* clear when the window is where it was: the cursor is as far from its start
\* as it was from the window's.
LEMMA ClearedFacts ==
    ASSUME ScreenInv, ~ ClearPanics
    PROVE  /\ ClearedY \in Int
           /\ cursor_y >= 0 => ClearedY >= 0
           /\ ClearedY * CharHeight = cursor_y * CharHeight - top + (top % CharHeight)
           /\ ClearedY <= cursor_y
<1> DEFINE q == top \div CharHeight
<1>1. top \in Nat /\ cursor_y \in Int /\ CharHeight \in Nat \ {0}
    BY ConstantsType, Sizes DEF ScreenInv, CursorSafe, TypeOK
<1>2. q \in Int /\ top % CharHeight \in 0 .. CharHeight - 1
      /\ top = q * CharHeight + (top % CharHeight)
    BY <1>1, Division
<1>3. ClearedY = cursor_y - q
    BY DEF ClearedY
<1> HIDE DEF q
<1>4. q >= 0
    <2>1. 0 * CharHeight < q * CharHeight + CharHeight
        BY <1>1, <1>2
    <2> QED BY <1>1, <1>2, <2>1, TimesOrder
<1>5. (cursor_y - q) * CharHeight = cursor_y * CharHeight - q * CharHeight
    BY <1>1, <1>2
<1>6. cursor_y >= 0 => cursor_y - q >= 0
    BY <1>1, <1>2, <1>3 DEF ClearPanics, Huge
<1>7. cursor_y * CharHeight \in Int /\ q * CharHeight \in Int
    BY <1>1, <1>2
<1> QED BY <1>1, <1>2, <1>3, <1>4, <1>5, <1>6, <1>7

LEMMA ZeroDivided == 0 \div CharHeight = 0
<1>1. 0 * CharHeight + 0 = 0 /\ 0 \in 0 .. CharHeight - 1
    BY ConstantsType
<1> QED BY <1>1, ConstantsType, DivisionUnique

LEMMA EraseDisplayKeeps ==
    ASSUME ScreenInv, EraseDisplay
    PROVE  ScreenInv'
<1>1. TextsTyped /\ TypeOK /\ OnScreen
    BY DEF ScreenInv, CursorSafe
<1>2. /\ text' \in Seq(Bytes) /\ chunk' \in Seq(Bytes) /\ chunk' = chunk /\ writes' = writes
      /\ Running
    BY <1>1, SequenceText DEF EraseDisplay, Sequence
<1>3. CASE ClearPanics
    <2>1. fault' = "clear" /\ UNCHANGED <<Buffer, Cursor, History>>
        BY <1>3 DEF EraseDisplay
    <2>2. ~ moved => paged
        <3> SUFFICES ASSUME ~ moved, ~ paged PROVE FALSE
            OBVIOUS
        <3>1. top \div CharHeight <= cursor_y
            BY DEF ScreenInv, WindowAbove
        <3>2. top \div CharHeight \in Int /\ cursor_y \in Int
            BY <1>1, ConstantsType, Sizes, Division DEF TypeOK
        <3> QED BY <1>3, <3>1, <3>2 DEF ClearPanics, ClearedY, Huge
    <2> QED BY <1>2, <2>1, <2>2, PanicKeeps
<1>4. CASE ~ ClearPanics
    <2>1. /\ cells' = [i \in Cell |-> Blank] /\ top' = 0 /\ line' = <<>> /\ paged' = FALSE
          /\ cursor_y' = ClearedY /\ gap' = (gap \/ top % CharHeight # 0)
          /\ cursor_x' = cursor_x /\ fault' = fault /\ moved' = moved
        BY <1>4 DEF EraseDisplay, Clear
    <2>2. /\ ClearedY \in Int /\ (cursor_y >= 0 => ClearedY >= 0)
          /\ ClearedY * CharHeight = cursor_y * CharHeight - top + (top % CharHeight)
        BY <1>4, ClearedFacts
    <2>3. DOMAIN cells' = Cell /\ \A p \in Cell : cells'[p] = Blank
        BY <2>1
    <2>4. 0 \in 0 .. MaxTop
        BY Sizes
    <2>5. CursorSafe'
        <3>1. TypeOK'
            BY <1>1, <1>2, <2>1, <2>2, <2>3, <2>4 DEF TypeOK
        <3>2. fault' = "no"
            BY <1>2, <2>1 DEF Running
        <3> QED BY <3>1, <3>2 DEF CursorSafe
    <2>6. TextsTyped'
        BY <1>2, <2>1, NothingDrawn DEF TextsTyped
    <2>7. OnScreen'
        <3> SUFFICES ASSUME ~ moved
                     PROVE  cursor_x \in 0 .. Cols /\ ClearedY \in Nat /\ 0 <= Place'
            BY <2>1, NothingDrawn DEF OnScreen
        <3>1. cursor_x \in 0 .. Cols /\ cursor_y \in Nat
            BY <1>1 DEF OnScreen
        <3>2. ClearedY \in Nat
            BY <2>2, <3>1
        <3>3. ClearedY * Cols \in Nat
            BY <3>2, ConstantsType
        <3> QED BY <2>1, <3>1, <3>2, <3>3, ConstantsType DEF Place
    <2>8. WindowAbove'
        <3> SUFFICES ASSUME ~ moved PROVE 0 <= ClearedY
            BY <2>1, ZeroDivided DEF WindowAbove
        <3> QED BY <1>1, <2>2 DEF OnScreen
    <2>9. CursorNear'
        <3> SUFFICES ASSUME ~ moved, ~ gap, top % CharHeight = 0
                     PROVE  /\ ClearedY * CharHeight <= 0 + Height
                            /\ cursor_x > 0 => ClearedY * CharHeight + CharHeight <= 0 + Height
            BY <2>1 DEF CursorNear
        <3>1. /\ cursor_y * CharHeight <= top + Height
              /\ cursor_x > 0 => cursor_y * CharHeight + CharHeight <= top + Height
            BY DEF ScreenInv, CursorNear
        <3>2. top \in Int /\ cursor_y * CharHeight \in Int
            BY <1>1, Sizes, PlaceType DEF TypeOK
        <3> QED BY <2>2, <3>1, <3>2, ConstantsType
    <2>10. LineDrawn'
        BY <2>1, <2>3, NothingDrawn DEF LineDrawn
    <2> QED BY <2>5, <2>6, <2>7, <2>8, <2>9, <2>10 DEF ScreenInv
<1> QED BY <1>3, <1>4

LEMMA ClearAllKeeps ==
    ASSUME ScreenInv, ClearAll
    PROVE  ScreenInv'
<1>1. TextsTyped /\ TypeOK /\ OnScreen /\ Running
    BY DEF ScreenInv, CursorSafe, ClearAll, Idle
<1>2. CASE ClearPanics
    <2>1. ~ moved => paged
        <3> SUFFICES ASSUME ~ moved, ~ paged PROVE FALSE
            OBVIOUS
        <3>1. top \div CharHeight <= cursor_y
            BY DEF ScreenInv, WindowAbove
        <3>2. top \div CharHeight \in Int /\ cursor_y \in Int
            BY <1>1, ConstantsType, Sizes, Division DEF TypeOK
        <3> QED BY <1>2, <3>1, <3>2 DEF ClearPanics, ClearedY, Huge
    <2> QED BY <1>1, <1>2, <2>1, PanicKeeps DEF ClearAll, Panic, TextsTyped
<1>3. CASE ~ ClearPanics
    <2>1. /\ cells' = [i \in Cell |-> Blank] /\ top' = 0 /\ line' = <<>> /\ paged' = FALSE
          /\ cursor_x' = 0 /\ cursor_y' = 0 /\ moved' = FALSE /\ gap' = FALSE
          /\ UNCHANGED <<text, chunk, fault, writes>>
        BY <1>3 DEF ClearAll, Clear
    <2>2. DOMAIN cells' = Cell /\ \A p \in Cell : cells'[p] = Blank
        BY <2>1
    <2>3. CursorSafe'
        <3>1. 0 \in 0 .. MaxTop
            BY Sizes
        <3>2. moved' \in BOOLEAN /\ paged' \in BOOLEAN /\ gap' \in BOOLEAN
            BY <2>1
        <3>3. cursor_x' \in Int /\ cursor_y' \in Int /\ top' \in 0 .. MaxTop
            BY <2>1, <3>1
        <3>4. fault' = "no" /\ writes' \in 0 .. MaxWrites
            BY <1>1, <2>1 DEF TypeOK, Running
        <3> QED BY <2>2, <3>2, <3>3, <3>4 DEF CursorSafe, TypeOK
    <2>4. TextsTyped'
        BY <1>1, <2>1, NothingDrawn DEF TextsTyped
    <2>5. OnScreen'
        BY <2>1, NothingDrawn, ConstantsType DEF OnScreen, Place
    <2>6. WindowAbove'
        BY <2>1, ZeroDivided DEF WindowAbove
    <2>7. CursorNear'
        BY <2>1, ConstantsType DEF CursorNear
    <2>8. LineDrawn'
        BY <2>1, <2>2, NothingDrawn DEF LineDrawn
    <2> QED BY <2>3, <2>4, <2>5, <2>6, <2>7, <2>8 DEF ScreenInv
<1> QED BY <1>2, <1>3

LEMMA PutNewlineKeeps ==
    ASSUME ScreenInv, PutNewline
    PROVE  ScreenInv'
<1>1. TextsTyped /\ TypeOK /\ OnScreen /\ Running /\ chunk # <<>>
    BY DEF ScreenInv, CursorSafe, PutNewline
<1>2. CASE cursor_y = -1
    <2>1. moved
        BY <1>1, <1>2 DEF OnScreen
    <2> QED BY <1>1, <1>2, <2>1, PanicKeeps DEF PutNewline, Panic, TextsTyped
<1>3. CASE cursor_y # -1
    <2>1. /\ cursor_x' = 0 /\ cursor_y' = cursor_y + 1 /\ chunk' = Others /\ line' = <<>>
          /\ gap' = (gap \/ (line = <<>> /\ cursor_y # 0))
          /\ UNCHANGED <<cells, top, text, fault, writes, moved, paged>>
        BY <1>3 DEF PutNewline, Buffer
    <2>2. /\ cursor_x \in Int /\ cursor_y \in Int /\ top \in Int
          /\ top \div CharHeight \in Int /\ cursor_y * Cols \in Int
          /\ cursor_y * CharHeight \in Int
          /\ (cursor_y + 1) * Cols = cursor_y * Cols + Cols
          /\ (cursor_y + 1) * CharHeight = cursor_y * CharHeight + CharHeight
        BY <1>1, ConstantsType, Sizes, Division, TimesOrder DEF TypeOK
    <2>3. CursorSafe'
        <3>1. gap' \in BOOLEAN
            BY <1>1, <2>1 DEF TypeOK
        <3>2. TypeOK'
            BY <1>1, <2>1, <2>2, <3>1 DEF TypeOK
        <3>3. fault' = "no"
            BY <1>1, <2>1 DEF Running
        <3> QED BY <3>2, <3>3 DEF CursorSafe
    <2>4. TextsTyped'
        BY <1>1, <2>1, OthersType, NothingDrawn DEF TextsTyped
    <2>5. ~ moved => /\ cursor_x \in 0 .. Cols /\ cursor_y \in Nat
                     /\ Place' \in Nat /\ Place <= Place'
        <3> SUFFICES ASSUME ~ moved
                     PROVE  cursor_x \in 0 .. Cols /\ cursor_y \in Nat
                            /\ Place' \in Nat /\ Place <= Place'
            OBVIOUS
        <3>1. cursor_x \in 0 .. Cols /\ cursor_y \in Nat
            BY <1>1 DEF OnScreen
        <3>2. cursor_y * Cols \in Nat
            BY <3>1, ConstantsType
        <3>3. Place = cursor_y * Cols + cursor_x /\ Place' = cursor_y * Cols + Cols
            BY <2>1, <2>2, ConstantsType DEF Place
        <3> QED BY <3>1, <3>2, <3>3, ConstantsType
    <2>6. OnScreen'
        BY <2>1, <2>5, NothingDrawn, ConstantsType DEF OnScreen
    <2>7. WindowAbove'
        BY <2>1, <2>2 DEF ScreenInv, WindowAbove
    <2>8. CursorNear'
        <3> SUFFICES ASSUME ~ moved', ~ gap'
                     PROVE  /\ cursor_y' * CharHeight <= top' + Height
                            /\ ~ (line' # <<>> \/ cursor_x' > 0)
            BY DEF CursorNear
        <3>1. ~ moved /\ ~ gap /\ (line # <<>> \/ cursor_y = 0)
            BY <2>1
        <3>2. ~ (line' # <<>> \/ cursor_x' > 0)
            BY <2>1
        <3> SUFFICES cursor_y * CharHeight + CharHeight <= top + Height
            BY <2>1, <2>2, <3>2
        <3>3. CASE line # <<>>
            BY <3>1, <3>3 DEF ScreenInv, CursorNear
        <3>4. CASE cursor_y = 0
            <4>1. cursor_y * CharHeight = 0 /\ top >= 0
                BY <1>1, <3>4, ConstantsType, Sizes DEF TypeOK
            <4> QED BY <2>2, <4>1, ConstantsType
        <3> QED BY <3>1, <3>3, <3>4
    <2>9. LineDrawn'
        <3>1. ~ moved => \A p \in Cell : p >= Place' => cells'[p] = Blank
            <4> SUFFICES ASSUME ~ moved, NEW p \in Cell, p >= Place' PROVE cells[p] = Blank
                BY <2>1
            <4>1. p \in Int /\ Place \in Int
                BY <2>2, PlaceType DEF Cell
            <4>2. p >= Place
                BY <2>5, <4>1
            <4> QED BY <1>1, <4>2 DEF ScreenInv, LineDrawn
        <3> QED BY <2>1, <3>1, NothingDrawn DEF LineDrawn
    <2> QED BY <2>3, <2>4, <2>6, <2>7, <2>8, <2>9 DEF ScreenInv
<1> QED BY <1>2, <1>3

LEMMA PutReturnKeeps ==
    ASSUME ScreenInv, PutReturn
    PROVE  ScreenInv'
<1>1. cursor_y \in Int /\ TextsTyped /\ chunk # <<>>
    BY DEF ScreenInv, CursorSafe, TypeOK, PutReturn
<1>2. Others \in Seq(Bytes) /\ text \in Seq(Bytes)
    BY <1>1, OthersType DEF TextsTyped
<1>3. /\ cursor_x' = 0 /\ cursor_y' = cursor_y /\ line' = <<>> /\ moved' = TRUE
      /\ chunk' = Others /\ text' = text /\ UNCHANGED <<Buffer, fault, writes, paged, gap>>
    BY DEF PutReturn
<1>4. cursor_x' \in Int /\ cursor_y' \in Int
    BY <1>1, <1>3
<1> QED BY <1>2, <1>3, <1>4, MoveKeeps

LEMMA PageDownKeeps ==
    ASSUME ScreenInv, PageDown
    PROVE  ScreenInv'
<1>1. TypeOK /\ top' = Down /\ paged' = TRUE
      /\ UNCHANGED <<cells, cursor_x, cursor_y, text, chunk, fault, writes, line, moved, gap>>
    BY DEF ScreenInv, CursorSafe, PageDown, Cursor
<1>2. Down \in 0 .. MaxTop /\ top <= Down
    BY <1>1, WindowMoves
<1>3. CursorSafe'
    BY <1>1, <1>2 DEF ScreenInv, CursorSafe, TypeOK
<1>4. TextsTyped' /\ OnScreen' /\ WindowAbove'
    BY <1>1 DEF ScreenInv, TextsTyped, OnScreen, WindowAbove, Place
<1>5. CursorNear'
    <2> SUFFICES ASSUME ~ gap, ~ moved
                 PROVE  /\ cursor_y * CharHeight <= Down + Height
                        /\ line # <<>> \/ cursor_x > 0
                             => cursor_y * CharHeight + CharHeight <= Down + Height
        BY <1>1 DEF CursorNear
    <2>1. /\ cursor_y * CharHeight \in Int /\ top \in Int /\ Down \in Int /\ top <= Down
        BY <1>1, <1>2, Sizes, PlaceType DEF TypeOK
    <2>2. /\ cursor_y * CharHeight <= top + Height
          /\ line # <<>> \/ cursor_x > 0
               => cursor_y * CharHeight + CharHeight <= top + Height
        BY DEF ScreenInv, CursorNear
    <2> DEFINE rows == cursor_y * CharHeight
    <2> HIDE DEF rows
    <2> QED BY <2>1, <2>2, ConstantsType DEF rows
<1>6. LineDrawn'
    BY <1>1 DEF ScreenInv, LineDrawn, Place, Running
<1> QED BY <1>3, <1>4, <1>5, <1>6 DEF ScreenInv

LEMMA PageUpKeeps ==
    ASSUME ScreenInv, PageUp
    PROVE  ScreenInv'
<1>1. TypeOK /\ top' = Up /\ gap' = TRUE
      /\ UNCHANGED <<cells, cursor_x, cursor_y, text, chunk, fault, writes, line, moved, paged>>
    BY DEF ScreenInv, CursorSafe, PageUp, Cursor
<1>2. Up \in 0 .. MaxTop /\ Up <= top
    BY <1>1, WindowMoves
<1>3. CursorSafe'
    BY <1>1, <1>2 DEF ScreenInv, CursorSafe, TypeOK
<1>4. TextsTyped' /\ OnScreen' /\ CursorNear'
    BY <1>1 DEF ScreenInv, TextsTyped, OnScreen, CursorNear, Place
<1>5. WindowAbove'
    <2> SUFFICES ASSUME ~ moved, ~ paged PROVE Up \div CharHeight <= cursor_y
        BY <1>1 DEF WindowAbove
    <2>1. top \div CharHeight <= cursor_y
        BY DEF ScreenInv, WindowAbove
    <2>2. Up \div CharHeight <= top \div CharHeight
        <3> DEFINE a == Up \div CharHeight
                   b == top \div CharHeight
        <3>1. /\ a \in Int /\ Up = a * CharHeight + (Up % CharHeight)
              /\ Up % CharHeight \in 0 .. CharHeight - 1
              /\ b \in Int /\ top = b * CharHeight + (top % CharHeight)
              /\ top % CharHeight \in 0 .. CharHeight - 1
            BY <1>1, <1>2, Sizes, ConstantsType, Division DEF TypeOK
        <3> HIDE DEF a, b
        <3>2. a * CharHeight \in Int /\ b * CharHeight \in Int
            BY <3>1, ConstantsType
        <3>3. a * CharHeight < b * CharHeight + CharHeight
            BY <1>1, <1>2, <3>1, <3>2, ConstantsType DEF TypeOK
        <3>4. a <= b
            BY <3>1, <3>3, ConstantsType, TimesOrder
        <3> QED BY <3>4 DEF a, b
    <2>3. Up \div CharHeight \in Int /\ top \div CharHeight \in Int /\ cursor_y \in Int
        BY <1>1, <1>2, Sizes, ConstantsType, Division DEF TypeOK
    <2> QED BY <2>1, <2>2, <2>3
<1>6. LineDrawn'
    BY <1>1 DEF ScreenInv, LineDrawn, Place, Running
<1> QED BY <1>3, <1>4, <1>5, <1>6 DEF ScreenInv

\* Where draw_raster puts the next character: at the cursor, unless a sequence
\* has moved that beyond the end of the line.
LEMMA NextPlace ==
    ASSUME ScreenInv, cursor_x >= 0, cursor_y >= 0,
           NEW x, x = IF Wraps(cursor_x) THEN 0 ELSE cursor_x,
           NEW y, y = IF Wraps(cursor_x) THEN cursor_y + 1 ELSE cursor_y
    PROVE  /\ x \in 0 .. Cols - 1 /\ y \in Nat /\ y * Cols \in Nat /\ y * CharHeight \in Nat
           /\ cursor_y <= y /\ y <= cursor_y + 1
           /\ ~ moved \/ line # <<>> => y * Cols + x = Place
<1>1. cursor_x \in Nat /\ cursor_y \in Nat
    BY DEF ScreenInv, CursorSafe, TypeOK
<1>2. x \in 0 .. Cols - 1 /\ y \in Nat /\ cursor_y <= y /\ y <= cursor_y + 1
    BY <1>1, ConstantsType DEF Wraps
<1>3. y * Cols \in Nat /\ y * CharHeight \in Nat
    BY <1>2, ConstantsType
<1>4. ASSUME ~ moved \/ line # <<>> PROVE y * Cols + x = Place
    <2>1. cursor_x \in 0 .. Cols
        BY <1>4 DEF ScreenInv, OnScreen
    <2>2. CASE cursor_x < Cols
        BY <1>1, <2>2, ConstantsType DEF Wraps, Place
    <2>3. CASE cursor_x = Cols
        <3>1. x = 0 /\ y = cursor_y + 1
            BY <2>3, ConstantsType DEF Wraps
        <3>2. (cursor_y + 1) * Cols = cursor_y * Cols + Cols
            BY <1>1, ConstantsType
        <3>3. cursor_y * Cols \in Nat
            BY <1>1, ConstantsType
        <3> QED BY <2>3, <3>1, <3>2, <3>3, ConstantsType DEF Place
    <2> QED BY <2>1, <2>2, <2>3, ConstantsType
<1> QED BY <1>2, <1>3, <1>4

LEMMA PutCharKeeps ==
    ASSUME ScreenInv, PutChar
    PROVE  ScreenInv'
<1> DEFINE y == IF Wraps(cursor_x) THEN cursor_y + 1 ELSE cursor_y
           x == IF Wraps(cursor_x) THEN 0 ELSE cursor_x
           here == y * Cols + x
<1>1. /\ Running /\ chunk # <<>> /\ TypeOK /\ OnScreen
      /\ text \in Seq(Bytes) /\ chunk \in Seq(Bytes) /\ line \in Seq(Bytes)
    BY DEF ScreenInv, CursorSafe, TextsTyped, PutChar
<1>2. CASE Huge(cursor_x) \/ Huge(cursor_y)
    <2>1. moved
        BY <1>1, <1>2, ConstantsType DEF OnScreen, Huge
    <2> QED BY <1>1, <1>2, <2>1, PanicKeeps DEF PutChar, Panic
<1>3. ASSUME ~ (Huge(cursor_x) \/ Huge(cursor_y))
      PROVE  /\ x \in 0 .. Cols - 1 /\ y \in Nat /\ y * Cols \in Nat /\ y * CharHeight \in Nat
             /\ cursor_y <= y /\ y <= cursor_y + 1
             /\ ~ moved \/ line # <<>> => here = Place
    <2>1. cursor_x >= 0 /\ cursor_y >= 0
        BY <1>1, <1>3 DEF Huge, TypeOK
    <2> QED BY <2>1, NextPlace
<1>4. CASE ~ (Huge(cursor_x) \/ Huge(cursor_y)) /\ ~ Fits(x, y)
    <2>1. fault' = "full" /\ UNCHANGED <<Buffer, Cursor, text, chunk, writes, History>>
        BY <1>4 DEF PutChar, Panic
    <2> HIDE DEF x, y
    <2>2. ~ (y < Lines)
        BY <1>3, <1>4, PlaceOf
    <2>3. cursor_y >= Lines - 1
        BY <1>1, <1>3, <1>4, <2>2, Sizes DEF TypeOK
    <2> QED BY <1>1, <2>1, <2>3, PanicKeeps
<1>5. CASE ~ (Huge(cursor_x) \/ Huge(cursor_y)) /\ Fits(x, y)
    <2>1. /\ cells' = Painted(x, y, Head(chunk))
          /\ top' = IF Below(y) THEN Down ELSE top
          /\ cursor_x' = x + 1 /\ cursor_y' = y
          /\ chunk' = Others /\ line' = Append(line, Head(chunk))
          /\ UNCHANGED <<text, fault, writes, moved, paged, gap>>
        BY <1>5 DEF PutChar
    <2>2. Wraps(cursor_x) => cursor_x > 0 /\ y = cursor_y + 1
        BY <1>1, ConstantsType DEF TypeOK, Wraps
    <2>3. ~ Wraps(cursor_x) => y = cursor_y
        OBVIOUS
    <2> HIDE DEF x, y
    <2>4. /\ x \in 0 .. Cols - 1 /\ y \in Nat /\ y * Cols \in Nat /\ y * CharHeight \in Nat
          /\ cursor_y <= y /\ here \in Nat
          /\ ~ moved \/ line # <<>> => here = Place
        BY <1>3, <1>5, ConstantsType
    <2>5. y < Lines /\ here \in Cell
        BY <1>5, <2>4, PlaceOf
    <2>6. /\ DOMAIN cells' = Cell
          /\ \A p \in Cell : cells'[p] = IF p = here THEN Head(chunk) ELSE cells[p]
        BY <2>1, <2>4, PaintedOne
    <2>7. /\ Others \in Seq(Bytes) /\ line' \in Seq(Bytes)
          /\ line' # <<>> /\ Len(line) \in Nat /\ Len(line') = Len(line) + 1
          /\ DOMAIN line' = 1 .. Len(line) + 1 /\ DOMAIN line = 1 .. Len(line)
          /\ \A i \in 1 .. Len(line) : line'[i] = line[i]
          /\ line'[Len(line) + 1] = Head(chunk)
        BY <1>1, <2>1, OthersType, AppendProperties, LenProperties, SMTT(30)
    <2>8. Place' = here + 1
        BY <2>1, <2>4, ConstantsType DEF Place
    <2> HIDE DEF here
    <2>9. top' \in 0 .. MaxTop /\ top' <= top + CharHeight
        BY <1>1, <2>1, WindowMoves, ConstantsType, Sizes DEF TypeOK
    <2>10. CursorSafe'
        <3>1. cursor_x' \in Int /\ cursor_y' \in Int
            BY <2>1, <2>4, ConstantsType
        <3>2. TypeOK'
            BY <1>1, <2>1, <2>6, <2>9, <3>1 DEF TypeOK
        <3>3. fault' = "no"
            BY <1>1, <2>1 DEF Running
        <3> QED BY <3>2, <3>3 DEF CursorSafe
    <2>11. TextsTyped'
        BY <1>1, <2>1, <2>7 DEF TextsTyped
    <2>12. OnScreen'
        <3>1. x + 1 \in 0 .. Cols
            BY <2>4, ConstantsType
        <3>2. line # <<>> => Len(line) <= here
            BY <1>1, <2>4 DEF OnScreen
        <3>3. line = <<>> => Len(line) = 0
            BY NothingDrawn
        <3>4. Len(line') <= Place'
            BY <2>4, <2>7, <2>8, <3>2, <3>3
        <3> QED BY <2>1, <2>4, <3>1, <3>4 DEF OnScreen
    <2>13. WindowAbove'
        <3> SUFFICES ASSUME ~ moved, ~ paged PROVE top' \div CharHeight <= y
            BY <2>1 DEF WindowAbove
        <3>1. top \div CharHeight <= cursor_y
            BY DEF ScreenInv, WindowAbove
        <3>2. /\ top \div CharHeight \in Int /\ top' \div CharHeight \in Int
              /\ top' = (top' \div CharHeight) * CharHeight + (top' % CharHeight)
              /\ top' % CharHeight \in 0 .. CharHeight - 1
            <4>1. top \in Int /\ top' \in Int
                BY <1>1, <2>9, Sizes DEF TypeOK
            <4> QED BY <4>1, ConstantsType, Division
        <3>3. CASE ~ Below(y)
            <4>1. top' = top /\ cursor_y \in Int
                BY <1>1, <2>1, <3>3 DEF TypeOK
            <4> QED BY <2>4, <3>1, <3>2, <4>1
        <3>4. CASE Below(y)
            <4> DEFINE q == top' \div CharHeight
            <4>1. q \in Int /\ top' = q * CharHeight + (top' % CharHeight)
                BY <3>2
            <4> HIDE DEF q
            <4>2. q * CharHeight \in Int /\ top \in Int /\ top' \in Int
                BY <1>1, <2>9, <4>1, Sizes, ConstantsType DEF TypeOK
            <4>3. q * CharHeight <= top'
                BY <3>2, <4>1, <4>2, ConstantsType
            <4>4. q * CharHeight < y * CharHeight + CharHeight
                BY <2>4, <2>9, <3>4, <4>2, <4>3, ConstantsType DEF Below
            <4>5. q <= y
                BY <2>4, <4>1, <4>4, ConstantsType, TimesOrder
            <4> QED BY <4>5 DEF q
        <3> QED BY <3>3, <3>4
    <2>14. CursorNear'
        <3> SUFFICES ASSUME ~ moved, ~ gap
                     PROVE  y * CharHeight + CharHeight <= top' + Height
            <4>1. /\ y * CharHeight \in Nat /\ top' \in Nat
                BY <2>4, <2>9
            <4> QED BY <2>1, <4>1, ConstantsType DEF CursorNear
        <3>1. /\ cursor_y * CharHeight <= top + Height
              /\ cursor_x > 0 => cursor_y * CharHeight + CharHeight <= top + Height
            BY DEF ScreenInv, CursorNear
        <3>2. /\ cursor_y \in Int /\ top \in Int /\ cursor_y * CharHeight \in Int
              /\ (cursor_y + 1) * CharHeight = cursor_y * CharHeight + CharHeight
            BY <1>1, ConstantsType, Sizes, TimesOrder DEF TypeOK
        <3>3. y * CharHeight <= top + Height
            BY <2>2, <2>3, <3>1, <3>2
        <3>4. CASE ~ Below(y)
            BY <2>1, <2>4, <3>2, <3>4, ConstantsType DEF Below
        <3>5. CASE Below(y) /\ Down = top + CharHeight
            BY <2>1, <2>4, <3>2, <3>3, <3>5, ConstantsType
        <3>6. CASE Below(y) /\ Down = MaxTop
            <4>1. y * CharHeight + CharHeight <= Rows
                BY <2>4, <2>5, LineFits
            <4> QED BY <2>1, <3>6, <4>1, Sizes
        <3> QED BY <1>1, <3>4, <3>5, <3>6, WindowMoves
    <2>15. LineDrawn'
        <3>1. ASSUME NEW i \in 1 .. Len(line) + 1
              PROVE  cells'[Place' - Len(line') + i - 1] = line'[i]
            <4> DEFINE j == Place' - Len(line') + i - 1
            <4>1. j = here - Len(line) + i - 1
                BY <2>4, <2>7, <2>8
            <4>2. CASE i = Len(line) + 1
                <5>1. j = here
                    BY <2>4, <2>7, <4>1, <4>2
                <5> QED BY <2>5, <2>6, <2>7, <4>2, <5>1
            <4>3. CASE i # Len(line) + 1
                <5>1. i \in 1 .. Len(line) /\ line # <<>>
                    BY <2>7, <4>3, NothingDrawn
                <5>2. here = Place /\ Len(line) <= Place
                    BY <1>1, <2>4, <5>1 DEF OnScreen
                <5>3. j = Place - Len(line) + i - 1 /\ j \in Cell /\ j # here
                    <6>1. /\ here \in Nat /\ Len(line) \in Nat /\ Len(line) <= here
                          /\ i \in Nat /\ 1 <= i /\ i <= Len(line)
                        BY <2>4, <2>7, <5>1, <5>2
                    <6>2. j \in Nat /\ j < here
                        BY <4>1, <6>1
                    <6>3. j \in Cell
                        BY <2>5, <6>1, <6>2, Sizes, ConstantsType DEF Cell
                    <6> QED BY <4>1, <5>2, <6>1, <6>2, <6>3
                <5>4. cells[Place - Len(line) + i - 1] = line[i]
                    BY <1>1, <2>7, <5>1 DEF ScreenInv, LineDrawn
                <5> QED BY <2>6, <2>7, <5>1, <5>3, <5>4
            <4> QED BY <4>2, <4>3
        <3>2. ASSUME ~ moved, NEW p \in Cell, p >= Place' PROVE cells'[p] = Blank
            <4>1. here = Place /\ p \in Int
                BY <2>4, <3>2 DEF Cell
            <4>2. p # here /\ p >= Place
                BY <2>4, <2>8, <3>2, <4>1
            <4>3. cells[p] = Blank
                BY <1>1, <3>2, <4>2 DEF ScreenInv, LineDrawn
            <4> QED BY <2>6, <4>2, <4>3
        <3> QED BY <2>1, <2>7, <3>1, <3>2 DEF LineDrawn
    <2> QED BY <2>10, <2>11, <2>12, <2>13, <2>14, <2>15 DEF ScreenInv
<1> QED BY <1>2, <1>4, <1>5

\* Where backspace puts the cursor
LEMMA BackFacts ==
    ASSUME TypeOK, OnScreen, ~ moved \/ line # <<>>, NEW x, x = Back[1], NEW y, y = Back[2]
    PROVE  /\ x \in 0 .. Cols - 1 /\ y \in Nat /\ y <= cursor_y /\ y * Cols \in Nat
           /\ Place \in Nat
           /\ y * Cols + x = IF Place = 0 THEN 0 ELSE Place - 1
           /\ \/ cursor_x = 0 /\ y = cursor_y - 1
              \/ cursor_x > 0 /\ y = cursor_y
              \/ y = 0
<1>1. cursor_x \in 0 .. Cols /\ cursor_y \in Nat
    BY DEF OnScreen
<1>2. cursor_y * Cols \in Nat /\ (cursor_y - 1) * Cols = cursor_y * Cols - Cols
    BY <1>1, ConstantsType
<1>3. Place = cursor_y * Cols + cursor_x /\ Place \in Nat
    BY <1>1, <1>2, ConstantsType DEF Place
<1>4. CASE cursor_x = 0 /\ cursor_y # 0
    <2>1. x = Cols - 1 /\ y = cursor_y - 1
        BY <1>4 DEF Back
    <2>2. (cursor_y - 1) * Cols \in Nat /\ cursor_y - 1 \in Nat
        BY <1>1, <1>4, ConstantsType
    <2> QED BY <1>1, <1>2, <1>3, <1>4, <2>1, <2>2, ConstantsType
<1>5. CASE cursor_x # 0
    <2>1. x = cursor_x - 1 /\ y = cursor_y
        BY <1>5 DEF Back
    <2> QED BY <1>1, <1>2, <1>3, <1>5, <2>1, ConstantsType
<1>6. CASE cursor_x = 0 /\ cursor_y = 0
    <2>1. x = 0 /\ y = 0
        BY <1>6 DEF Back, Cursor
    <2>2. cursor_y * Cols = 0
        BY <1>6, ConstantsType
    <2> QED BY <1>1, <1>2, <1>3, <1>6, <2>1, <2>2, ConstantsType
<1> QED BY <1>4, <1>5, <1>6

LEMMA BackType == TypeOK => Back[1] \in Int /\ Back[2] \in Int
BY ConstantsType DEF TypeOK, Back, Cursor

LEMMA BackspaceKeeps ==
    ASSUME ScreenInv, Backspace
    PROVE  ScreenInv'
<1> DEFINE x == Back[1]
           y == Back[2]
           here == y * Cols + x
<1>1. /\ Running /\ TypeOK /\ OnScreen
      /\ text \in Seq(Bytes) /\ chunk \in Seq(Bytes) /\ line \in Seq(Bytes)
    BY DEF ScreenInv, CursorSafe, TextsTyped, Backspace, Idle
<1>2. x \in Int /\ y \in Int
    BY <1>1, BackType
<1>3. ASSUME ~ moved \/ line # <<>>
      PROVE  /\ x \in 0 .. Cols - 1 /\ y \in Nat /\ y <= cursor_y /\ y * Cols \in Nat
             /\ Place \in Nat /\ here = IF Place = 0 THEN 0 ELSE Place - 1
             /\ \/ cursor_x = 0 /\ y = cursor_y - 1
                \/ cursor_x > 0 /\ y = cursor_y
                \/ y = 0
    BY <1>1, <1>3, BackFacts
<1>4. CASE Huge(x) \/ Huge(y)
    <2>1. fault' = "cursor" /\ UNCHANGED <<Buffer, Cursor, text, chunk, writes, History>>
        BY <1>4 DEF Backspace, Panic
    <2> HIDE DEF x, y
    <2>2. moved
        BY <1>2, <1>3, <1>4, ConstantsType DEF Huge
    <2> QED BY <1>1, <2>1, <2>2, PanicKeeps
<1>5. CASE ~ (Huge(x) \/ Huge(y)) /\ ~ Fits(x, y)
    <2>1. fault' = "full" /\ UNCHANGED <<Buffer, Cursor, text, chunk, writes, History>>
        BY <1>5 DEF Backspace, Panic
    <2> HIDE DEF x, y
    <2>2. ~ moved => cursor_y >= Lines - 1
        <3> SUFFICES ASSUME ~ moved PROVE cursor_y >= Lines - 1
            OBVIOUS
        <3>1. ~ (y < Lines)
            BY <1>3, <1>5, PlaceOf
        <3> QED BY <1>1, <1>2, <1>3, <3>1, Sizes DEF TypeOK
    <2> QED BY <1>1, <2>1, <2>2, PanicKeeps
<1>6. CASE ~ (Huge(x) \/ Huge(y)) /\ Fits(x, y)
    <2>1. /\ cursor_x' = x /\ cursor_y' = y /\ cells' = Painted(x, y, Blank)
          /\ line' = IF line = <<>> THEN line ELSE Front(line)
          /\ paged' = (paged \/ y < cursor_y)
          /\ UNCHANGED <<top, text, chunk, fault, writes, moved, gap>>
        BY <1>6, SMTT(30) DEF Backspace
    <2> HIDE DEF x, y
    <2>2. /\ Len(line) \in Nat /\ DOMAIN line = 1 .. Len(line)
          /\ line' \in Seq(Bytes) /\ DOMAIN line' = 1 .. Len(line')
          /\ line # <<>> => /\ Len(line) > 0 /\ Len(line') = Len(line) - 1
                            /\ \A i \in 1 .. Len(line) - 1 : line'[i] = line[i]
        <3>1. Len(line) \in Nat /\ DOMAIN line = 1 .. Len(line)
            BY <1>1, LenProperties
        <3>2. ASSUME line # <<>>
              PROVE  /\ Front(line) \in Seq(Bytes) /\ Len(Front(line)) = Len(line) - 1
                     /\ Len(line) > 0
                     /\ \A i \in 1 .. Len(line) - 1 : Front(line)[i] = line[i]
            <4>1. Len(line) \in Nat \ {0}
                BY <1>1, <3>2, EmptySeq
            <4>2. \A i \in 1 .. Len(line) - 1 : line[i] \in Bytes
                BY <1>1, <4>1, ElementOfSeq
            <4> DEFINE m == Len(line) - 1
            <4>3. m \in Int /\ 1 \in Int /\ m = Len(line) - 1
                BY <4>1
            <4> HIDE DEF m
            <4>4. /\ SubSeq(line, 1, m) \in Seq(Bytes)
                  /\ Len(SubSeq(line, 1, m)) = IF 1 <= m THEN m - 1 + 1 ELSE 0
                  /\ \A i \in 1 .. m - 1 + 1 : SubSeq(line, 1, m)[i] = line[1 + i - 1]
                BY <4>2, <4>3, SubSeqProperties
            <4> QED BY <4>1, <4>3, <4>4 DEF Front
        <3>3. line' \in Seq(Bytes)
            BY <1>1, <2>1, <3>2
        <3> QED BY <2>1, <3>1, <3>2, <3>3, LenProperties
    <2>3. line = <<>> => line' = <<>>
        BY <2>1
    <2>4. ASSUME ~ moved \/ line # <<>>
          PROVE  /\ here \in Cell /\ here \in Nat /\ DOMAIN cells' = Cell
                 /\ \A p \in Cell : cells'[p] = IF p = here THEN Blank ELSE cells[p]
        <3>1. x \in 0 .. Cols - 1 /\ y \in Nat /\ y * Cols \in Nat
            BY <1>3, <2>4
        <3>2. here \in Cell
            BY <1>6, <3>1, PlaceOf
        <3>3. here \in Nat
            BY <3>1, ConstantsType
        <3> QED BY <2>1, <3>1, <3>2, <3>3, PaintedOne
    <2>5. Place' = here
        BY <2>1 DEF Place
    <2>6. CursorSafe'
        <3>1. DOMAIN cells' = Cell
            BY <2>1 DEF Painted
        <3>2. paged' \in BOOLEAN
            BY <1>1, <2>1 DEF TypeOK
        <3>3. TypeOK'
            BY <1>1, <1>2, <2>1, <3>1, <3>2 DEF TypeOK
        <3>4. fault' = "no"
            BY <1>1, <2>1, SMTT(30) DEF Running
        <3> QED BY <3>3, <3>4 DEF CursorSafe
    <2>7. TextsTyped'
        BY <1>1, <2>1, <2>2 DEF TextsTyped
    <2> HIDE DEF here
    <2>8. OnScreen'
        <3> SUFFICES ASSUME ~ moved \/ line # <<>>
                     PROVE  x \in 0 .. Cols /\ y \in Nat /\ Len(line') <= here
            BY <2>1, <2>3, <2>5 DEF OnScreen
        <3>1. x \in 0 .. Cols - 1 /\ y \in Nat
            BY <1>3
        <3>2. CASE line = <<>>
            BY <2>3, <2>4, <3>1, <3>2, NothingDrawn, ConstantsType
        <3>3. CASE line # <<>>
            <4>1. Len(line) <= Place /\ Place \in Nat /\ here = IF Place = 0 THEN 0 ELSE Place - 1
                BY <1>1, <1>3, <3>3 DEF OnScreen
            <4> QED BY <2>2, <3>1, <3>3, <4>1, ConstantsType
        <3> QED BY <3>2, <3>3
    <2>9. WindowAbove'
        <3> SUFFICES ASSUME ~ moved, ~ paged, ~ (y < cursor_y)
                     PROVE  top \div CharHeight <= y
            BY <2>1 DEF WindowAbove
        <3>1. y = cursor_y
            BY <1>1, <1>2, <1>3 DEF TypeOK
        <3> QED BY <3>1 DEF ScreenInv, WindowAbove
    <2>10. CursorNear'
        <3> SUFFICES ASSUME ~ moved, ~ gap PROVE y * CharHeight + CharHeight <= top + Height
            <4>1. y * CharHeight \in Int /\ top \in Int
                BY <1>1, <1>2, ConstantsType, Sizes DEF TypeOK
            <4> QED BY <2>1, <4>1, ConstantsType DEF CursorNear
        <3>1. /\ cursor_y * CharHeight <= top + Height
              /\ cursor_x > 0 => cursor_y * CharHeight + CharHeight <= top + Height
            BY DEF ScreenInv, CursorNear
        <3>2. /\ cursor_y \in Int /\ top \in Nat /\ cursor_y * CharHeight \in Int
              /\ (cursor_y - 1) * CharHeight = cursor_y * CharHeight - CharHeight
            BY <1>1, ConstantsType, Sizes, TimesOrder DEF TypeOK
        <3>3. CASE y = cursor_y - 1
            BY <3>1, <3>2, <3>3, ConstantsType
        <3>4. CASE cursor_x > 0 /\ y = cursor_y
            BY <3>1, <3>4
        <3>5. CASE y = 0
            <4>1. y * CharHeight = 0
                BY <3>5, ConstantsType
            <4> QED BY <3>2, <4>1, ConstantsType
        <3> QED BY <1>3, <3>3, <3>4, <3>5
    <2>11. LineDrawn'
        <3>1. ASSUME NEW i \in DOMAIN line'
              PROVE  cells'[Place' - Len(line') + i - 1] = line'[i]
            <4>1. line # <<>>
                BY <2>3, <3>1, NothingDrawn
            <4>2. i \in 1 .. Len(line) - 1 /\ Len(line') = Len(line) - 1 /\ line'[i] = line[i]
                BY <2>2, <4>1
            <4>3. Len(line) <= Place /\ Place \in Nat /\ here = IF Place = 0 THEN 0 ELSE Place - 1
                BY <1>1, <1>3, <4>1 DEF OnScreen
            <4> DEFINE j == Place - Len(line) + i - 1
            <4>4. Place' - Len(line') + i - 1 = j /\ j \in Nat /\ j < here
                BY <2>2, <2>5, <4>1, <4>2, <4>3
            <4>5. j \in Cell
                BY <2>4, <4>1, <4>4, Sizes, ConstantsType DEF Cell
            <4>6. cells[j] = line[i]
                BY <1>1, <2>2, <4>2 DEF ScreenInv, LineDrawn
            <4> HIDE DEF j
            <4>7. cells'[j] = cells[j]
                BY <2>4, <4>1, <4>4, <4>5
            <4> QED BY <4>2, <4>4, <4>6, <4>7
        <3>2. ASSUME ~ moved, NEW p \in Cell, p >= here PROVE cells'[p] = Blank
            <4>1. CASE p = here
                BY <2>4, <3>2, <4>1
            <4>2. CASE p # here
                <5>1. p >= Place
                    BY <1>3, <2>4, <3>2, <4>2 DEF Cell
                <5> QED BY <1>1, <2>4, <3>2, <4>2, <5>1 DEF ScreenInv, LineDrawn
            <4> QED BY <4>1, <4>2
        <3> QED BY <2>1, <2>5, <3>1, <3>2 DEF LineDrawn
    <2> QED BY <2>6, <2>7, <2>8, <2>9, <2>10, <2>11 DEF ScreenInv
<1> QED BY <1>4, <1>5, <1>6

LEMMA NextInv == ScreenInv /\ [Next]_vars => ScreenInv'
<1> SUFFICES ASSUME ScreenInv, [Next]_vars PROVE ScreenInv'
    OBVIOUS
<1>1. CASE (\E t \in Texts : WriteStr(t)) \/ (\E c \in Keystrokes : WriteChar(c))
    BY <1>1, WriteKeeps
<1>2. CASE Step
    BY <1>2, TakePieceKeeps, OverflowKeeps, CursorMoves, SetGraphicsModeKeeps,
       EraseDisplayKeeps, PutNewlineKeeps, PutReturnKeeps, PutCharKeeps DEF Step
<1>3. CASE Backspace \/ PageDown \/ PageUp \/ ClearAll
    BY <1>3, BackspaceKeeps, PageDownKeeps, PageUpKeeps, ClearAllKeeps
<1>4. CASE UNCHANGED vars
    <2>1. text \in Seq(Bytes) /\ chunk \in Seq(Bytes) /\ writes \in 0 .. MaxWrites
        BY DEF ScreenInv, CursorSafe, TypeOK, TextsTyped
    <2> QED BY <1>4, <2>1, QuietKeeps DEF vars, Buffer, Cursor, History
<1> QED BY <1>1, <1>2, <1>3, <1>4 DEF Next

\* The window stays within the buffer, and as long as no sequence moves the
\* cursor no panic is about it but those of a full buffer and of a window that
\* was paged: CursorSafe.
THEOREM CursorHeld == Spec => []CursorSafe
<1>1. ScreenInv => CursorSafe
    BY DEF ScreenInv
<1> QED BY <1>1, InitInv, NextInv, PTL DEF Spec

\* The line being written is in the window: LineVisible.
THEOREM LineInWindow == Spec => []LineVisible
<1>1. ScreenInv => LineVisible
    BY DEF ScreenInv, CursorNear, LineVisible
<1> QED BY <1>1, InitInv, NextInv, PTL DEF Spec

\* The line stands in front of the cursor and nothing behind it: LineDrawn.
THEOREM LineInPlace == Spec => []LineDrawn
<1>1. ScreenInv => LineDrawn
    BY DEF ScreenInv
<1> QED BY <1>1, InitInv, NextInv, PTL DEF Spec
=============================================================================
