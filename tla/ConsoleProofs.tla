---------------------------- MODULE ConsoleProofs ----------------------------
(***************************************************************************)
(* The console: the keyboard driver, and the terminal it hands keys to.    *)
(*                                                                         *)
(* The terminal, for any number of readers with buffers of any lengths,    *)
(* and any number of keys and prints.  Both results are about the unread   *)
(* input, stdin_buffer, as the end of a longer text: of what was typed,    *)
(* and of what the screen shows.  Typing, erasing and reading treat the    *)
(* end of both texts alike, which the lemmas about sequences say once.     *)
(*                                                                         *)
(* The keyboard, for any keys whose codes are those of scan code set 1,    *)
(* any capacity of current_keys and any number of repetitions and losses.  *)
(* The decoder can be a prefix ahead of the bytes lost only while the byte *)
(* after it is on the wire (BoundInv).  What the driver knows between two  *)
(* codes needs to be said in the middle of a code too: there a key is one  *)
(* entry behind while its make code is on its way, and one ahead during    *)
(* its break code (CleanInv); that only one key the decoder knows can have *)
(* sent the bytes under way (OnlyOne) tells which.                         *)
(***************************************************************************)
EXTENDS Terminal, Keyboard, SequenceTheorems, NaturalsInduction,
        WellFoundedInduction, TLAPS

\* A text without the cursor.
Shown == Seq({Newline, Output, Letter})

\* Only what a key types is in the line being typed.
LineTyped == stdin_buffer \in Seq({Letter, Newline})

\* The screen as long as nobody printed into the line: some text, the unread
\* input, and the cursor while input is received.
LineOnScreen ==
    ~ mixed => \E before \in Shown :
        screen = IF recive_input THEN Append(before \o stdin_buffer, Cursor)
                 ELSE before \o stdin_buffer

\* Eve takes the lock only for a line she still prints.
EveMayPrint == lock = "Eve" => prints < MaxPrints

TerminalInv == InputInOrder /\ LineTyped /\ LineOnScreen /\ EveMayPrint

-----------------------------------------------------------------------------
(* The terminal: facts about sequences *)

LEMMA SeqOfFunction ==
    ASSUME NEW S, NEW m \in Nat, NEW f \in [1 .. m -> S]
    PROVE  f \in Seq(S) /\ Len(f) = m
<1>1. f \in Seq(S)
    BY SeqDef
<1> QED BY <1>1, LenProperties

LEMMA FrontFacts ==
    ASSUME NEW S, NEW s \in Seq(S), s # <<>>
    PROVE  /\ Front(s) \in Seq(S) /\ Len(Front(s)) = Len(s) - 1
           /\ \A i \in 1 .. Len(s) - 1 : Front(s)[i] = s[i]
<1>1. Len(s) \in Nat \ {0} /\ \A i \in 1 .. Len(s) - 1 : s[i] \in S
    BY EmptySeq, ElementOfSeq
<1> DEFINE m == Len(s) - 1
<1>2. m \in Nat /\ m = Len(s) - 1
    BY <1>1
<1> HIDE DEF m
<1>3. /\ SubSeq(s, 1, m) \in Seq(S) /\ Len(SubSeq(s, 1, m)) = m
      /\ \A i \in 1 .. m : SubSeq(s, 1, m)[i] = s[i]
    BY <1>1, <1>2, SubSeqProperties
<1> QED BY <1>2, <1>3 DEF Front

LEMMA FrontOfAppend ==
    ASSUME NEW S, NEW s \in Seq(S), NEW c \in S
    PROVE  Front(Append(s, c)) = s /\ Last(Append(s, c)) = c
<1> DEFINE t == Append(s, c)
<1>1. /\ t \in Seq(S) /\ t # <<>> /\ Len(t) = Len(s) + 1 /\ Len(s) \in Nat
      /\ \A i \in 1 .. Len(s) : t[i] = s[i]
      /\ t[Len(s) + 1] = c
    BY AppendProperties, LenProperties
<1> HIDE DEF t
<1>2. /\ Front(t) \in Seq(S) /\ Len(Front(t)) = Len(s)
      /\ \A i \in 1 .. Len(s) : Front(t)[i] = s[i]
    BY <1>1, FrontFacts
<1>3. Front(t) = s
    BY <1>2, SeqEqual
<1>4. Last(t) = c
    BY <1>1 DEF Last
<1> QED BY <1>3, <1>4 DEF t

\* A text that ends in s, and its end when a character is added, ...
LEMMA ConcatAppend ==
    ASSUME NEW S, NEW p \in Seq(S), NEW s \in Seq(S), NEW c \in S
    PROVE  Append(p \o s, c) = p \o Append(s, c)
<1>1. <<c>> \in Seq(S) /\ p \o s \in Seq(S)
    BY ConcatProperties
<1>2. Append(p \o s, c) = (p \o s) \o <<c>> /\ Append(s, c) = s \o <<c>>
    BY <1>1, AppendIsConcat
<1> QED BY <1>1, <1>2, ConcatAssociative

\* ... when its last character is erased, ...
LEMMA ConcatFront ==
    ASSUME NEW S, NEW p \in Seq(S), NEW s \in Seq(S), s # <<>>
    PROVE  p \o s # <<>> /\ Front(p \o s) = p \o Front(s)
<1>1. PICK r \in Seq(S), c \in S : s = Append(r, c)
    BY SequenceEmptyOrAppend
<1>2. p \o s = Append(p \o r, c) /\ p \o r \in Seq(S)
    BY <1>1, ConcatAppend, ConcatProperties
<1>3. Append(p \o r, c) # <<>> /\ Front(Append(p \o r, c)) = p \o r
    <2> DEFINE q == p \o r
    <2>1. q \in Seq(S)
        BY <1>2
    <2> HIDE DEF q
    <2>2. Append(q, c) # <<>> /\ Front(Append(q, c)) = q
        BY <2>1, AppendProperties, FrontOfAppend
    <2> QED BY <2>2 DEF q
<1>4. Front(s) = r
    BY <1>1, FrontOfAppend
<1> QED BY <1>2, <1>3, <1>4

\* ... and when its first k characters are taken.
LEMMA ConcatSplit ==
    ASSUME NEW S, NEW p \in Seq(S), NEW s \in Seq(S), NEW k \in 0 .. Len(s)
    PROVE  /\ SubSeq(s, 1, k) \in Seq(S) /\ SubSeq(s, k + 1, Len(s)) \in Seq(S)
           /\ p \o s = (p \o SubSeq(s, 1, k)) \o SubSeq(s, k + 1, Len(s))
<1>1. Len(s) \in Nat /\ \A i \in 1 .. Len(s) : s[i] \in S
    BY LenProperties, ElementOfSeq
<1>2. SubSeq(s, 1, k) \in Seq(S)
    BY <1>1, SubSeqProperties
<1>3. SubSeq(s, k + 1, Len(s)) \in Seq(S)
    BY <1>1, SubSeqProperties
<1>4. SubSeq(s, 1, k) \o SubSeq(s, k + 1, Len(s)) = s
    <2>1. SubSeq(s, 1, k) \o SubSeq(s, k + 1, Len(s)) = SubSeq(s, 1, Len(s))
        <3>1. 1 \in 1 .. Len(s) + 1 /\ k \in 1 - 1 .. Len(s) /\ Len(s) \in k .. Len(s)
            BY <1>1
        <3> QED BY <3>1, ConcatAdjacentSubSeq
    <2> QED BY <2>1, SubSeqFull
<1> DEFINE a == SubSeq(s, 1, k)
           b == SubSeq(s, k + 1, Len(s))
<1> HIDE DEF a, b
<1>5. p \o (a \o b) = (p \o a) \o b
    <2>1. a \in Seq(S) /\ b \in Seq(S)
        BY <1>2, <1>3 DEF a, b
    <2>2. \A x, y, z \in Seq(S) : (x \o y) \o z = x \o (y \o z)
        BY ConcatAssociative, SMTT(60)
    <2> QED BY <2>1, <2>2
<1> QED BY <1>2, <1>3, <1>4, <1>5 DEF a, b

LEMMA SuffixOfConcat ==
    ASSUME NEW S, NEW p \in Seq(S), NEW s \in Seq(S)
    PROVE  IsSuffix(s, p \o s)
<1> DEFINE t == p \o s
           n == Len(s)
           m == Len(t)
<1>1. /\ t \in Seq(S) /\ m = Len(p) + n /\ n \in Nat /\ Len(p) \in Nat
      /\ \A i \in 1 .. m : t[i] = IF i <= Len(p) THEN p[i] ELSE s[i - Len(p)]
    BY ConcatProperties, LenProperties
<1>2. /\ Reverse(s) = [i \in 1 .. n |-> s[(n - i) + 1]]
      /\ Reverse(t) = [i \in 1 .. m |-> t[(m - i) + 1]]
    BY DEF Reverse
<1>3. /\ Reverse(s) \in Seq(S) /\ Len(Reverse(s)) = n
      /\ Reverse(t) \in Seq(S) /\ Len(Reverse(t)) = m
    <2>1. \A i \in 1 .. n : s[(n - i) + 1] \in S
        BY <1>1, ElementOfSeq
    <2>2. \A i \in 1 .. m : t[(m - i) + 1] \in S
        BY <1>1, ElementOfSeq
    <2>3. Reverse(s) \in [1 .. n -> S] /\ Reverse(t) \in [1 .. m -> S]
        BY <1>2, <2>1, <2>2
    <2>4. n \in Nat /\ m \in Nat
        BY <1>1
    <2> HIDE DEF n, m
    <2> QED BY <2>3, <2>4, SeqOfFunction
<1>4. \A i \in 1 .. n : Reverse(s)[i] = Reverse(t)[i]
    BY <1>1, <1>2
<1> HIDE DEF t, n, m
<1> DEFINE a == SubSeq(Reverse(s), 1, n)
           b == SubSeq(Reverse(t), 1, n)
<1>5. /\ a \in Seq(S) /\ Len(a) = n /\ \A i \in 1 .. n : a[i] = Reverse(s)[i]
      /\ b \in Seq(S) /\ Len(b) = n /\ \A i \in 1 .. n : b[i] = Reverse(t)[i]
    <2>1. \A i \in 1 .. n : Reverse(s)[i] \in S /\ Reverse(t)[i] \in S
        BY <1>1, <1>3, ElementOfSeq
    <2> QED BY <1>1, <2>1, SubSeqProperties
<1>6. a = b
    <2> HIDE DEF a, b
    <2> QED BY <1>4, <1>5, SeqEqual
<1> QED BY <1>1, <1>3, <1>6 DEF IsSuffix, IsPrefix, t, n, m

LEMMA ShownText ==
    ASSUME NEW s \in Shown
    PROVE  s \in Text /\ Cursor \notin Range(s)
<1>1. s \in Text
    BY SeqMonotonic DEF Shown, Text
<1>2. \A i \in 1 .. Len(s) : s[i] \in {Newline, Output, Letter}
    BY ElementOfSeq DEF Shown
<1>3. Cursor \notin {Newline, Output, Letter}
    BY DEF Cursor, Newline, Output, Letter
<1>4. DOMAIN s = 1 .. Len(s)
    BY LenProperties DEF Shown
<1> QED BY <1>1, <1>2, <1>3, <1>4 DEF Range

LEMMA BackspacedText ==
    ASSUME NEW s \in Text
    PROVE  Backspaced(s) \in Text
BY FrontFacts DEF Text, Backspaced

\* The cursor behind a text, and the text when it is erased.
LEMMA CursorOf ==
    ASSUME NEW s \in Shown
    PROVE  /\ Append(s, Cursor) \in Text /\ Append(s, Cursor) # <<>>
           /\ Front(Append(s, Cursor)) = s /\ Last(Append(s, Cursor)) = Cursor
           /\ Backspaced(Append(s, Cursor)) = s
<1>1. s \in Text /\ Cursor \in {Newline, Cursor, Output, Letter}
    BY ShownText
<1>2. Append(s, Cursor) \in Text /\ Append(s, Cursor) # <<>>
    BY <1>1, AppendProperties DEF Text
<1>3. Front(Append(s, Cursor)) = s /\ Last(Append(s, Cursor)) = Cursor
    BY <1>1, FrontOfAppend DEF Text
<1> QED BY <1>2, <1>3 DEF Backspaced

-----------------------------------------------------------------------------
(* The terminal: the induction *)

\* The line being typed as part of both texts.
LEMMA LineFacts ==
    ASSUME TerminalInv
    PROVE  /\ stdin_buffer \in Shown
           /\ \A before \in Shown : before \o stdin_buffer \in Shown
           /\ screen \in Text /\ Backspaced(screen) \in Text
<1>1. stdin_buffer \in Shown
    BY SeqMonotonic DEF TerminalInv, LineTyped, Shown
<1>2. \A before \in Shown : before \o stdin_buffer \in Shown
    BY <1>1, ConcatProperties DEF Shown
<1> QED BY <1>1, <1>2, BackspacedText DEF TerminalInv, InputInOrder, TypeOK

LEMMA InitInv == Init => TerminalInv
<1> SUFFICES ASSUME Init PROVE TerminalInv
    OBVIOUS
<1>1. /\ <<>> \in Text /\ <<>> \in Shown /\ <<>> \in Seq({Letter, Newline})
      /\ Len(<<>>) = 0 /\ <<>> \o <<>> = <<>>
    BY EmptySeq, ConcatEmptySeq DEF Text, Shown
<1>2. TypeOK
    <2>1. 0 <= MaxTyped /\ 0 \in 0 .. MaxPrints
        BY BoundAssumption
    <2> QED BY <1>1, <2>1 DEF Init, TypeOK
<1>3. LineOnScreen
    BY <1>1 DEF Init, LineOnScreen
<1> QED BY <1>1, <1>2, <1>3 DEF Init, TerminalInv, InputInOrder, LineTyped, EveMayPrint

\* A key with a character: both texts and the line grow by the same character.
LEMMA TypeCharKeeps ==
    ASSUME TerminalInv, NEW c \in {Letter, Newline}, TypeChar(c)
    PROVE  TerminalInv'
<1>1. /\ recive_input /\ Len(typed) < MaxTyped
      /\ screen' = Backspaced(screen) \o <<c, Cursor>>
      /\ stdin_buffer' = Append(stdin_buffer, c) /\ typed' = Append(typed, c)
      /\ recive_input' = recive_input /\ delivered' = delivered /\ mixed' = mixed
      /\ UNCHANGED <<alive, reading, lock, prints, hung>>
    BY DEF TypeChar, KeyGuard, Processes, Eve
<1>2. LineTyped'
    BY <1>1, AppendProperties DEF TerminalInv, LineTyped
<1>3. /\ typed' = delivered \o Append(stdin_buffer, c)
      /\ typed' \in Text /\ stdin_buffer' \in Text /\ Len(typed') = Len(typed) + 1
    <2>1. /\ delivered \in Text /\ stdin_buffer \in Text /\ typed \in Text
          /\ c \in {Newline, Cursor, Output, Letter}
        BY DEF TerminalInv, InputInOrder, TypeOK
    <2>2. delivered \o Append(stdin_buffer, c) = Append(delivered \o stdin_buffer, c)
        BY <2>1, ConcatAppend DEF Text
    <2>3. typed = delivered \o stdin_buffer
        BY DEF TerminalInv, InputInOrder
    <2> QED BY <1>1, <2>1, <2>2, <2>3, AppendProperties DEF Text
<1>4. screen' \in Text
    <2>1. <<c, Cursor>> \in Text
        BY DEF Text
    <2> QED BY <1>1, <2>1, LineFacts, ConcatProperties DEF Text
<1>5. TypeOK'
    BY <1>1, <1>3, <1>4, LenProperties, BoundAssumption
    DEF TerminalInv, InputInOrder, TypeOK, Text
<1>6. LineOnScreen'
    <2> SUFFICES ASSUME ~ mixed
                 PROVE  \E before \in Shown : screen' = Append(before \o stdin_buffer', Cursor)
        BY <1>1 DEF LineOnScreen
    <2>1. PICK before \in Shown : screen = Append(before \o stdin_buffer, Cursor)
        BY <1>1 DEF TerminalInv, LineOnScreen
    <2> DEFINE shown == before \o stdin_buffer
    <2>2. shown \in Shown /\ Backspaced(screen) = shown
        BY <2>1, LineFacts, CursorOf
    <2>3. before \o stdin_buffer' = Append(shown, c) /\ Append(shown, c) \in Shown
        <3>1. c \in {Newline, Output, Letter} /\ stdin_buffer \in Shown
            BY LineFacts
        <3>2. before \o Append(stdin_buffer, c) = Append(shown, c)
            BY <3>1, ConcatAppend DEF Shown
        <3> HIDE DEF shown
        <3> QED BY <1>1, <2>2, <3>1, <3>2, AppendProperties DEF Shown
    <2> HIDE DEF shown
    <2>4. shown \o <<c, Cursor>> = Append(Append(shown, c), Cursor)
        <3>1. shown \in Text /\ c \in {Newline, Cursor, Output, Letter}
            BY <2>2, ShownText
        <3> QED BY <3>1 DEF Text
    <2> QED BY <1>1, <2>2, <2>3, <2>4
<1> QED BY <1>1, <1>2, <1>3, <1>5, <1>6 DEF TerminalInv, InputInOrder, EveMayPrint

\* A key without one puts the cursor back where it was.
LEMMA TypeNothingKeeps ==
    ASSUME TerminalInv, TypeNothing
    PROVE  TerminalInv'
<1>1. /\ recive_input /\ screen' = Append(Backspaced(screen), Cursor)
      /\ UNCHANGED <<stdin_buffer, recive_input, typed, delivered, mixed,
                     alive, reading, lock, prints, hung>>
    BY DEF TypeNothing, Processes, Eve
<1>2. screen' \in Text
    BY <1>1, LineFacts, AppendProperties DEF Text
<1>3. TypeOK'
    BY <1>1, <1>2 DEF TerminalInv, InputInOrder, TypeOK
<1>4. LineOnScreen'
    <2> SUFFICES ASSUME ~ mixed PROVE screen' = screen
        BY <1>1 DEF TerminalInv, LineOnScreen
    <2>1. PICK before \in Shown : screen = Append(before \o stdin_buffer, Cursor)
        BY <1>1 DEF TerminalInv, LineOnScreen
    <2> QED BY <1>1, <2>1, LineFacts, CursorOf
<1> QED BY <1>1, <1>3, <1>4 DEF TerminalInv, InputInOrder, LineTyped, EveMayPrint

\* The backspace key erases the same character from both texts and the line.
LEMMA PeformBackspaceKeeps ==
    ASSUME TerminalInv, PeformBackspace
    PROVE  TerminalInv'
<1>1. /\ recive_input /\ stdin_buffer # <<>>
      /\ screen' = Append(Backspaced(Backspaced(screen)), Cursor)
      /\ stdin_buffer' = Front(stdin_buffer) /\ typed' = Front(typed)
      /\ recive_input' = recive_input /\ delivered' = delivered /\ mixed' = mixed
      /\ UNCHANGED <<alive, reading, lock, prints, hung>>
    BY DEF PeformBackspace, Erased, Backspaced, Processes, Eve
<1>2. LineTyped'
    BY <1>1, FrontFacts DEF TerminalInv, LineTyped
<1>3. /\ typed # <<>> /\ typed' = delivered' \o stdin_buffer'
      /\ typed' \in Text /\ stdin_buffer' \in Text /\ Len(typed') = Len(typed) - 1
    <2>1. /\ delivered \in Text /\ stdin_buffer \in Text /\ typed \in Text
          /\ typed = delivered \o stdin_buffer
        BY DEF TerminalInv, InputInOrder, TypeOK
    <2>2. typed # <<>> /\ Front(typed) = delivered \o Front(stdin_buffer)
        BY <1>1, <2>1, ConcatFront DEF Text
    <2> QED BY <1>1, <2>1, <2>2, FrontFacts DEF Text
<1>4. screen' \in Text
    BY <1>1, LineFacts, BackspacedText, AppendProperties DEF Text
<1>5. TypeOK'
    BY <1>1, <1>3, <1>4, LenProperties, BoundAssumption
    DEF TerminalInv, InputInOrder, TypeOK, Text
<1>6. LineOnScreen'
    <2> SUFFICES ASSUME ~ mixed
                 PROVE  \E before \in Shown : screen' = Append(before \o stdin_buffer', Cursor)
        BY <1>1 DEF LineOnScreen
    <2>1. PICK before \in Shown : screen = Append(before \o stdin_buffer, Cursor)
        BY <1>1 DEF TerminalInv, LineOnScreen
    <2> DEFINE shown == before \o stdin_buffer
    <2>2. shown \in Shown /\ Backspaced(screen) = shown
        BY <2>1, LineFacts, CursorOf
    <2>3. shown # <<>> /\ Front(shown) = before \o stdin_buffer'
        BY <1>1, LineFacts, ConcatFront DEF Shown
    <2> HIDE DEF shown
    <2> QED BY <1>1, <2>2, <2>3 DEF Backspaced
<1> QED BY <1>1, <1>2, <1>3, <1>5, <1>6 DEF TerminalInv, InputInOrder, EveMayPrint

\* The chord clears the screen, which loses the line unless it is empty.
LEMMA ChordKeeps ==
    ASSUME TerminalInv, NEW p \in Procs, Chord(p)
    PROVE  TerminalInv'
<1>1. /\ screen' = <<>>
      /\ mixed' = (mixed \/ recive_input \/ stdin_buffer # <<>>)
      /\ UNCHANGED <<stdin_buffer, recive_input, reading, typed, delivered, lock, prints>>
    BY DEF Chord, Mixing
<1>2. alive \subseteq alive' /\ alive' \subseteq Procs /\ hung' \in BOOLEAN
    BY DEF Chord, TerminalInv, InputInOrder, TypeOK
<1>3. <<>> \in Text /\ <<>> \in Shown /\ <<>> \o <<>> = <<>>
    BY EmptySeq, ConcatEmptySeq DEF Text, Shown
<1>4. TypeOK'
    BY <1>1, <1>2, <1>3 DEF TerminalInv, InputInOrder, TypeOK
<1>5. LineOnScreen'
    BY <1>1, <1>3 DEF LineOnScreen
<1> QED BY <1>1, <1>4, <1>5 DEF TerminalInv, InputInOrder, LineTyped, EveMayPrint

\* A turn of a reader that finds no line shows the cursor.
LEMMA PollBusyKeeps ==
    ASSUME TerminalInv, NEW p \in Procs, PollBusy(p)
    PROVE  TerminalInv'
<1>1. /\ screen' = IF recive_input THEN screen ELSE Append(screen, Cursor)
      /\ recive_input' = TRUE
      /\ UNCHANGED <<stdin_buffer, typed, delivered, mixed, alive, reading, lock, prints, hung>>
    BY DEF PollBusy, Enabled, Processes, Eve
<1>2. screen' \in Text
    BY <1>1, LineFacts, AppendProperties DEF Text
<1>3. TypeOK'
    BY <1>1, <1>2 DEF TerminalInv, InputInOrder, TypeOK
<1>4. LineOnScreen'
    BY <1>1 DEF TerminalInv, LineOnScreen
<1> QED BY <1>1, <1>3, <1>4 DEF TerminalInv, InputInOrder, LineTyped, EveMayPrint

\* A turn that finds one takes the front of it, and the cursor goes.
LEMMA PollLineKeeps ==
    ASSUME TerminalInv, NEW p \in Procs, NEW n \in Counts, PollLine(p, n)
    PROVE  TerminalInv'
<1> DEFINE k == Min({n, Len(stdin_buffer)})
           rest == SubSeq(stdin_buffer, k + 1, Len(stdin_buffer))
<1>1. /\ screen' = IF recive_input THEN Backspaced(screen) ELSE screen
      /\ recive_input' = FALSE
      /\ stdin_buffer' = rest
      /\ delivered' = delivered \o SubSeq(stdin_buffer, 1, k)
      /\ reading' = reading \ {p}
      /\ UNCHANGED <<alive, typed, mixed, lock, prints, hung>>
    BY DEF PollLine, Disabled, Rest, Eve
<1>2. k \in 0 .. Len(stdin_buffer)
    <2>1. n \in Nat /\ Len(stdin_buffer) \in Nat
        BY BoundAssumption, LineFacts, LenProperties DEF Shown
    <2> QED BY <2>1 DEF Min
<1> HIDE DEF k
<1>3. LineTyped'
    BY <1>1, <1>2, ConcatSplit DEF TerminalInv, LineTyped
<1>4. delivered' \in Text /\ stdin_buffer' \in Text /\ typed' = delivered' \o stdin_buffer'
    <2>1. /\ delivered \in Text /\ stdin_buffer \in Text
          /\ typed = delivered \o stdin_buffer
        BY DEF TerminalInv, InputInOrder, TypeOK
    <2>2. /\ SubSeq(stdin_buffer, 1, k) \in Text /\ rest \in Text
          /\ typed = (delivered \o SubSeq(stdin_buffer, 1, k)) \o rest
        BY <1>2, <2>1, ConcatSplit, ZenonT(60) DEF Text
    <2> QED BY <1>1, <2>1, <2>2, ConcatProperties DEF Text
<1>5. screen' \in Text
    BY <1>1, LineFacts
<1>6. TypeOK'
    BY <1>1, <1>4, <1>5 DEF TerminalInv, InputInOrder, TypeOK
<1>7. LineOnScreen'
    <2> SUFFICES ASSUME ~ mixed
                 PROVE  \E before \in Shown : screen' = before \o rest
        BY <1>1 DEF LineOnScreen
    <2>1. PICK before \in Shown :
                 screen = IF recive_input THEN Append(before \o stdin_buffer, Cursor)
                          ELSE before \o stdin_buffer
        BY DEF TerminalInv, LineOnScreen
    <2>2. screen' = before \o stdin_buffer
        BY <1>1, <2>1, LineFacts, CursorOf
    <2> DEFINE more == before \o SubSeq(stdin_buffer, 1, k)
    <2>3. stdin_buffer \in Shown
        BY LineFacts
    <2>4. SubSeq(stdin_buffer, 1, k) \in Shown /\ before \o stdin_buffer = more \o rest
        BY <1>2, <2>3, ConcatSplit, ZenonT(60) DEF Shown
    <2>5. more \in Shown
        BY <2>4, ConcatProperties DEF Shown
    <2> QED BY <2>2, <2>4, <2>5
<1> QED BY <1>1, <1>3, <1>4, <1>6, <1>7 DEF TerminalInv, InputInOrder, EveMayPrint

\* What a process or Eve prints is into the line, or behind no line at all.
LEMMA PrintKeeps ==
    ASSUME TerminalInv, screen' = Append(screen, Output), mixed' = Mixing,
           lock' \in {"Free", "Eve"}, prints' \in 0 .. MaxPrints, EveMayPrint',
           UNCHANGED <<stdin_buffer, recive_input, alive, reading, hung, typed, delivered>>
    PROVE  TerminalInv'
<1>1. screen' \in Text
    BY LineFacts, AppendProperties DEF Text
<1>2. TypeOK'
    BY <1>1 DEF TerminalInv, InputInOrder, TypeOK, Mixing
<1>3. LineOnScreen'
    <2> SUFFICES ASSUME ~ mixed, ~ recive_input, stdin_buffer = <<>>
                 PROVE  \E before \in Shown : screen' = before \o <<>>
        BY DEF LineOnScreen, Mixing
    <2>1. PICK before \in Shown : screen = before \o <<>>
        BY DEF TerminalInv, LineOnScreen
    <2>2. screen = before
        BY <2>1, ConcatEmptySeq DEF Shown
    <2>3. Append(before, Output) \in Shown
        BY AppendProperties DEF Shown
    <2>4. Append(before, Output) \o <<>> = Append(before, Output)
        BY <2>3, ConcatEmptySeq DEF Shown
    <2> QED BY <2>2, <2>3, <2>4
<1> QED BY <1>2, <1>3 DEF TerminalInv, InputInOrder, LineTyped

\* Steps that change neither text nor line.
LEMMA QuietKeeps ==
    ASSUME TerminalInv, reading' \subseteq alive, lock' \in {"Free", "Eve"}, hung' \in BOOLEAN,
           EveMayPrint',
           UNCHANGED <<screen, stdin_buffer, recive_input, alive, prints, typed, delivered, mixed>>
    PROVE  TerminalInv'
<1>1. TypeOK'
    BY DEF TerminalInv, InputInOrder, TypeOK
<1> QED BY <1>1 DEF TerminalInv, InputInOrder, LineTyped, LineOnScreen

LEMMA NextInv == TerminalInv /\ [Next]_vars => TerminalInv'
<1> SUFFICES ASSUME TerminalInv, [Next]_vars PROVE TerminalInv'
    OBVIOUS
<1> USE DEF Processes, Eve
<1>1. TypeOK
    BY DEF TerminalInv, InputInOrder
<1>2. CASE \E c \in {Letter, Newline} : TypeChar(c)
    BY <1>2, TypeCharKeeps
<1>3. CASE TypeNothing
    BY <1>3, TypeNothingKeeps
<1>4. CASE PeformBackspace
    BY <1>4, PeformBackspaceKeeps
<1>5. CASE EveLocks
    BY <1>1, <1>5, QuietKeeps DEF EveLocks, TypeOK, EveMayPrint
<1>6. CASE EvePrints
    <2>1. prints' \in 0 .. MaxPrints
        BY <1>1, <1>6, BoundAssumption DEF EvePrints, TypeOK, TerminalInv, EveMayPrint
    <2>2. lock' \in {"Free", "Eve"} /\ EveMayPrint'
        BY <1>6 DEF EvePrints, EveMayPrint
    <2> QED BY <1>6, <2>1, <2>2, PrintKeeps DEF EvePrints
<1>7. ASSUME NEW p \in Procs, Chord(p) PROVE TerminalInv'
    BY <1>7, ChordKeeps
<1>8. ASSUME NEW p \in Procs, StartRead(p) PROVE TerminalInv'
    BY <1>1, <1>8, QuietKeeps DEF StartRead, TypeOK, TerminalInv, EveMayPrint
<1>9. ASSUME NEW p \in Procs, Poll(p) PROVE TerminalInv'
    <2>1. CASE PollBusy(p)
        BY <2>1, PollBusyKeeps
    <2>2. CASE PollHangs(p)
        BY <1>1, <2>2, QuietKeeps DEF PollHangs, TypeOK, TerminalInv, EveMayPrint
    <2>3. CASE \E n \in Counts : PollLine(p, n)
        BY <2>3, PollLineKeeps
    <2> QED BY <1>9, <2>1, <2>2, <2>3 DEF Poll
<1>10. ASSUME NEW p \in Procs, Write(p) PROVE TerminalInv'
    BY <1>1, <1>10, PrintKeeps DEF Write, TypeOK, TerminalInv, EveMayPrint
<1>11. CASE UNCHANGED vars
    BY <1>1, <1>11, QuietKeeps DEF vars, TypeOK, TerminalInv, EveMayPrint
<1> QED BY <1>2, <1>3, <1>4, <1>5, <1>6, <1>7, <1>8, <1>9, <1>10, <1>11 DEF Next

\* What is typed and not erased is read once, in order and whole, and only
\* what nobody has read can be erased: InputInOrder.
THEOREM InputKept == Spec => []InputInOrder
<1>1. TerminalInv => InputInOrder
    BY DEF TerminalInv
<1> QED BY <1>1, InitInv, NextInv, PTL DEF Spec

\* As long as nobody printed into the line, the screen ends in what the next
\* read will return, and shows the cursor behind it just while input is
\* received: LineSeen.
THEOREM LineShown == Spec => []LineSeen
<1>1. TerminalInv => LineSeen
    <2> SUFFICES ASSUME TerminalInv, ~ mixed
                 PROVE  /\ recive_input => screen # <<>> /\ Last(screen) = Cursor
                        /\ LET text == IF recive_input THEN Front(screen) ELSE screen
                           IN  Cursor \notin Range(text) /\ IsSuffix(stdin_buffer, text)
        BY DEF LineSeen
    <2>1. PICK before \in Shown :
                 screen = IF recive_input THEN Append(before \o stdin_buffer, Cursor)
                          ELSE before \o stdin_buffer
        BY DEF TerminalInv, LineOnScreen
    <2> DEFINE shown == before \o stdin_buffer
    <2>2. shown \in Shown /\ Cursor \notin Range(shown)
        BY LineFacts, ShownText
    <2>3. IsSuffix(stdin_buffer, shown)
        BY LineFacts, SuffixOfConcat DEF Shown
    <2> HIDE DEF shown
    <2>4. /\ Append(shown, Cursor) # <<>> /\ Last(Append(shown, Cursor)) = Cursor
          /\ Front(Append(shown, Cursor)) = shown
        BY <2>2, CursorOf
    <2>5. screen = IF recive_input THEN Append(shown, Cursor) ELSE shown
        BY <2>1 DEF shown
    <2> QED BY <2>2, <2>3, <2>4, <2>5
<1> QED BY <1>1, InitInv, NextInv, PTL DEF Spec

-----------------------------------------------------------------------------
(* The keyboard *)

\* The key has at most one entry.
Once(keys, x) ==
    \A i, j \in DOMAIN keys : keys[i] = x /\ keys[j] = x => i = j

\* The code of which unencoded and wire are the two parts, before its last
\* byte is handled.
Sending(bytes) ==
    \/ unencoded = <<>> /\ wire = bytes
    \/ Len(bytes) = 2 /\ unencoded = <<bytes[1]>> /\ wire = <<bytes[2]>>
Making(k) == k \in PhysKeys /\ Sending(MakeCode[k])
Breaking(k) == k \in PhysKeys /\ Sending(BreakCode[k])

\* What is on the wire is the end of a code: a byte or none after a prefix.
WireShape ==
    \/ wire = <<>>
    \/ \E b \in 0 .. 255 \ {Prefix} : wire = <<b>> \/ wire = <<Prefix, b>>

\* The decoder holds one prefix more than bytes were lost only while the byte
\* that belongs to it is still to come.
PrefixesCome ==
    ~ panicked => Len(unencoded) <= lost + IF wire # <<>> /\ Head(wire) # Prefix THEN 1 ELSE 0

BoundInv ==
    /\ KeyTypeOK /\ current_keys \in Seq(KeyCodes)
    /\ WireShape /\ PrefixesCome /\ PrefixesBounded

\* Decoder and wire hold nothing, or one code, of the key pressed last or of
\* one that is no longer down, and the terminal has not been handed a key.
OneCode ==
    \/ wire = <<>> /\ unencoded = <<>>
    \/ /\ key = NullKey
       /\ \E k \in PhysKeys : \/ k \in down /\ k = latest /\ Making(k)
                              \/ k \notin down /\ Breaking(k)

\* A key that is down has an entry once its code has arrived.
DownEntered ==
    \A x \in (down \cap Known) \ {"CapsLock"} : CodeIsPressed(current_keys, x) \/ Making(x)

\* A key that was never repeated has one entry at most: none before its make
\* code has arrived, and none after its break code has.
UpRemoved ==
    \A x \in Known \ {"CapsLock"} : repeats[x] = 0 =>
        /\ Once(current_keys, x)
        /\ x \notin down => ~ CodeIsPressed(current_keys, x) \/ Breaking(x)
        /\ Making(x) => ~ CodeIsPressed(current_keys, x)

\* CapsLock has one entry at most, and caps is ahead while a code of it is
\* on its way.
CapsToggled ==
    /\ Once(current_keys, "CapsLock")
    /\ CodeIsPressed(current_keys, "CapsLock") <=> ~ (caps <=> Making("CapsLock"))

\* The key handed to the terminal is the one pressed last, with the flags of
\* the keys that are down.
KeyHanded ==
    wire = <<>> /\ key.code # NoKey =>
        /\ key.code = latest /\ latest \in down
        /\ key = ProcessKeycode(current_keys, key.code)

\* What holds as long as no byte was lost and current_keys was never full
CleanInv ==
    clean => /\ Range(current_keys) \subseteq Known
             /\ OneCode /\ DownEntered /\ UpRemoved /\ CapsToggled /\ KeyHanded

KeyboardInv == BoundInv /\ CleanInv

-----------------------------------------------------------------------------
(* The least index *)

\* Every non-empty set of numbers has a least one.
LEMMA LeastIndex ==
    ASSUME NEW T, T \subseteq Nat, T # {}
    PROVE  Min(T) \in T
<1>1. IsWellFoundedOn(OpToRel(<, Nat), Nat)
  BY NatLessThanWellFounded
<1>2. \E x \in T : \A y \in T : ~ (<<y, x>> \in OpToRel(<, Nat))
  BY <1>1, WFMin
<1>3. \A x, y \in Nat : y < x => <<y, x>> \in OpToRel(<, Nat)
  BY DEF OpToRel
<1>4. \E x \in T : \A y \in T : x <= y
  <2>1. PICK x \in T : \A y \in T : ~ (y < x)
    BY <1>2, <1>3
  <2>2. \A y \in T : x <= y
    BY <2>1
  <2> QED
    BY <2>2
<1> QED
  BY <1>4 DEF Min

-----------------------------------------------------------------------------
(* The entries of current_keys *)

LEMMA AppendKey ==
    ASSUME NEW keys \in Seq(KeyCodes), NEW c \in KeyCodes, NEW r, r = Append(keys, c)
    PROVE  /\ r \in Seq(KeyCodes) /\ Len(r) = Len(keys) + 1
           /\ \A x : x \in Range(r) <=> x \in Range(keys) \/ x = c
           /\ \A x : x # c /\ Once(keys, x) => Once(r, x)
           /\ c \notin Range(keys) => Once(r, c)
<1> DEFINE n == Len(keys)
<1>1. n \in Nat /\ DOMAIN keys = 1 .. n
  OBVIOUS
<1>2. r \in Seq(KeyCodes) /\ Len(r) = n + 1 /\ DOMAIN r = 1 .. n + 1 /\ r[n + 1] = c
      /\ \A i \in 1 .. n : r[i] = keys[i]
  OBVIOUS
<1>3. \A i \in 1 .. n + 1 : i \in 1 .. n \/ i = n + 1
  BY <1>1
<1>4. \A x : x \in Range(r) <=> x \in Range(keys) \/ x = c
  <2>0. n + 1 \in 1 .. n + 1 /\ \A i \in 1 .. n : i \in 1 .. n + 1
    BY <1>1
  <2> HIDE DEF n
  <2> QED
    BY <1>1, <1>2, <1>3, <2>0 DEF Range
<1>5. \A x : x # c /\ Once(keys, x) => Once(r, x)
  BY <1>1, <1>2, <1>3 DEF Once
<1>6. c \notin Range(keys) => Once(r, c)
  BY <1>1, <1>2, <1>3 DEF Once, Range
<1> QED
  BY <1>2, <1>4, <1>5, <1>6

\* Without its entry at m, a sequence keeps the entries before it in their
\* places and has those behind it one place further to the front.
Removed(s, m) == SubSeq(s, 1, m - 1) \o SubSeq(s, m + 1, Len(s))

LEMMA RemovedEntry ==
    ASSUME NEW S, NEW s \in Seq(S), NEW m \in 1 .. Len(s)
    PROVE  /\ Removed(s, m) \in Seq(S) /\ Len(Removed(s, m)) = Len(s) - 1
           /\ \A i \in 1 .. m - 1 : Removed(s, m)[i] = s[i]
           /\ \A i \in m .. Len(s) - 1 : Removed(s, m)[i] = s[i + 1]
<1> PICK n : n = Len(s)
  OBVIOUS
<1>1. n \in Nat /\ m \in Int /\ 1 <= m /\ m <= n
  OBVIOUS
<1> PICK a, b : a = SubSeq(s, 1, m - 1) /\ b = SubSeq(s, m + 1, n)
  OBVIOUS
<1>2. \A i \in 1 .. n : s[i] \in S
  OBVIOUS
<1>3. a \in Seq(S) /\ Len(a) = m - 1 /\ \A i \in 1 .. m - 1 : a[i] = s[i]
  <2>1. \A i \in 1 .. m - 1 : s[i] \in S /\ 1 + i - 1 = i
    BY <1>1, <1>2
  <2>2. m - 1 \in Int /\ (m - 1) - 1 + 1 = m - 1 /\ (IF 1 <= m - 1 THEN m - 1 ELSE 0) = m - 1
    BY <1>1
  <2> PICK k : k = m - 1
    OBVIOUS
  <2>3. /\ SubSeq(s, 1, k) \in Seq(S)
        /\ Len(SubSeq(s, 1, k)) = IF 1 <= k THEN k - 1 + 1 ELSE 0
        /\ \A i \in 1 .. k - 1 + 1 : SubSeq(s, 1, k)[i] = s[1 + i - 1]
    <3>1. k \in Int /\ 1 \in Int /\ \A i \in 1 .. k : s[i] \in S
      BY <2>1, <2>2
    <3> QED
      BY <3>1, SubSeqProperties
  <2> QED
    BY <2>1, <2>2, <2>3
<1>4. b \in Seq(S) /\ Len(b) = n - m /\ \A i \in 1 .. n - m : b[i] = s[m + i]
  <2> PICK k : k = m + 1
    OBVIOUS
  <2>1. /\ k \in Int /\ n \in Int /\ \A i \in k .. n : s[i] \in S
        /\ n - k + 1 = n - m /\ (IF k <= n THEN n - k + 1 ELSE 0) = n - m
        /\ \A i \in 1 .. n - m : k + i - 1 = m + i
    BY <1>1, <1>2
  <2>2. /\ SubSeq(s, k, n) \in Seq(S)
        /\ Len(SubSeq(s, k, n)) = IF k <= n THEN n - k + 1 ELSE 0
        /\ \A i \in 1 .. n - k + 1 : SubSeq(s, k, n)[i] = s[k + i - 1]
    BY <2>1, SubSeqProperties
  <2> PICK t : t = SubSeq(s, k, n)
    OBVIOUS
  <2>3. b = t
    OBVIOUS
  <2> QED
    BY <2>1, <2>2, <2>3
<1> PICK r : r = Removed(s, m)
  OBVIOUS
<1>5. r = a \o b
  BY DEF Removed
<1>6. /\ r \in Seq(S) /\ Len(r) = Len(a) + Len(b)
      /\ \A i \in 1 .. Len(a) + Len(b) : r[i] = IF i <= Len(a) THEN a[i] ELSE b[i - Len(a)]
  <2>1. a \in Seq(S) /\ b \in Seq(S)
    BY <1>3, <1>4
  <2>2. /\ a \o b \in Seq(S) /\ Len(a \o b) = Len(a) + Len(b)
        /\ \A i \in 1 .. Len(a) + Len(b) :
             (a \o b)[i] = IF i <= Len(a) THEN a[i] ELSE b[i - Len(a)]
    BY <2>1, ConcatProperties
  <2> QED
    BY <1>5, <2>2, Zenon
<1> SUFFICES /\ r \in Seq(S) /\ Len(r) = n - 1
             /\ \A i \in 1 .. m - 1 : r[i] = s[i]
             /\ \A i \in m .. n - 1 : r[i] = s[i + 1]
  BY Zenon
<1>7. (m - 1) + (n - m) = n - 1
  BY <1>1
<1>8. Len(r) = n - 1 /\ \A i \in 1 .. n - 1 : r[i] = IF i <= m - 1 THEN a[i] ELSE b[i - (m - 1)]
  BY <1>3, <1>4, <1>6, <1>7, Zenon
<1>9. \A i \in 1 .. m - 1 : r[i] = s[i]
  <2>1. \A i \in 1 .. m - 1 : i \in 1 .. n - 1 /\ i <= m - 1
    BY <1>1
  <2> QED
    BY <1>3, <1>8, <2>1, Zenon
<1>10. \A i \in m .. n - 1 : r[i] = s[i + 1]
  <2>1. \A i \in m .. n - 1 : /\ i \in 1 .. n - 1 /\ ~ (i <= m - 1)
                              /\ i - (m - 1) \in 1 .. n - m /\ m + (i - (m - 1)) = i + 1
    BY <1>1
  <2>2. \A i \in m .. n - 1 : b[i - (m - 1)] = s[m + (i - (m - 1))]
    BY <1>4, <2>1, Zenon
  <2> QED
    BY <1>8, <2>1, <2>2, Zenon
<1> QED
  BY <1>6, <1>8, <1>9, <1>10

LEMMA RemoveKey ==
    ASSUME NEW keys \in Seq(KeyCodes), NEW c, NEW r, r = RemovePressedKeycode(keys, c), c # NoKey
    PROVE  /\ r \in Seq(KeyCodes) /\ Len(r) <= Len(keys)
           /\ \A x : x \in Range(r) => x \in Range(keys)
           /\ \A x : x # c /\ x \in Range(keys) => x \in Range(r)
           /\ \A x : Once(keys, x) => Once(r, x)
           /\ Once(keys, c) => c \notin Range(r)
<1> PICK n : n = Len(keys)
  OBVIOUS
<1> DEFINE at == {i \in DOMAIN keys : keys[i] = c}
<1>1. n \in Nat /\ DOMAIN keys = 1 .. n
  OBVIOUS
<1>2. CASE at = {}
  <2>1. r = keys /\ c \notin Range(keys)
    BY <1>2 DEF RemovePressedKeycode, Range
  <2> QED
    BY <1>1, <2>1
<1>3. CASE at # {}
  <2> PICK m : m = Min(at)
    OBVIOUS
  <2>1. m \in 1 .. n /\ keys[m] = c
    <3>1. at \subseteq Nat
      BY <1>1
    <3>2. m \in at
      <4> HIDE DEF at
      <4> QED
        BY <1>3, <3>1, LeastIndex
    <3> QED
      BY <1>1, <3>2
  <2>2. r = Removed(keys, m)
    BY <1>3 DEF RemovePressedKeycode, RemoveAt, Removed
  <2>5. /\ r \in Seq(KeyCodes) /\ Len(r) = n - 1 /\ DOMAIN r = 1 .. n - 1
        /\ \A i \in 1 .. m - 1 : r[i] = keys[i]
        /\ \A i \in m .. n - 1 : r[i] = keys[i + 1]
    <3>1. m \in 1 .. Len(keys)
      BY <2>1
    <3>2. /\ Removed(keys, m) \in Seq(KeyCodes) /\ Len(Removed(keys, m)) = Len(keys) - 1
          /\ \A i \in 1 .. m - 1 : Removed(keys, m)[i] = keys[i]
          /\ \A i \in m .. Len(keys) - 1 : Removed(keys, m)[i] = keys[i + 1]
      BY <3>1, RemovedEntry
    <3>3. r \in Seq(KeyCodes) => DOMAIN r = 1 .. Len(r)
      OBVIOUS
    <3> QED
      BY <2>2, <3>2, <3>3, Zenon
  \* The index in keys of the i-th entry of r
  <2> DEFINE from(i) == IF i < m THEN i ELSE i + 1
  <2>6. \A i \in 1 .. n - 1 : from(i) \in 1 .. n /\ from(i) # m /\ r[i] = keys[from(i)]
    <3> TAKE i \in 1 .. n - 1
    <3>1. CASE i < m
      <4>1. i \in 1 .. m - 1 /\ i \in 1 .. n /\ i # m
        BY <1>1, <2>1, <3>1
      <4> QED
        BY <2>5, <3>1, <4>1
    <3>2. CASE ~ (i < m)
      <4>1. i \in m .. n - 1 /\ i + 1 \in 1 .. n /\ i + 1 # m
        BY <1>1, <2>1, <3>2
      <4> QED
        BY <2>5, <3>2, <4>1
    <3> QED
      BY <3>1, <3>2
  <2>7. \A i, j \in 1 .. n - 1 : from(i) = from(j) => i = j
    BY <1>1, <2>1
  <2>8. \A k \in 1 .. n : k # m => \E i \in 1 .. n - 1 : from(i) = k
    <3> TAKE k \in 1 .. n
    <3> HAVE k # m
    <3>1. CASE k < m
      <4>1. k \in 1 .. n - 1 /\ from(k) = k
        BY <1>1, <2>1, <3>1
      <4> QED
        BY <4>1
    <3>2. CASE k > m
      <4>1. k - 1 \in 1 .. n - 1 /\ from(k - 1) = k
        BY <1>1, <2>1, <3>2
      <4> QED
        BY <4>1
    <3>3. k < m \/ k > m
      BY <2>1
    <3> QED
      BY <3>1, <3>2, <3>3
  <2> HIDE DEF from
  <2>9. \A x : x \in Range(r) => x \in Range(keys)
    BY <1>1, <2>5, <2>6 DEF Range
  <2>10. \A x : x # c /\ x \in Range(keys) => x \in Range(r)
    <3> SUFFICES ASSUME NEW x, x # c, x \in Range(keys) PROVE x \in Range(r)
      OBVIOUS
    <3>1. PICK k \in 1 .. n : keys[k] = x
      BY <1>1 DEF Range
    <3>2. PICK i \in 1 .. n - 1 : from(i) = k
      BY <2>1, <2>8, <3>1
    <3> QED
      BY <2>5, <2>6, <3>1, <3>2 DEF Range
  <2>11. \A x : Once(keys, x) => Once(r, x)
    BY <1>1, <2>5, <2>6, <2>7 DEF Once
  <2>12. Once(keys, c) => c \notin Range(r)
    BY <1>1, <2>1, <2>5, <2>6 DEF Once, Range
  <2>13. Len(r) <= Len(keys)
    BY <1>1, <2>5
  <2> QED
    BY <2>5, <2>9, <2>10, <2>11, <2>12, <2>13
<1> QED
  BY <1>2, <1>3

LEMMA PushKey ==
    ASSUME NEW keys \in Seq(KeyCodes), Len(keys) <= MaxKeys, NEW c \in KeyCodes
    PROVE  Push(keys, c) \in Seq(KeyCodes) /\ Len(Push(keys, c)) <= MaxKeys
<1>1. MaxKeys \in Nat \ {0} /\ Len(keys) \in Nat
  BY KeysAssumption
<1>2. CASE Len(keys) < MaxKeys
  <2>1. Push(keys, c) = Append(keys, c)
    BY <1>2 DEF Push
  <2>2. Append(keys, c) \in Seq(KeyCodes) /\ Len(Append(keys, c)) = Len(keys) + 1
    OBVIOUS
  <2> QED
    BY <1>1, <1>2, <2>1, <2>2
<1>3. CASE ~ (Len(keys) < MaxKeys)
  <2>1. Push(keys, c) = [keys EXCEPT ![MaxKeys] = c]
    BY <1>3 DEF Push
  <2>2. /\ [keys EXCEPT ![MaxKeys] = c] \in Seq(KeyCodes)
        /\ Len([keys EXCEPT ![MaxKeys] = c]) = Len(keys)
    <3>1. MaxKeys \in 1 .. Len(keys)
      BY <1>1, <1>3
    <3> QED
      BY <3>1, ExceptSeq
  <2> QED
    BY <2>1, <2>2
<1> QED
  BY <1>2, <1>3

LEMMA EncodeType ==
    ASSUME NEW bytes
    PROVE  Encode(bytes) \in KeyCodes
BY DEF Encode, KeyCodes, Range

LEMMA RangeOfKeys ==
    ASSUME NEW S, NEW keys \in Seq(S)
    PROVE  Range(keys) \subseteq S
BY DEF Range

LEMMA TrackType ==
    ASSUME NEW keys \in Seq(KeyCodes), Len(keys) <= MaxKeys, NEW c \in KeyCodes
    PROVE  /\ RemovePressedKeycode(keys, c) \in Seq(KeyCodes)
           /\ Len(RemovePressedKeycode(keys, c)) <= MaxKeys
           /\ AddPressedKeycode(keys, c) \in Seq(KeyCodes)
           /\ Len(AddPressedKeycode(keys, c)) <= MaxKeys
<1>1. MaxKeys \in Nat /\ Len(keys) \in Nat
  BY KeysAssumption
<1>2. /\ RemovePressedKeycode(keys, c) \in Seq(KeyCodes)
      /\ Len(RemovePressedKeycode(keys, c)) <= MaxKeys
  <2>1. CASE c = NoKey
    <3>1. RemovePressedKeycode(keys, c) = keys
      BY <2>1 DEF RemovePressedKeycode
    <3> QED
      BY <3>1
  <2>2. CASE c # NoKey
    <3> PICK r : r = RemovePressedKeycode(keys, c)
      OBVIOUS
    <3>1. r \in Seq(KeyCodes) /\ Len(r) <= Len(keys)
      BY <2>2, RemoveKey
    <3>2. Len(r) \in Nat
      BY <3>1
    <3>3. Len(r) <= MaxKeys
      BY <1>1, <3>1, <3>2
    <3> QED
      BY <3>1, <3>3
  <2> QED
    BY <2>1, <2>2
<1>3. Push(keys, c) \in Seq(KeyCodes) /\ Len(Push(keys, c)) <= MaxKeys
  BY PushKey
<1>4. AddPressedKeycode(keys, c) \in {keys, RemovePressedKeycode(keys, c), Push(keys, c)}
  BY DEF AddPressedKeycode
<1> QED
  BY <1>2, <1>3, <1>4

-----------------------------------------------------------------------------
(* Codes *)

\* A code is one byte, or a prefix and one byte.
CodeShape(bytes) ==
    \E b \in 0 .. 255 \ {Prefix} : bytes = <<b>> \/ bytes = <<Prefix, b>>

LEMMA CodesShape ==
    ASSUME NEW k \in PhysKeys
    PROVE  CodeShape(MakeCode[k]) /\ CodeShape(BreakCode[k])
<1>1. PICK b \in CodeBytes :
         \/ MakeCode[k] = <<b>> /\ BreakCode[k] = <<b + 128>>
         \/ MakeCode[k] = <<Prefix, b>> /\ BreakCode[k] = <<Prefix, b + 128>>
  BY CodesAssumption
<1>2. b \in 0 .. 255 \ {Prefix} /\ b + 128 \in 0 .. 255 \ {Prefix}
  BY DEF CodeBytes, Prefix
<1> QED
  BY <1>1, <1>2 DEF CodeShape

LEMMA CodeIs ==
    ASSUME NEW bytes, CodeShape(bytes)
    PROVE  bytes \in Seq(0 .. 255) /\ bytes # <<>>
<1>1. Prefix \in 0 .. 255
  BY DEF Prefix
<1>2. PICK b \in 0 .. 255 \ {Prefix} : bytes = <<b>> \/ bytes = <<Prefix, b>>
  BY DEF CodeShape
<1>3. b \in 0 .. 255
  OBVIOUS
<1>4. CASE bytes = <<b>>
  BY <1>3, <1>4
<1>5. CASE bytes = <<Prefix, b>>
  BY <1>1, <1>3, <1>5
<1> QED
  BY <1>2, <1>4, <1>5

-----------------------------------------------------------------------------
(* The prefixes held *)

LEMMA BoundStart == KeyInit => BoundInv
<1> SUFFICES ASSUME KeyInit PROVE BoundInv
  OBVIOUS
<1>1. current_keys \in Seq(KeyCodes) /\ Len(current_keys) = 0 /\ Range(current_keys) = {}
  BY DEF KeyInit, Range
<1>2. key \in Keys
  BY DEF KeyInit, NullKey, Keys, KeyCodes
<1>3. unencoded \in Seq({Prefix}) /\ Len(unencoded) = 0 /\ wire \in Seq(0 .. 255)
  BY DEF KeyInit
<1>4. repeats \in [PhysKeys -> 0 .. MaxRepeats] /\ lost \in 0 .. MaxLost
  BY KeysAssumption DEF KeyInit
<1>5. Len(current_keys) <= MaxKeys /\ Len(unencoded) <= BufLen
  BY <1>1, <1>3, KeysAssumption
<1>6. KeyTypeOK
  BY <1>1, <1>2, <1>3, <1>4, <1>5 DEF KeyInit, KeyTypeOK
<1> QED
  BY <1>1, <1>3, <1>6 DEF KeyInit, BoundInv, WireShape, PrefixesCome, PrefixesBounded

LEMMA SendBound ==
    ASSUME NEW bytes, CodeShape(bytes), BoundInv, wire = <<>>, ~ panicked, Send(bytes),
           UNCHANGED <<Driver, lost, clean>>,
           down' \subseteq PhysKeys, latest' \in down' \cup {NoKey}, caps' \in BOOLEAN,
           repeats' \in [PhysKeys -> 0 .. MaxRepeats]
    PROVE  BoundInv'
<1>1. bytes \in Seq(0 .. 255) /\ bytes # <<>>
  BY CodeIs
<1>2. key' \in Keys
  BY DEF Send, NullKey, Keys, KeyCodes
<1>3. wire' = bytes
  BY DEF Send
<1>4. KeyTypeOK'
  BY <1>1, <1>2, <1>3 DEF BoundInv, KeyTypeOK, Driver
<1>5. WireShape'
  BY <1>3 DEF WireShape, CodeShape
<1>6. PrefixesCome'
  <2>1. Len(unencoded) <= lost + 0
    BY DEF BoundInv, PrefixesCome
  <2>2. Len(unencoded) \in Nat /\ lost \in Nat /\ unencoded' = unencoded /\ lost' = lost
    BY KeysAssumption DEF BoundInv, KeyTypeOK, Driver
  <2> QED
    BY <2>1, <2>2 DEF PrefixesCome
<1> QED
  BY <1>4, <1>5, <1>6 DEF BoundInv, PrefixesBounded, Driver

LEMMA UserBound ==
    ASSUME BoundInv, ~ panicked, NEW k \in PhysKeys, Press(k) \/ Repeat(k) \/ Release(k)
    PROVE  BoundInv'
<1>1. CodeShape(MakeCode[k]) /\ CodeShape(BreakCode[k])
  BY CodesShape
<1>2. /\ down \subseteq PhysKeys /\ latest \in down \cup {NoKey}
      /\ repeats \in [PhysKeys -> 0 .. MaxRepeats] /\ caps \in BOOLEAN
  BY DEF BoundInv, KeyTypeOK
<1>3. CASE Press(k)
  <2>1. down' \subseteq PhysKeys /\ latest' \in down' \cup {NoKey} /\ caps' \in BOOLEAN
    BY <1>2, <1>3 DEF Press
  <2>2. /\ wire = <<>> /\ Send(MakeCode[k]) /\ UNCHANGED <<Driver, lost, clean>>
        /\ repeats' \in [PhysKeys -> 0 .. MaxRepeats]
    BY <1>2, <1>3 DEF Press
  <2> QED
    BY <1>1, <2>1, <2>2, SendBound
<1>4. CASE Repeat(k)
  <2>1. down' \subseteq PhysKeys /\ latest' \in down' \cup {NoKey} /\ caps' \in BOOLEAN
    BY <1>2, <1>4 DEF Repeat
  <2>2. /\ wire = <<>> /\ Send(MakeCode[k]) /\ UNCHANGED <<Driver, lost, clean>>
    BY <1>4 DEF Repeat
  <2>3. repeats' \in [PhysKeys -> 0 .. MaxRepeats]
    <3>1. repeats[k] < MaxRepeats /\ repeats[k] \in 0 .. MaxRepeats /\ MaxRepeats \in Nat
      BY <1>2, <1>4, KeysAssumption DEF Repeat
    <3>2. repeats[k] + 1 \in 0 .. MaxRepeats
      BY <3>1
    <3>3. repeats' = [repeats EXCEPT ![k] = repeats[k] + 1]
      BY <1>4 DEF Repeat
    <3> QED
      BY <1>2, <3>2, <3>3
  <2> QED
    BY <1>1, <2>1, <2>2, <2>3, SendBound
<1>5. CASE Release(k)
  <2>1. down' \subseteq PhysKeys /\ latest' \in down' \cup {NoKey} /\ caps' \in BOOLEAN
    BY <1>2, <1>5 DEF Release
  <2>2. /\ wire = <<>> /\ Send(BreakCode[k]) /\ UNCHANGED <<Driver, lost, clean>>
        /\ repeats' \in [PhysKeys -> 0 .. MaxRepeats]
    BY <1>2, <1>5 DEF Release
  <2> QED
    BY <1>1, <2>1, <2>2, SendBound
<1> QED
  BY <1>3, <1>4, <1>5

\* What the first byte on the wire leaves behind it
LEMMA WireCases ==
    ASSUME WireShape, wire # <<>>
    PROVE  \/ /\ Head(wire) \in 0 .. 255 /\ Head(wire) # Prefix
              /\ wire = <<Head(wire)>> /\ Tail(wire) = <<>>
           \/ /\ Head(wire) = Prefix
              /\ \E b \in 0 .. 255 \ {Prefix} : wire = <<Prefix, b>> /\ Tail(wire) = <<b>>
<1>1. PICK b \in 0 .. 255 \ {Prefix} : wire = <<b>> \/ wire = <<Prefix, b>>
  BY DEF WireShape
<1>2. CASE wire = <<b>>
  BY <1>2
<1>3. CASE wire = <<Prefix, b>>
  BY <1>3
<1> QED
  BY <1>1, <1>2, <1>3

LEMMA LoseBound == BoundInv /\ ~ panicked /\ Lose => BoundInv'
<1> SUFFICES ASSUME BoundInv, ~ panicked, Lose PROVE BoundInv'
  OBVIOUS
<1>1. WireShape /\ wire # <<>> /\ wire' = Tail(wire)
  BY DEF BoundInv, Lose
<1>2. Len(unencoded) \in Nat /\ lost \in Nat /\ lost' = lost + 1 /\ lost' \in 0 .. MaxLost
  BY KeysAssumption DEF BoundInv, KeyTypeOK, Lose
<1>3. wire' \in Seq(0 .. 255) /\ WireShape'
  <2>1. CASE wire' = <<>>
    BY <2>1 DEF WireShape
  <2>2. CASE \E b \in 0 .. 255 \ {Prefix} : wire' = <<b>>
    BY <2>2 DEF WireShape
  <2> QED
    BY <1>1, <2>1, <2>2, WireCases
<1>4. KeyTypeOK'
  BY <1>2, <1>3 DEF BoundInv, KeyTypeOK, Lose, Driver
<1>5. PrefixesCome'
  <2>1. Len(unencoded) <= lost + 1
    BY <1>2 DEF BoundInv, PrefixesCome
  <2>2. unencoded' = unencoded
    BY DEF Lose, Driver
  <2> QED
    BY <1>2, <2>1, <2>2 DEF PrefixesCome
<1> QED
  BY <1>3, <1>4, <1>5 DEF BoundInv, PrefixesBounded, Lose, Driver

\* One byte handled, by its case
Overrun ==
    /\ Len(unencoded) >= BufLen
    /\ panicked' = TRUE
    /\ UNCHANGED <<current_keys, unencoded, key, clean>>
LastCode(byte) == Encode(Append(unencoded, byte))
HoldPrefix ==
    /\ Head(wire) = Prefix
    /\ unencoded' = Append(unencoded, Prefix)
    /\ UNCHANGED <<current_keys, key, clean>>
TakeBreak ==
    LET code == LastCode(Head(wire) - 128)
    IN  /\ Head(wire) # Prefix /\ Head(wire) >= 128
        /\ unencoded' = <<>>
        /\ current_keys' = IF code = "CapsLock" THEN current_keys
                           ELSE RemovePressedKeycode(current_keys, code)
        /\ UNCHANGED <<key, clean>>
TakeMake ==
    LET code == LastCode(Head(wire))
    IN  /\ Head(wire) # Prefix /\ ~ (Head(wire) >= 128)
        /\ unencoded' = <<>>
        /\ current_keys' = AddPressedKeycode(current_keys, code)
        /\ key' = ProcessKeycode(current_keys', code)
        /\ clean' = (clean /\ Len(current_keys) < MaxKeys)

LEMMA HandleByteCases ==
    ASSUME HandleByte
    PROVE  /\ wire # <<>> /\ wire' = Tail(wire)
           /\ UNCHANGED <<down, latest, repeats, caps, lost>>
           /\ \/ Overrun
              \/ /\ ~ (Len(unencoded) >= BufLen) /\ panicked' = panicked
                 /\ HoldPrefix \/ TakeBreak \/ TakeMake
<1>1. CASE Len(unencoded) >= BufLen
  BY <1>1 DEF HandleByte, Overrun
<1>2. CASE ~ (Len(unencoded) >= BufLen)
  <2>1. CASE Head(wire) = Prefix
    BY <1>2, <2>1 DEF HandleByte, HoldPrefix
  <2>2. CASE Head(wire) # Prefix /\ Head(wire) >= 128
    BY <1>2, <2>2 DEF HandleByte, TakeBreak, LastCode, ResetBuffer, Unlocks
  <2>3. CASE Head(wire) # Prefix /\ ~ (Head(wire) >= 128)
    BY <1>2, <2>3 DEF HandleByte, TakeMake, LastCode, ResetBuffer
  <2> QED
    BY <2>1, <2>2, <2>3
<1> QED
  BY <1>1, <1>2

LEMMA HandleBound == BoundInv /\ ~ panicked /\ HandleByte => BoundInv'
<1> SUFFICES ASSUME BoundInv, ~ panicked, HandleByte PROVE BoundInv'
  OBVIOUS
<1>1. /\ wire # <<>> /\ wire' = Tail(wire) /\ WireShape
      /\ UNCHANGED <<down, latest, repeats, caps, lost>>
      /\ \/ Overrun
         \/ /\ ~ (Len(unencoded) >= BufLen) /\ panicked' = panicked
            /\ HoldPrefix \/ TakeBreak \/ TakeMake
  BY HandleByteCases DEF BoundInv
<1>2. /\ unencoded \in Seq({Prefix}) /\ Len(unencoded) \in Nat /\ lost \in Nat
      /\ BufLen \in Nat /\ Len(unencoded) <= BufLen
      /\ current_keys \in Seq(KeyCodes) /\ Len(current_keys) <= MaxKeys
  BY KeysAssumption DEF BoundInv, KeyTypeOK
<1>3. wire' \in Seq(0 .. 255) /\ WireShape'
  <2>1. CASE wire' = <<>>
    BY <2>1 DEF WireShape
  <2>2. CASE \E b \in 0 .. 255 \ {Prefix} : wire' = <<b>>
    BY <2>2 DEF WireShape
  <2> QED
    BY <1>1, <2>1, <2>2, WireCases
<1> USE <1>1, <1>2, <1>3
<1>4. Len(unencoded) <= lost + 1 /\ (Head(wire) = Prefix => Len(unencoded) <= lost)
  BY DEF BoundInv, PrefixesCome
<1>5. CASE Overrun
  <2>1. KeyTypeOK' /\ current_keys' \in Seq(KeyCodes)
    BY <1>5 DEF Overrun, BoundInv, KeyTypeOK
  <2>2. PrefixesCome'
    BY <1>5 DEF Overrun, PrefixesCome
  <2>3. PrefixesBounded'
    <3>1. lost' + 1 >= BufLen
      BY <1>4, <1>5 DEF Overrun
    <3> QED
      BY <3>1 DEF PrefixesBounded
  <2> QED
    BY <2>1, <2>2, <2>3 DEF BoundInv
<1>6. ASSUME ~ (Len(unencoded) >= BufLen), panicked' = panicked,
             HoldPrefix \/ TakeBreak \/ TakeMake
      PROVE  BoundInv'
  <2>1. PrefixesBounded'
    BY <1>6 DEF BoundInv, PrefixesBounded
  <2>2. CASE HoldPrefix
    <3>1. unencoded' \in Seq({Prefix}) /\ Len(unencoded') = Len(unencoded) + 1
      BY <2>2 DEF HoldPrefix
    <3>2. Len(unencoded') <= BufLen
      BY <1>6, <3>1
    <3>3. KeyTypeOK' /\ current_keys' \in Seq(KeyCodes)
      BY <1>6, <2>2, <3>1, <3>2 DEF HoldPrefix, BoundInv, KeyTypeOK
    <3>4. wire' # <<>> /\ Head(wire') # Prefix
      <4>1. PICK b \in 0 .. 255 \ {Prefix} : wire' = <<b>>
        BY <2>2, WireCases DEF HoldPrefix
      <4> QED
        BY <4>1
    <3>5. PrefixesCome'
      <4>1. Len(unencoded') <= lost' + 1
        BY <1>4, <2>2, <3>1 DEF HoldPrefix
      <4> QED
        BY <3>4, <4>1 DEF PrefixesCome
    <3> QED
      BY <2>1, <3>3, <3>5 DEF BoundInv
  <2>3. CASE TakeBreak \/ TakeMake
    <3>1. unencoded' = <<>>
      BY <2>3 DEF TakeBreak, TakeMake
    <3>2. unencoded' \in Seq({Prefix}) /\ Len(unencoded') = 0
      BY <3>1
    <3>3. PrefixesCome'
      BY <3>2 DEF PrefixesCome
    <3>4. /\ current_keys' \in Seq(KeyCodes) /\ Len(current_keys') <= MaxKeys
          /\ key' \in Keys /\ clean' \in BOOLEAN
      <4>1. CASE TakeBreak
        <5>1. PICK c \in KeyCodes : current_keys' \in {current_keys, RemovePressedKeycode(current_keys, c)}
          BY <4>1, EncodeType DEF TakeBreak, LastCode
        <5>2. /\ RemovePressedKeycode(current_keys, c) \in Seq(KeyCodes)
              /\ Len(RemovePressedKeycode(current_keys, c)) <= MaxKeys
          BY TrackType
        <5>3. current_keys' \in Seq(KeyCodes) /\ Len(current_keys') <= MaxKeys
          BY <5>1, <5>2
        <5> QED
          BY <4>1, <5>3 DEF TakeBreak, BoundInv, KeyTypeOK
      <4>2. CASE TakeMake
        <5>1. PICK c \in KeyCodes : /\ current_keys' = AddPressedKeycode(current_keys, c)
                                    /\ key' = ProcessKeycode(current_keys', c)
          BY <4>2, EncodeType DEF TakeMake, LastCode
        <5>2. /\ AddPressedKeycode(current_keys, c) \in Seq(KeyCodes)
              /\ Len(AddPressedKeycode(current_keys, c)) <= MaxKeys
          BY TrackType
        <5>3. current_keys' \in Seq(KeyCodes) /\ Len(current_keys') <= MaxKeys
          BY <5>1, <5>2
        <5>4. key' \in Keys
          BY <5>1 DEF ProcessKeycode, Keys, Flags
        <5>5. clean' \in BOOLEAN
          BY <4>2 DEF TakeMake
        <5> QED
          BY <5>3, <5>4, <5>5
      <4> QED
        BY <2>3, <4>1, <4>2
    <3>5. Range(current_keys') \subseteq KeyCodes
      BY <3>4, RangeOfKeys
    <3>6. Len(unencoded') <= BufLen
      BY <3>2
    <3>7. KeyTypeOK'
      BY <1>6, <3>2, <3>4, <3>5, <3>6 DEF BoundInv, KeyTypeOK
    <3> QED
      BY <2>1, <3>3, <3>4, <3>7 DEF BoundInv
  <2> QED
    BY <1>6, <2>2, <2>3
<1> QED
  BY <1>5, <1>6

LEMMA BoundStep == BoundInv /\ [KeyNext]_KeyVars => BoundInv'
<1>1. CASE UNCHANGED KeyVars
  BY <1>1 DEF KeyVars, BoundInv, KeyTypeOK, WireShape, PrefixesCome, PrefixesBounded
<1>2. ASSUME BoundInv, KeyNext PROVE BoundInv'
  BY <1>2, UserBound, LoseBound, HandleBound DEF KeyNext
<1> QED
  BY <1>1, <1>2

LEMMA BoundInvariant == KeySpec => []BoundInv
BY BoundStart, BoundStep, PTL DEF KeySpec

\* The array current_unencoded_key is overrun only when a byte after the
\* prefix was lost almost as often as it has bytes, because handle_ps2_set_1
\* empties it with every byte that completes a code.
THEOREM PrefixesTheorem == KeySpec => []PrefixesBounded
<1>1. BoundInv => PrefixesBounded
  BY DEF BoundInv
<1> QED
  BY <1>1, BoundInvariant, PTL

-----------------------------------------------------------------------------
(* One code at a time *)

\* The two codes of a key
CodeOf(k, b) ==
    \/ MakeCode[k] = <<b>> /\ BreakCode[k] = <<b + 128>>
    \/ MakeCode[k] = <<Prefix, b>> /\ BreakCode[k] = <<Prefix, b + 128>>

LEMMA KeyCode ==
    ASSUME NEW k \in PhysKeys
    PROVE  \E b \in CodeBytes : CodeOf(k, b)
BY CodesAssumption DEF CodeOf

LEMMA ByteIs ==
    ASSUME NEW b \in CodeBytes
    PROVE  /\ b \in 0 .. 127 /\ b # Prefix /\ b + 128 # Prefix /\ (b + 128) - 128 = b
           /\ b + 128 >= 128 /\ ~ (b >= 128)
BY DEF CodeBytes, Prefix

LEMMA MakeKnown ==
    ASSUME NEW k \in PhysKeys
    PROVE  Encode(MakeCode[k]) = IF k \in Known THEN k ELSE NoKey
<1>1. Encode(MakeCode[k]) \in {k, NoKey}
  BY CodesAssumption
<1> QED
  BY <1>1 DEF Known

LEMMA MakeUnique ==
    ASSUME NEW x \in Known, NEW y \in PhysKeys, MakeCode[x] = MakeCode[y]
    PROVE  x = y
<1>1. x \in PhysKeys /\ Encode(MakeCode[y]) = x
  BY DEF Known
<1>2. Encode(MakeCode[y]) \in {y, NoKey} /\ NoKey \notin PhysKeys
  BY CodesAssumption
<1> QED
  BY <1>1, <1>2

LEMMA CodesDiffer ==
    ASSUME NEW x \in PhysKeys, NEW y \in PhysKeys
    PROVE  /\ MakeCode[x] # BreakCode[y]
           /\ BreakCode[x] = BreakCode[y] => MakeCode[x] = MakeCode[y]
<1>1. PICK b \in CodeBytes : CodeOf(x, b)
  BY KeyCode
<1>2. PICK c \in CodeBytes : CodeOf(y, c)
  BY KeyCode
<1>3. b \in 0 .. 127 /\ c \in 0 .. 127 /\ b # c + 128 /\ (b + 128 = c + 128 => b = c)
  BY ByteIs
<1> PICK d, e : d = b + 128 /\ e = c + 128
  OBVIOUS
<1>4. b # e /\ (d = e => b = c)
  BY <1>3
<1>5. \/ MakeCode[x] = <<b>> /\ BreakCode[x] = <<d>>
      \/ MakeCode[x] = <<Prefix, b>> /\ BreakCode[x] = <<Prefix, d>>
  BY <1>1 DEF CodeOf
<1>6. \/ MakeCode[y] = <<c>> /\ BreakCode[y] = <<e>>
      \/ MakeCode[y] = <<Prefix, c>> /\ BreakCode[y] = <<Prefix, e>>
  BY <1>2 DEF CodeOf
<1> QED
  BY <1>4, <1>5, <1>6

LEMMA SendingOne ==
    ASSUME NEW c, NEW d, CodeShape(c), CodeShape(d), Sending(c)
    PROVE  wire # <<>> /\ (Sending(d) => c = d)
<1>1. PICK b \in 0 .. 255 \ {Prefix} : c = <<b>> \/ c = <<Prefix, b>>
  BY DEF CodeShape
<1>2. PICK e \in 0 .. 255 \ {Prefix} : d = <<e>> \/ d = <<Prefix, e>>
  BY DEF CodeShape
<1>3. \/ c = <<b>> /\ unencoded = <<>> /\ wire = <<b>>
      \/ c = <<Prefix, b>> /\ unencoded = <<>> /\ wire = <<Prefix, b>>
      \/ c = <<Prefix, b>> /\ unencoded = <<Prefix>> /\ wire = <<b>>
  BY <1>1 DEF Sending
<1>4. Sending(d) => \/ d = <<e>> /\ unencoded = <<>> /\ wire = <<e>>
                    \/ d = <<Prefix, e>> /\ unencoded = <<>> /\ wire = <<Prefix, e>>
                    \/ d = <<Prefix, e>> /\ unencoded = <<Prefix>> /\ wire = <<e>>
  BY <1>2 DEF Sending
<1>5. wire # <<>>
  BY <1>3
<1>6. Sending(d) => c = d
  BY <1>3, <1>4
<1> QED
  BY <1>5, <1>6

\* The code on its way is the make or the break code of one key the decoder
\* knows at most.
OnlyCode ==
    \A x, y \in PhysKeys :
        /\ Making(x) \/ Breaking(x) => wire # <<>>
        /\ ~ (Making(x) /\ Breaking(y))
        /\ x \in Known /\ Making(x) /\ Making(y) => x = y
        /\ x \in Known /\ Breaking(x) /\ Breaking(y) => x = y

LEMMA OnlyOne == OnlyCode
<1> SUFFICES ASSUME NEW x \in PhysKeys, NEW y \in PhysKeys
             PROVE  /\ Making(x) \/ Breaking(x) => wire # <<>>
                    /\ ~ (Making(x) /\ Breaking(y))
                    /\ x \in Known /\ Making(x) /\ Making(y) => x = y
                    /\ x \in Known /\ Breaking(x) /\ Breaking(y) => x = y
  BY DEF OnlyCode
<1>1. /\ CodeShape(MakeCode[x]) /\ CodeShape(BreakCode[x])
      /\ CodeShape(MakeCode[y]) /\ CodeShape(BreakCode[y])
  BY CodesShape
<1>2. Making(x) \/ Breaking(x) => wire # <<>>
  BY <1>1, SendingOne DEF Making, Breaking
<1>3. ~ (Making(x) /\ Breaking(y))
  BY <1>1, SendingOne, CodesDiffer DEF Making, Breaking
<1>4. x \in Known /\ Making(x) /\ Making(y) => x = y
  BY <1>1, SendingOne, MakeUnique DEF Making
<1>5. x \in Known /\ Breaking(x) /\ Breaking(y) => x = y
  BY <1>1, SendingOne, CodesDiffer, MakeUnique DEF Breaking
<1> QED
  BY <1>2, <1>3, <1>4, <1>5

LEMMA OnlyOneNext == OnlyCode'
BY OnlyOne, PTL

LEMMA AppendByte ==
    ASSUME NEW a, NEW b
    PROVE  Append(<<>>, b) = <<b>> /\ Append(<<a>>, b) = <<a, b>>
<1>1. Append(<<>>, b) = <<b>>
  OBVIOUS
<1>2. Append(<<a>>, b) = <<a, b>>
  <2> DEFINE S == {a, b}
  <2>1. <<a>> \in Seq(S) /\ <<a, b>> \in Seq(S) /\ Len(<<a>>) = 1 /\ Len(<<a, b>>) = 2
    OBVIOUS
  <2>2. /\ Append(<<a>>, b) \in Seq(S) /\ Len(Append(<<a>>, b)) = 2
        /\ Append(<<a>>, b)[1] = a /\ Append(<<a>>, b)[2] = b
    OBVIOUS
  <2>3. <<a, b>>[1] = a /\ <<a, b>>[2] = b
    OBVIOUS
  <2>4. \A i \in 1 .. 2 : Append(<<a>>, b)[i] = <<a, b>>[i]
    BY <2>2, <2>3
  <2> QED
    BY <2>1, <2>2, <2>4, SeqEqual
<1> QED
  BY <1>1, <1>2

\* The last byte of a code
LEMMA CodeArrives ==
    ASSUME NEW k \in PhysKeys, NEW w, wire = <<w>>, w # Prefix
    PROVE  /\ Making(k) => ~ (w >= 128) /\ LastCode(w) = Encode(MakeCode[k])
           /\ Breaking(k) => w >= 128 /\ LastCode(w - 128) = Encode(MakeCode[k])
<1>1. PICK b \in CodeBytes : CodeOf(k, b)
  BY KeyCode
<1>2. /\ b \in 0 .. 127 /\ b # Prefix /\ b + 128 # Prefix /\ (b + 128) - 128 = b
      /\ b + 128 >= 128 /\ ~ (b >= 128)
  BY ByteIs
<1> PICK d : d = b + 128
  OBVIOUS
<1>3. \/ MakeCode[k] = <<b>> /\ BreakCode[k] = <<d>>
      \/ MakeCode[k] = <<Prefix, b>> /\ BreakCode[k] = <<Prefix, d>>
  BY <1>1 DEF CodeOf
<1>4. ASSUME Making(k) PROVE w = b /\ Append(unencoded, b) = MakeCode[k]
  <2>1. \/ unencoded = <<>> /\ wire = <<b>> /\ MakeCode[k] = <<b>>
        \/ unencoded = <<>> /\ wire = <<Prefix, b>>
        \/ unencoded = <<Prefix>> /\ wire = <<b>> /\ MakeCode[k] = <<Prefix, b>>
    BY <1>3, <1>4 DEF Making, Sending
  <2>2. wire # <<Prefix, b>>
    OBVIOUS
  <2>3. wire = <<b>> => w = b
    OBVIOUS
  <2> QED
    BY <2>1, <2>2, <2>3, AppendByte
<1>5. ASSUME Breaking(k) PROVE w = d /\ Append(unencoded, b) = MakeCode[k]
  <2>1. \/ unencoded = <<>> /\ wire = <<d>> /\ MakeCode[k] = <<b>>
        \/ unencoded = <<>> /\ wire = <<Prefix, d>>
        \/ unencoded = <<Prefix>> /\ wire = <<d>> /\ MakeCode[k] = <<Prefix, b>>
    BY <1>3, <1>5 DEF Breaking, Sending
  <2>2. wire # <<Prefix, d>>
    OBVIOUS
  <2>3. wire = <<d>> => w = d
    OBVIOUS
  <2> QED
    BY <2>1, <2>2, <2>3, AppendByte
<1>6. Making(k) => ~ (w >= 128) /\ LastCode(w) = Encode(MakeCode[k])
  BY <1>2, <1>4 DEF LastCode
<1>7. Breaking(k) => w >= 128 /\ LastCode(w - 128) = Encode(MakeCode[k])
  BY <1>2, <1>5 DEF LastCode
<1> QED
  BY <1>6, <1>7

\* The prefix moves from the wire to the decoder.
LEMMA PrefixMoves ==
    ASSUME NEW b, b # Prefix, unencoded = <<>>, wire = <<Prefix, b>>,
           unencoded' = Append(unencoded, Prefix), wire' = Tail(wire),
           NEW c, CodeShape(c)
    PROVE  (unencoded' = <<>> /\ wire' = c)
               \/ (Len(c) = 2 /\ unencoded' = <<c[1]>> /\ wire' = <<c[2]>>)
           <=> Sending(c)
<1>1. PICK e \in 0 .. 255 \ {Prefix} : c = <<e>> \/ c = <<Prefix, e>>
  BY DEF CodeShape
<1>2. unencoded' = <<Prefix>> /\ wire' = <<b>>
  OBVIOUS
<1>3. CASE c = <<e>>
  BY <1>1, <1>2, <1>3 DEF Sending
<1>4. CASE c = <<Prefix, e>>
  BY <1>1, <1>2, <1>4 DEF Sending
<1> QED
  BY <1>1, <1>3, <1>4

-----------------------------------------------------------------------------
(* The keys that are down *)

\* CleanInv for a state that is clean
Tracked ==
    /\ Range(current_keys) \subseteq Known
    /\ OneCode /\ DownEntered /\ UpRemoved /\ CapsToggled /\ KeyHanded

LEMMA CleanStart == KeyInit => CleanInv
<1> SUFFICES ASSUME KeyInit PROVE CleanInv
  OBVIOUS
<1>1. current_keys = <<>> /\ wire = <<>> /\ unencoded = <<>> /\ key = NullKey /\ down = {} /\ caps = FALSE
  BY DEF KeyInit
<1>2. \A x : ~ CodeIsPressed(current_keys, x) /\ Once(current_keys, x)
  BY <1>1 DEF CodeIsPressed, Once, Range
<1>3. Range(current_keys) \subseteq Known
  BY <1>2 DEF CodeIsPressed
<1>4. \A x : ~ Making(x)
  BY <1>1, OnlyOne DEF OnlyCode, Making
<1>5. key.code = NoKey
  BY <1>1 DEF NullKey
<1>6. OneCode /\ DownEntered /\ KeyHanded
  BY <1>1, <1>5 DEF OneCode, DownEntered, KeyHanded
<1>7. UpRemoved
  BY <1>2 DEF UpRemoved
<1>8. CapsToggled
  BY <1>1, <1>2, <1>4 DEF CapsToggled
<1> QED
  BY <1>3, <1>6, <1>7, <1>8 DEF CleanInv

\* Between two codes
LEMMA Between ==
    ASSUME wire = <<>>, OneCode
    PROVE  unencoded = <<>> /\ \A x : ~ Making(x) /\ ~ Breaking(x)
<1>1. \A x : ~ Making(x) /\ ~ Breaking(x)
  BY OnlyOne DEF OnlyCode, Making, Breaking
<1> QED
  BY <1>1 DEF OneCode

\* The code of CapsLock is taken for no other.
LEMMA CapsMaking ==
    ASSUME NEW k \in PhysKeys, Making(k)'
    PROVE  Making("CapsLock")' <=> k = "CapsLock"
<1>1. CASE "CapsLock" \in PhysKeys
  <2>1. "CapsLock" \in Known
    BY <1>1, CodesAssumption
  <2> QED
    BY <1>1, <2>1, OnlyOneNext DEF OnlyCode
<1>2. CASE "CapsLock" \notin PhysKeys
  BY <1>2 DEF Making
<1> QED
  BY <1>1, <1>2

LEMMA PressClean ==
    ASSUME BoundInv, CleanInv, NEW k \in PhysKeys, Press(k)
    PROVE  CleanInv'
<1>0. /\ wire = <<>> /\ k \notin down /\ down' = down \cup {k} /\ latest' = k
      /\ wire' = MakeCode[k] /\ key' = NullKey /\ caps' = (caps # (k = "CapsLock"))
      /\ current_keys' = current_keys /\ unencoded' = unencoded /\ repeats' = repeats
      /\ clean' = clean /\ caps \in BOOLEAN
  BY DEF Press, Send, Driver, BoundInv, KeyTypeOK
<1> SUFFICES ASSUME clean PROVE Tracked'
  BY <1>0 DEF CleanInv, Tracked
<1>1. Range(current_keys) \subseteq Known /\ OneCode /\ DownEntered /\ UpRemoved /\ CapsToggled
  BY DEF CleanInv
<1>2. unencoded = <<>> /\ \A x : ~ Making(x) /\ ~ Breaking(x)
  BY <1>0, <1>1, Between
<1>3. Making(k)'
  BY <1>0, <1>2 DEF Making, Sending
<1>4. /\ \A x \in PhysKeys : ~ Breaking(x)'
      /\ \A x \in Known : Making(x)' <=> x = k
  BY <1>3, OnlyOneNext DEF OnlyCode, Known
<1>5. OneCode'
  BY <1>0, <1>3 DEF OneCode
<1>6. DownEntered'
  BY <1>0, <1>1, <1>2, <1>3 DEF DownEntered
<1>7. UpRemoved'
  <2> SUFFICES ASSUME NEW x \in Known \ {"CapsLock"}, repeats[x] = 0
               PROVE  /\ Once(current_keys, x)
                      /\ x \notin down \cup {k} => ~ CodeIsPressed(current_keys, x)
                      /\ Making(x)' => ~ CodeIsPressed(current_keys, x)
    BY <1>0 DEF UpRemoved
  <2>1. /\ Once(current_keys, x)
        /\ x \notin down => ~ CodeIsPressed(current_keys, x)
    BY <1>1, <1>2 DEF UpRemoved
  <2> QED
    BY <1>0, <1>4, <2>1
<1>8. CapsToggled'
  <2>1. Making("CapsLock")' <=> k = "CapsLock"
    BY <1>3, CapsMaking
  <2>2. Once(current_keys, "CapsLock") /\ (CodeIsPressed(current_keys, "CapsLock") <=> caps)
    BY <1>1, <1>2 DEF CapsToggled
  <2>3. caps' <=> ~ (caps <=> k = "CapsLock")
    BY <1>0
  <2> QED
    BY <1>0, <2>1, <2>2, <2>3 DEF CapsToggled
<1>9. KeyHanded'
  BY <1>0 DEF KeyHanded, NullKey
<1> QED
  BY <1>0, <1>1, <1>5, <1>6, <1>7, <1>8, <1>9 DEF Tracked

LEMMA RepeatClean ==
    ASSUME BoundInv, CleanInv, NEW k \in PhysKeys, Repeat(k)
    PROVE  CleanInv'
<1>0. /\ wire = <<>> /\ k \in down /\ k = latest /\ down' = down /\ latest' = latest
      /\ wire' = MakeCode[k] /\ key' = NullKey /\ caps' = (caps # (k = "CapsLock"))
      /\ current_keys' = current_keys /\ unencoded' = unencoded
      /\ clean' = clean /\ caps \in BOOLEAN
  BY DEF Repeat, Send, Driver, BoundInv, KeyTypeOK
<1>1. \A x \in PhysKeys : repeats'[x] = 0 => repeats[x] = 0 /\ x # k
  <2>1. repeats \in [PhysKeys -> 0 .. MaxRepeats] /\ repeats' = [repeats EXCEPT ![k] = repeats[k] + 1]
    BY DEF Repeat, BoundInv, KeyTypeOK
  <2>2. repeats[k] \in Nat
    BY <2>1, KeysAssumption
  <2>3. repeats[k] + 1 # 0
    BY <2>2
  <2> QED
    BY <2>1, <2>3
<1> SUFFICES ASSUME clean PROVE Tracked'
  BY <1>0 DEF CleanInv, Tracked
<1>2. Range(current_keys) \subseteq Known /\ OneCode /\ DownEntered /\ UpRemoved /\ CapsToggled
  BY DEF CleanInv
<1>3. unencoded = <<>> /\ \A x : ~ Making(x) /\ ~ Breaking(x)
  BY <1>0, <1>2, Between
<1>4. Making(k)'
  BY <1>0, <1>3 DEF Making, Sending
<1>5. \A x \in Known : Making(x)' <=> x = k
  BY <1>4, OnlyOneNext DEF OnlyCode, Known
<1>6. OneCode'
  BY <1>0, <1>4 DEF OneCode
<1>7. DownEntered'
  BY <1>0, <1>2, <1>3 DEF DownEntered
<1>8. UpRemoved'
  <2> SUFFICES ASSUME NEW x \in Known \ {"CapsLock"}, repeats'[x] = 0
               PROVE  /\ Once(current_keys, x)
                      /\ x \notin down => ~ CodeIsPressed(current_keys, x)
                      /\ Making(x)' => ~ CodeIsPressed(current_keys, x)
    BY <1>0 DEF UpRemoved
  <2>1. repeats[x] = 0 /\ x # k
    BY <1>1 DEF Known
  <2>2. /\ Once(current_keys, x)
        /\ x \notin down => ~ CodeIsPressed(current_keys, x)
    BY <1>2, <1>3, <2>1 DEF UpRemoved
  <2> QED
    BY <1>5, <2>1, <2>2
<1>9. CapsToggled'
  <2>1. Making("CapsLock")' <=> k = "CapsLock"
    BY <1>4, CapsMaking
  <2>2. Once(current_keys, "CapsLock") /\ (CodeIsPressed(current_keys, "CapsLock") <=> caps)
    BY <1>2, <1>3 DEF CapsToggled
  <2>3. caps' <=> ~ (caps <=> k = "CapsLock")
    BY <1>0
  <2> QED
    BY <1>0, <2>1, <2>2, <2>3 DEF CapsToggled
<1>10. KeyHanded'
  BY <1>0 DEF KeyHanded, NullKey
<1> QED
  BY <1>0, <1>2, <1>6, <1>7, <1>8, <1>9, <1>10 DEF Tracked

LEMMA ReleaseClean ==
    ASSUME BoundInv, CleanInv, NEW k \in PhysKeys, Release(k)
    PROVE  CleanInv'
<1>0. /\ wire = <<>> /\ k \in down /\ down' = down \ {k}
      /\ wire' = BreakCode[k] /\ key' = NullKey /\ caps' = caps /\ repeats' = repeats
      /\ current_keys' = current_keys /\ unencoded' = unencoded /\ clean' = clean
  BY DEF Release, Send, Driver
<1> SUFFICES ASSUME clean PROVE Tracked'
  BY <1>0 DEF CleanInv, Tracked
<1>1. Range(current_keys) \subseteq Known /\ OneCode /\ DownEntered /\ UpRemoved /\ CapsToggled
  BY DEF CleanInv
<1>2. unencoded = <<>> /\ \A x : ~ Making(x) /\ ~ Breaking(x)
  BY <1>0, <1>1, Between
<1>3. Breaking(k)'
  BY <1>0, <1>2 DEF Breaking, Sending
<1>4. \A x : ~ Making(x)'
  BY <1>3, OnlyOneNext DEF OnlyCode, Making
<1>5. OneCode'
  BY <1>0, <1>3 DEF OneCode
<1>6. DownEntered'
  BY <1>0, <1>1, <1>2 DEF DownEntered
<1>7. UpRemoved'
  <2> SUFFICES ASSUME NEW x \in Known \ {"CapsLock"}, repeats[x] = 0
               PROVE  /\ Once(current_keys, x)
                      /\ x \notin down \ {k} => ~ CodeIsPressed(current_keys, x) \/ Breaking(x)'
                      /\ Making(x)' => ~ CodeIsPressed(current_keys, x)
    BY <1>0 DEF UpRemoved
  <2>1. /\ Once(current_keys, x)
        /\ x \notin down => ~ CodeIsPressed(current_keys, x)
    BY <1>1, <1>2 DEF UpRemoved
  <2> QED
    BY <1>3, <1>4, <2>1
<1>8. CapsToggled'
  <2>1. Once(current_keys, "CapsLock") /\ (CodeIsPressed(current_keys, "CapsLock") <=> caps)
    BY <1>1, <1>2 DEF CapsToggled
  <2> QED
    BY <1>0, <1>4, <2>1 DEF CapsToggled
<1>9. KeyHanded'
  BY <1>0 DEF KeyHanded, NullKey
<1> QED
  BY <1>0, <1>1, <1>5, <1>6, <1>7, <1>8, <1>9 DEF Tracked

\* A prefix is held, and the same code is on its way.
LEMMA HoldClean ==
    ASSUME BoundInv, clean, Tracked, wire # <<>>, wire' = Tail(wire), HoldPrefix,
           UNCHANGED <<down, latest, repeats, caps>>
    PROVE  Tracked'
<1>1. /\ unencoded' = Append(unencoded, Prefix) /\ key' = key /\ current_keys' = current_keys
      /\ down' = down /\ latest' = latest /\ repeats' = repeats /\ caps' = caps
  BY DEF HoldPrefix
<1>2. PICK b \in 0 .. 255 \ {Prefix} : wire = <<Prefix, b>> /\ Tail(wire) = <<b>>
  BY WireCases DEF BoundInv, HoldPrefix
<1>3. unencoded = <<>>
  <2>1. PICK k \in PhysKeys : Making(k) \/ Breaking(k)
    BY DEF Tracked, OneCode
  <2>2. PICK c : CodeShape(c) /\ Sending(c)
    BY <2>1, CodesShape DEF Making, Breaking
  <2>3. \A x : wire # <<x>>
    BY <1>2
  <2> QED
    BY <2>2, <2>3 DEF Sending
<1>4. \A x : (Making(x)' <=> Making(x)) /\ (Breaking(x)' <=> Breaking(x))
  <2>1. \A x \in PhysKeys : /\ (Making(x)' <=> Making(x))
                             /\ (Breaking(x)' <=> Breaking(x))
    <3> TAKE x \in PhysKeys
    <3>1. CodeShape(MakeCode[x]) /\ CodeShape(BreakCode[x])
      BY CodesShape
    <3>2. (Making(x)' <=> Making(x))
      BY <1>1, <1>2, <1>3, <3>1, PrefixMoves DEF Making, Sending
    <3>3. (Breaking(x)' <=> Breaking(x))
      BY <1>1, <1>2, <1>3, <3>1, PrefixMoves DEF Breaking, Sending
    <3> QED
      BY <3>2, <3>3
  <2> QED
    BY <2>1 DEF Making, Breaking
<1>5. OneCode'
  BY <1>1, <1>4 DEF Tracked, OneCode
<1>6. DownEntered'
  BY <1>1, <1>4 DEF Tracked, DownEntered
<1>7. UpRemoved'
  BY <1>1, <1>4 DEF Tracked, UpRemoved
<1>8. CapsToggled'
  BY <1>1, <1>4 DEF Tracked, CapsToggled
<1>9. KeyHanded'
  BY <1>1, <1>2 DEF KeyHanded
<1> QED
  BY <1>1, <1>5, <1>6, <1>7, <1>8, <1>9 DEF Tracked

\* The last byte of a make code
LEMMA MakeClean ==
    ASSUME BoundInv, Tracked, wire # <<>>, wire' = Tail(wire), TakeMake, clean',
           UNCHANGED <<down, latest, repeats, caps>>
    PROVE  Tracked'
<1> PICK w : w = Head(wire)
  OBVIOUS
<1>1. wire = <<w>> /\ w # Prefix /\ ~ (w >= 128) /\ wire' = <<>>
  BY WireCases DEF BoundInv, TakeMake
<1>2. PICK k \in PhysKeys : k \in down /\ k = latest /\ Making(k)
  <2>1. PICK k \in PhysKeys : (k \in down /\ k = latest /\ Making(k)) \/ Breaking(k)
    BY DEF Tracked, OneCode
  <2>2. ~ Breaking(k)
    BY <1>1, CodeArrives
  <2> QED
    BY <2>1, <2>2
<1>3. /\ \A x \in PhysKeys : ~ Breaking(x)
      /\ \A x \in Known : Making(x) => x = k
  BY <1>2, OnlyOne DEF OnlyCode, Known
<1>4. \A x : ~ Making(x)' /\ ~ Breaking(x)'
  BY <1>1, OnlyOneNext DEF OnlyCode, Making, Breaking
<1> PICK c : c = LastCode(w)
  OBVIOUS
<1>5. c = IF k \in Known THEN k ELSE NoKey
  BY <1>1, <1>2, CodeArrives, MakeKnown
<1>6. k # NoKey
  BY CodesAssumption
<1>7. /\ unencoded' = <<>> /\ current_keys' = AddPressedKeycode(current_keys, c)
      /\ key' = ProcessKeycode(current_keys', c) /\ Len(current_keys) < MaxKeys
      /\ down' = down /\ latest' = latest /\ repeats' = repeats /\ caps' = caps
  BY DEF TakeMake
<1>8. current_keys \in Seq(KeyCodes) /\ Range(current_keys) \subseteq Known /\ caps \in BOOLEAN
  BY DEF BoundInv, KeyTypeOK, Tracked
<1>9. OneCode'
  BY <1>1, <1>7 DEF OneCode
<1>10. KeyHanded'
  <2>1. key'.code = c
    BY <1>7 DEF ProcessKeycode
  <2> QED
    BY <1>2, <1>5, <1>7, <2>1 DEF KeyHanded
<1>11. CASE k \notin Known
  <2>1. current_keys' = current_keys
    BY <1>5, <1>7, <1>11 DEF AddPressedKeycode
  <2>2. \A x \in Known : ~ Making(x) /\ ~ Breaking(x)
    BY <1>3, <1>11 DEF Known
  <2>3. ~ Making("CapsLock")
    BY <2>2, CodesAssumption DEF Making
  <2>4. DownEntered'
    BY <1>7, <2>1, <2>2 DEF Tracked, DownEntered
  <2>5. UpRemoved'
    BY <1>4, <1>7, <2>1, <2>2 DEF Tracked, UpRemoved
  <2>6. CapsToggled'
    BY <1>4, <1>7, <2>1, <2>3 DEF Tracked, CapsToggled
  <2> QED
    BY <1>8, <1>9, <1>10, <2>1, <2>4, <2>5, <2>6 DEF Tracked
<1>12. CASE k \in Known /\ k # "CapsLock"
  <2> PICK ks, r : ks = current_keys /\ r = Append(ks, k)
    OBVIOUS
  <2>1. current_keys' = r
    BY <1>5, <1>6, <1>7, <1>12 DEF AddPressedKeycode, Push
  <2>2. k \in KeyCodes
    <3>1. Encode(MakeCode[k]) = k
      BY <1>12 DEF Known
    <3> QED
      BY <3>1, EncodeType
  <2>3. /\ \A x : x \in Range(r) <=> x \in Range(ks) \/ x = k
        /\ \A x : x # k /\ Once(ks, x) => Once(r, x)
        /\ k \notin Range(ks) => Once(r, k)
    <3>1. ks \in Seq(KeyCodes)
      BY <1>8
    <3> QED
      BY <2>2, <3>1, AppendKey, Zenon
  <2>4. Range(current_keys') \subseteq Known
    BY <1>8, <1>12, <2>1, <2>3
  <2>5. DownEntered'
    <3> SUFFICES ASSUME NEW x \in (down \cap Known) \ {"CapsLock"} PROVE x \in Range(r)
      BY <1>7, <2>1 DEF DownEntered, CodeIsPressed
    <3>1. x \in Range(ks) \/ Making(x)
      BY DEF Tracked, DownEntered, CodeIsPressed
    <3> QED
      BY <1>3, <2>3, <3>1
  <2>6. UpRemoved'
    <3> SUFFICES ASSUME NEW x \in Known \ {"CapsLock"}, repeats[x] = 0
                 PROVE  Once(r, x) /\ (x \notin down => x \notin Range(r))
      BY <1>4, <1>7, <2>1 DEF UpRemoved, CodeIsPressed
    <3>1. /\ Once(ks, x) /\ (x \notin down => x \notin Range(ks) \/ Breaking(x))
          /\ Making(x) => x \notin Range(ks)
      BY DEF Tracked, UpRemoved, CodeIsPressed
    <3>2. x \in PhysKeys
      BY DEF Known
    <3> QED
      BY <1>2, <1>3, <2>3, <3>1, <3>2
  <2>7. CapsToggled'
    <3>1. ~ Making("CapsLock")
      BY <1>3, <1>12, CodesAssumption DEF Making
    <3>2. Once(ks, "CapsLock") /\ ("CapsLock" \in Range(ks) <=> caps)
      BY <3>1 DEF Tracked, CapsToggled, CodeIsPressed
    <3>3. Once(r, "CapsLock") /\ ("CapsLock" \in Range(r) <=> caps)
      BY <1>12, <2>3, <3>2
    <3>4. Once(current_keys', "CapsLock") /\ (CodeIsPressed(current_keys', "CapsLock") <=> caps)
      BY <2>1, <3>3 DEF CodeIsPressed
    <3> QED
      BY <1>4, <1>7, <3>4 DEF CapsToggled
  <2> QED
    BY <1>9, <1>10, <2>4, <2>5, <2>6, <2>7 DEF Tracked
<1>13. CASE k \in Known /\ k = "CapsLock"
  <2> PICK ks, r : ks = current_keys /\ r = current_keys'
    OBVIOUS
  <2>1. k \in KeyCodes
    <3>1. Encode(MakeCode[k]) = k
      BY <1>13 DEF Known
    <3> QED
      BY <3>1, EncodeType
  <2>2. Once(ks, k) /\ (k \in Range(ks) <=> ~ caps)
    BY <1>2, <1>13 DEF Tracked, CapsToggled, CodeIsPressed
  <2>3. /\ \A x : x # k => (x \in Range(r) <=> x \in Range(ks)) /\ (Once(ks, x) => Once(r, x))
        /\ Once(r, k) /\ (k \in Range(r) <=> caps)
    <3>1. CASE k \in Range(ks)
      <4>1. r = RemovePressedKeycode(ks, k)
        BY <1>5, <1>6, <1>7, <1>13, <3>1 DEF AddPressedKeycode, CodeIsPressed
      <4>2. /\ \A x : x \in Range(r) => x \in Range(ks)
            /\ \A x : x # k /\ x \in Range(ks) => x \in Range(r)
            /\ \A x : Once(ks, x) => Once(r, x)
            /\ Once(ks, k) => k \notin Range(r)
        BY <1>6, <1>8, <4>1, RemoveKey
      <4> QED
        BY <2>2, <3>1, <4>2
    <3>2. CASE k \notin Range(ks)
      <4>1. r = Append(ks, k)
        BY <1>5, <1>6, <1>7, <1>13, <3>2 DEF AddPressedKeycode, CodeIsPressed, Push
      <4>2. /\ \A x : x \in Range(r) <=> x \in Range(ks) \/ x = k
            /\ \A x : x # k /\ Once(ks, x) => Once(r, x)
            /\ k \notin Range(ks) => Once(r, k)
        <5>1. ks \in Seq(KeyCodes)
          BY <1>8
        <5> QED
          BY <2>1, <4>1, <5>1, AppendKey, Zenon
      <4> QED
        BY <2>2, <3>2, <4>2
    <3> QED
      BY <3>1, <3>2
  <2>4. Range(current_keys') \subseteq Known
    BY <1>8, <1>13, <2>3
  <2>5. DownEntered'
    <3> SUFFICES ASSUME NEW x \in (down \cap Known) \ {"CapsLock"} PROVE x \in Range(r)
      BY <1>7 DEF DownEntered, CodeIsPressed
    <3>1. x \in Range(ks) \/ Making(x)
      BY DEF Tracked, DownEntered, CodeIsPressed
    <3> QED
      BY <1>3, <1>13, <2>3, <3>1
  <2>6. UpRemoved'
    <3> SUFFICES ASSUME NEW x \in Known \ {"CapsLock"}, repeats[x] = 0
                 PROVE  Once(r, x) /\ (x \notin down => x \notin Range(r))
      BY <1>4, <1>7 DEF UpRemoved, CodeIsPressed
    <3>1. Once(ks, x) /\ (x \notin down => x \notin Range(ks) \/ Breaking(x))
      BY DEF Tracked, UpRemoved, CodeIsPressed
    <3>2. x \in PhysKeys
      BY DEF Known
    <3> QED
      BY <1>3, <1>13, <2>3, <3>1, <3>2
  <2>7. CapsToggled'
    BY <1>4, <1>7, <1>13, <2>3 DEF CapsToggled, CodeIsPressed
  <2> QED
    BY <1>9, <1>10, <2>4, <2>5, <2>6, <2>7 DEF Tracked
<1> QED
  BY <1>11, <1>12, <1>13

\* The last byte of a break code
LEMMA BreakClean ==
    ASSUME BoundInv, Tracked, wire # <<>>, wire' = Tail(wire), TakeBreak,
           UNCHANGED <<down, latest, repeats, caps>>
    PROVE  Tracked'
<1> PICK w : w = Head(wire)
  OBVIOUS
<1>1. wire = <<w>> /\ w # Prefix /\ w >= 128 /\ wire' = <<>>
  BY WireCases DEF BoundInv, TakeBreak
<1>2. PICK k \in PhysKeys : k \notin down /\ Breaking(k) /\ key = NullKey
  <2>1. PICK k \in PhysKeys : key = NullKey /\ (Making(k) \/ (k \notin down /\ Breaking(k)))
    BY DEF Tracked, OneCode
  <2>2. ~ Making(k)
    BY <1>1, CodeArrives
  <2> QED
    BY <2>1, <2>2
<1>3. /\ \A x : ~ Making(x)
      /\ \A x \in Known : Breaking(x) => x = k
  BY <1>2, OnlyOne DEF OnlyCode, Known, Making
<1>4. \A x : ~ Making(x)' /\ ~ Breaking(x)'
  BY <1>1, OnlyOneNext DEF OnlyCode, Making, Breaking
<1> PICK c : c = LastCode(w - 128)
  OBVIOUS
<1>5. c = IF k \in Known THEN k ELSE NoKey
  BY <1>1, <1>2, CodeArrives, MakeKnown
<1>6. k # NoKey
  BY CodesAssumption
<1> PICK ks, r : ks = current_keys /\ r = current_keys'
  OBVIOUS
<1>7. /\ unencoded' = <<>> /\ key' = key
      /\ r = IF c = "CapsLock" THEN ks ELSE RemovePressedKeycode(ks, c)
      /\ down' = down /\ latest' = latest /\ repeats' = repeats /\ caps' = caps
  BY DEF TakeBreak
<1>8. ks \in Seq(KeyCodes) /\ Range(ks) \subseteq Known
  BY DEF BoundInv, Tracked
<1>9. OneCode'
  BY <1>1, <1>7 DEF OneCode
<1>10. KeyHanded'
  <2>1. key'.code = NoKey
    BY <1>2, <1>7 DEF NullKey
  <2> QED
    BY <2>1 DEF KeyHanded
\* Only the key that was released can lose an entry.
<1>11. /\ \A x : x \in Range(r) => x \in Range(ks)
       /\ \A x : x # k /\ x \in Range(ks) => x \in Range(r)
       /\ \A x : Once(ks, x) => Once(r, x)
       /\ k \in Known \ {"CapsLock"} /\ Once(ks, k) => k \notin Range(r)
       /\ k = "CapsLock" => r = ks
  <2>1. CASE c = "CapsLock" \/ c = NoKey
    <3>1. r = ks
      BY <1>7, <2>1 DEF RemovePressedKeycode
    <3>2. k \notin Known \ {"CapsLock"}
      BY <1>5, <1>6, <2>1
    <3> QED
      BY <3>1, <3>2
  <2>2. CASE c # "CapsLock" /\ c # NoKey
    <3>1. c = k /\ r = RemovePressedKeycode(ks, k) /\ k # "CapsLock"
      BY <1>5, <1>7, <2>2
    <3>2. /\ \A x : x \in Range(r) => x \in Range(ks)
          /\ \A x : x # k /\ x \in Range(ks) => x \in Range(r)
          /\ \A x : Once(ks, x) => Once(r, x)
          /\ Once(ks, k) => k \notin Range(r)
      BY <1>6, <1>8, <3>1, RemoveKey
    <3> QED
      BY <3>1, <3>2
  <2> QED
    BY <2>1, <2>2
<1>12. Range(current_keys') \subseteq Known
  BY <1>8, <1>11
<1>13. DownEntered'
  <2> SUFFICES ASSUME NEW x \in (down \cap Known) \ {"CapsLock"} PROVE x \in Range(r)
    BY <1>7 DEF DownEntered, CodeIsPressed
  <2>1. x \in Range(ks)
    BY <1>3 DEF Tracked, DownEntered, CodeIsPressed
  <2> QED
    BY <1>2, <1>11, <2>1
<1>14. UpRemoved'
  <2> SUFFICES ASSUME NEW x \in Known \ {"CapsLock"}, repeats[x] = 0
               PROVE  Once(r, x) /\ (x \notin down => x \notin Range(r))
    BY <1>4, <1>7 DEF UpRemoved, CodeIsPressed
  <2>1. Once(ks, x) /\ (x \notin down => x \notin Range(ks) \/ Breaking(x))
    BY DEF Tracked, UpRemoved, CodeIsPressed
  <2> QED
    BY <1>3, <1>11, <2>1
<1>15. CapsToggled'
  <2>1. Once(ks, "CapsLock") /\ ("CapsLock" \in Range(ks) <=> caps)
    BY <1>3 DEF Tracked, CapsToggled, CodeIsPressed
  <2>2. Once(r, "CapsLock") /\ ("CapsLock" \in Range(r) <=> caps)
    BY <1>11, <2>1
  <2>3. Once(current_keys', "CapsLock") /\ (CodeIsPressed(current_keys', "CapsLock") <=> caps)
    BY <2>2 DEF CodeIsPressed
  <2> QED
    BY <1>4, <1>7, <2>3 DEF CapsToggled
<1> QED
  BY <1>9, <1>10, <1>12, <1>13, <1>14, <1>15 DEF Tracked

LEMMA HandleClean == BoundInv /\ CleanInv /\ ~ panicked /\ HandleByte => CleanInv'
<1> SUFFICES ASSUME BoundInv, CleanInv, HandleByte, clean' PROVE Tracked'
  BY DEF CleanInv, Tracked
<1>1. /\ wire # <<>> /\ wire' = Tail(wire)
      /\ UNCHANGED <<down, latest, repeats, caps>>
      /\ \/ Overrun
         \/ HoldPrefix \/ TakeBreak \/ TakeMake
  BY HandleByteCases
<1>2. clean
  BY <1>1 DEF Overrun, HoldPrefix, TakeBreak, TakeMake
<1>3. Tracked
  BY <1>2 DEF CleanInv, Tracked
\* The decoder holds one byte at most.
<1>4. ~ Overrun
  <2>1. PICK k \in PhysKeys : Making(k) \/ Breaking(k)
    BY <1>1, <1>3 DEF Tracked, OneCode
  <2>2. PICK c : CodeShape(c) /\ Sending(c)
    BY <2>1, CodesShape DEF Making, Breaking
  <2>3. unencoded = <<>> \/ unencoded = <<c[1]>>
    BY <2>2 DEF Sending
  <2>4. Len(unencoded) \in {0, 1}
    BY <2>3
  <2> QED
    <3>1. BufLen \in Nat /\ BufLen # 0 /\ BufLen # 1
      BY KeysAssumption
    <3>2. ~ (Len(unencoded) >= BufLen)
      BY <2>4, <3>1
    <3> QED
      BY <3>2 DEF Overrun
<1> QED
  BY <1>1, <1>2, <1>3, <1>4, HoldClean, BreakClean, MakeClean

LEMMA CleanStep == BoundInv /\ CleanInv /\ [KeyNext]_KeyVars => CleanInv'
<1>1. ASSUME CleanInv, UNCHANGED KeyVars PROVE CleanInv'
  BY <1>1 DEF KeyVars, CleanInv, OneCode, DownEntered, UpRemoved, CapsToggled, KeyHanded,
              Making, Breaking, Sending
<1>2. ASSUME BoundInv, CleanInv, KeyNext PROVE CleanInv'
  <2>1. Lose => CleanInv'
    BY DEF Lose, CleanInv
  <2> QED
    BY <1>2, <2>1, PressClean, RepeatClean, ReleaseClean, HandleClean DEF KeyNext
<1> QED
  BY <1>1, <1>2

LEMMA KeyboardInvariant == KeySpec => []KeyboardInv
<1>1. KeyInit => KeyboardInv
  BY BoundStart, CleanStart DEF KeyboardInv
<1>2. KeyboardInv /\ [KeyNext]_KeyVars => KeyboardInv'
  BY BoundStep, CleanStep DEF KeyboardInv
<1> QED
  BY <1>1, <1>2, PTL DEF KeySpec

\* What the invariant says of a state between two codes
LEMMA SettledKeys ==
    ASSUME KeyboardInv, Settled
    PROVE  /\ \A k \in (down \cap Known) \ {"CapsLock"} : CodeIsPressed(current_keys, k)
           /\ \A k \in PhysKeys \ (down \cup {"CapsLock"}) :
                repeats[k] = 0 => ~ CodeIsPressed(current_keys, k)
           /\ CodeIsPressed(current_keys, "CapsLock") <=> caps
<1>1. wire = <<>> /\ clean
  BY DEF Settled
<1>2. /\ Range(current_keys) \subseteq Known /\ OneCode /\ DownEntered
      /\ UpRemoved /\ CapsToggled
  BY <1>1 DEF KeyboardInv, CleanInv
<1>3. \A x : ~ Making(x) /\ ~ Breaking(x)
  BY <1>1, <1>2, Between
<1>4. \A k \in (down \cap Known) \ {"CapsLock"} : CodeIsPressed(current_keys, k)
  BY <1>2, <1>3 DEF DownEntered
<1>5. ASSUME NEW k \in PhysKeys \ (down \cup {"CapsLock"}), repeats[k] = 0
      PROVE  ~ CodeIsPressed(current_keys, k)
  <2>1. CASE k \in Known
    BY <1>2, <1>3, <1>5, <2>1 DEF UpRemoved
  <2>2. CASE k \notin Known
    BY <1>2, <2>2 DEF CodeIsPressed
  <2> QED
    BY <2>1, <2>2
<1>6. CodeIsPressed(current_keys, "CapsLock") <=> caps
  BY <1>2, <1>3 DEF CapsToggled
<1> QED
  BY <1>4, <1>5, <1>6

\* While no byte is lost and current_keys never full, the keys that
\* add_pressed_keycode and remove_pressed_keycode keep agree between two
\* codes with the keyboard: a held key is pressed, a key released that was
\* never repeated is not, and CapsLock is on after an odd number of its codes.
THEOREM KeysTheorem == KeySpec => []KeysTracked
<1>1. KeyboardInv => KeysTracked
  BY SettledKeys DEF KeysTracked, KeyboardInv, BoundInv
<1> QED
  BY <1>1, KeyboardInvariant, PTL

-----------------------------------------------------------------------------
(* The character meant *)

LEMMA FlagBits ==
    ASSUME NEW F
    PROVE  /\ Bits({} \cap F) = 0
           /\ Bits({"CAPS_LOCK"} \cap F) = IF "CAPS_LOCK" \in F THEN 8 ELSE 0
           /\ Bits({"SHIFT"} \cap F) = IF "SHIFT" \in F THEN 4 ELSE 0
           /\ Bits({"ALT"} \cap F) = IF "ALT" \in F THEN 2 ELSE 0
BY DEF Bits, Bit

\* Of three entries without flags in common, the one with the flag of more
\* weight is chosen.
LEMMA MapThree ==
    ASSUME NEW k, NEW g, NEW h, g # h, DefaultMapping(k.code) = <<{}, {g}, {h}>>,
           NEW v \in Nat, NEW w \in Nat, v > w, w > 0, Bits({} \cap k.flags) = 0,
           Bits({g} \cap k.flags) = IF g \in k.flags THEN v ELSE 0,
           Bits({h} \cap k.flags) = IF h \in k.flags THEN w ELSE 0
    PROVE  MapKey(k) = IF g \in k.flags THEN {g} ELSE IF h \in k.flags THEN {h} ELSE {}
<1> PICK F, e : F = k.flags /\ e = <<{}, {g}, {h}>>
  OBVIOUS
<1> DEFINE Best(i) == \A j \in DOMAIN e :
                          \/ Bits(e[j] \cap F) < Bits(e[i] \cap F)
                          \/ Bits(e[j] \cap F) = Bits(e[i] \cap F) /\ i <= j
           best == IF g \in F THEN 2 ELSE IF h \in F THEN 3 ELSE 1
<1>1. DOMAIN e = {1, 2, 3} /\ e[1] = {} /\ e[2] = {g} /\ e[3] = {h} /\ e # <<>>
  OBVIOUS
<1>2. /\ Bits(e[1] \cap F) = 0 /\ Bits(e[2] \cap F) = (IF g \in F THEN v ELSE 0)
      /\ Bits(e[3] \cap F) = IF h \in F THEN w ELSE 0
  BY <1>1
<1>3. Best(best)
  BY <1>1, <1>2
<1>4. \A i \in DOMAIN e : Best(i) => i = best
  <2> SUFFICES ASSUME NEW i \in DOMAIN e, Best(i), i # best PROVE FALSE
    OBVIOUS
  <2>1. best \in DOMAIN e
    BY <1>1
  <2> QED
    BY <1>1, <1>2, <2>1
<1>5. (CHOOSE i \in DOMAIN e : Best(i)) = best
  <2>1. best \in DOMAIN e
    BY <1>1
  <2> HIDE DEF Best, best
  <2> QED
    BY <1>3, <1>4, <2>1
<1>6. e[best] = IF g \in F THEN {g} ELSE IF h \in F THEN {h} ELSE {}
  BY <1>1
<1>7. Range(e) = {{}, {g}, {h}}
  BY <1>1 DEF Range
<1>8. MapKey(k) = IF F \in Range(e) THEN F ELSE e[CHOOSE i \in DOMAIN e : Best(i)]
  BY <1>1 DEF MapKey
<1>9. CASE F \in Range(e)
  BY <1>7, <1>8, <1>9
<1>10. CASE F \notin Range(e)
  BY <1>5, <1>6, <1>8, <1>10
<1> QED
  BY <1>9, <1>10

LEMMA MapTwo ==
    ASSUME NEW k, NEW g, DefaultMapping(k.code) = <<{}, {g}>>,
           NEW v \in Nat, v > 0, Bits({} \cap k.flags) = 0,
           Bits({g} \cap k.flags) = IF g \in k.flags THEN v ELSE 0
    PROVE  MapKey(k) = IF g \in k.flags THEN {g} ELSE {}
<1> PICK F, e : F = k.flags /\ e = <<{}, {g}>>
  OBVIOUS
<1> DEFINE Best(i) == \A j \in DOMAIN e :
                          \/ Bits(e[j] \cap F) < Bits(e[i] \cap F)
                          \/ Bits(e[j] \cap F) = Bits(e[i] \cap F) /\ i <= j
           best == IF g \in F THEN 2 ELSE 1
<1>1. DOMAIN e = {1, 2} /\ e[1] = {} /\ e[2] = {g} /\ e # <<>>
  OBVIOUS
<1>2. Bits(e[1] \cap F) = 0 /\ Bits(e[2] \cap F) = IF g \in F THEN v ELSE 0
  BY <1>1
<1>3. Best(best)
  BY <1>1, <1>2
<1>4. \A i \in DOMAIN e : Best(i) => i = best
  <2> SUFFICES ASSUME NEW i \in DOMAIN e, Best(i), i # best PROVE FALSE
    OBVIOUS
  <2>1. best \in DOMAIN e
    BY <1>1
  <2> QED
    BY <1>1, <1>2, <2>1
<1>5. (CHOOSE i \in DOMAIN e : Best(i)) = best
  <2>1. best \in DOMAIN e
    BY <1>1
  <2> HIDE DEF Best, best
  <2> QED
    BY <1>3, <1>4, <2>1
<1>6. e[best] = IF g \in F THEN {g} ELSE {}
  BY <1>1
<1>7. Range(e) = {{}, {g}}
  BY <1>1 DEF Range
<1>8. MapKey(k) = IF F \in Range(e) THEN F ELSE e[CHOOSE i \in DOMAIN e : Best(i)]
  BY <1>1 DEF MapKey
<1>9. CASE F \in Range(e)
  BY <1>7, <1>8, <1>9
<1>10. CASE F \notin Range(e)
  BY <1>5, <1>6, <1>8, <1>10
<1> QED
  BY <1>9, <1>10

LEMMA MapOne ==
    ASSUME NEW k, DefaultMapping(k.code) = <<{}>>
    PROVE  MapKey(k) = {}
<1> PICK F, e : F = k.flags /\ e = <<{}>>
  OBVIOUS
<1> DEFINE Best(i) == \A j \in DOMAIN e :
                          \/ Bits(e[j] \cap F) < Bits(e[i] \cap F)
                          \/ Bits(e[j] \cap F) = Bits(e[i] \cap F) /\ i <= j
<1>1. DOMAIN e = {1} /\ e[1] = {} /\ e # <<>> /\ Range(e) = {{}}
  BY DEF Range
<1>2. Best(1)
  <2>1. \A j \in DOMAIN e : j = 1
    BY <1>1
  <2>2. 1 <= 1
    OBVIOUS
  <2> QED
    BY <2>1, <2>2, Zenon
<1>3. (CHOOSE i \in DOMAIN e : Best(i)) \in DOMAIN e
  <2> HIDE DEF Best
  <2> QED
    BY <1>1, <1>2
<1>4. MapKey(k) = IF F \in Range(e) THEN F ELSE e[CHOOSE i \in DOMAIN e : Best(i)]
  BY <1>1 DEF MapKey
<1> QED
  BY <1>1, <1>3, <1>4

\* Meant spelled out
LEMMA MeantIs ==
    ASSUME NEW c, NEW has, has = Range(DefaultMapping(c)), has # {}
    PROVE  Meant(c) = IF On("CAPS_LOCK") /\ {"CAPS_LOCK"} \in has THEN {"CAPS_LOCK"}
                      ELSE IF On("SHIFT") /\ {"SHIFT"} \in has THEN {"SHIFT"}
                      ELSE IF On("ALT") /\ {"ALT"} \in has THEN {"ALT"} ELSE {}
<1> DEFINE on == {i \in DOMAIN Rank : On(Rank[i]) /\ {Rank[i]} \in has}
           first == IF On("CAPS_LOCK") /\ {"CAPS_LOCK"} \in has THEN 1
                    ELSE IF On("SHIFT") /\ {"SHIFT"} \in has THEN 2 ELSE 3
<1>1. DOMAIN Rank = {1, 2, 3} /\ Rank[1] = "CAPS_LOCK" /\ Rank[2] = "SHIFT" /\ Rank[3] = "ALT"
  BY DEF Rank
<1>2. /\ 1 \in on <=> On("CAPS_LOCK") /\ {"CAPS_LOCK"} \in has
      /\ 2 \in on <=> On("SHIFT") /\ {"SHIFT"} \in has
      /\ 3 \in on <=> On("ALT") /\ {"ALT"} \in has
      /\ on \subseteq {1, 2, 3}
  BY <1>1
<1>3. Meant(c) = IF on = {} THEN {} ELSE {Rank[CHOOSE i \in on : \A j \in on : i <= j]}
  BY DEF Meant
<1> HIDE DEF on
<1>4. CASE on = {}
  BY <1>2, <1>3, <1>4
<1>5. CASE on # {}
  <2>1. first \in on
    BY <1>2, <1>5
  <2>2. \A j \in on : first <= j
    BY <1>2
  <2>3. \A i \in on : (\A j \in on : i <= j) => i = first
    BY <1>2, <2>1, <2>2
  <2>4. (CHOOSE i \in on : \A j \in on : i <= j) = first
    <3> HIDE DEF first
    <3> QED
      BY <2>1, <2>2, <2>3
  <2> QED
    BY <1>1, <1>2, <1>3, <1>5, <2>1, <2>4
<1> QED
  BY <1>4, <1>5

\* The entries of a key, and that the modifiers have none
LEMMA Entries ==
    ASSUME NEW c
    PROVE  /\ DefaultMapping(c) \in {<<{}, {"CAPS_LOCK"}, {"SHIFT"}>>, <<{}, {"CAPS_LOCK"}>>,
                                     <<{}, {"SHIFT"}, {"ALT"}>>, <<{}, {"SHIFT"}>>, <<{}>>, <<>>}
           /\ c \in {"Shift", "Ctrl", "Alt", "CapsLock"} => DefaultMapping(c) = <<>>
<1>1. CASE c = "KeyQ"
  BY <1>1 DEF DefaultMapping, Letters, Symbols
<1>2. CASE c \in Letters \ {"KeyQ"}
  BY <1>2 DEF DefaultMapping, Letters, Symbols
<1>3. CASE c \in {"Key1", "Key2", "Key3"}
  BY <1>3 DEF DefaultMapping, Letters, Symbols
<1>4. CASE c \in Symbols
  BY <1>4 DEF DefaultMapping, Letters, Symbols
<1>5. CASE c \in {"Backspace", "Tab", "Return", "Space"}
  BY <1>5 DEF DefaultMapping, Letters, Symbols
<1>6. CASE /\ c # "KeyQ" /\ c \notin Letters \ {"KeyQ"} /\ c \notin {"Key1", "Key2", "Key3"}
           /\ c \notin Symbols /\ c \notin {"Backspace", "Tab", "Return", "Space"}
  BY <1>6 DEF DefaultMapping
<1> QED
  BY <1>1, <1>2, <1>3, <1>4, <1>5, <1>6

\* A modifier that was never repeated is pressed for the driver while it is held.
LEMMA Held ==
    ASSUME KeyboardInv, Settled, NEW m \in {"Shift", "Ctrl", "Alt"},
           m \in PhysKeys => repeats[m] = 0
    PROVE  CodeIsPressed(current_keys, m) <=> m \in down
<1>1. down \subseteq PhysKeys /\ Range(current_keys) \subseteq Known
  BY DEF KeyboardInv, BoundInv, KeyTypeOK, CleanInv, Settled
<1>2. m # "CapsLock"
  OBVIOUS
<1>3. CASE m \in PhysKeys
  <2>1. m \in Known
    BY <1>3, CodesAssumption
  <2>2. CASE m \in down
    BY <1>2, <2>1, <2>2, SettledKeys
  <2>3. CASE m \notin down
    BY <1>2, <1>3, <2>3, SettledKeys
  <2> QED
    BY <2>2, <2>3
<1>4. CASE m \notin PhysKeys
  BY <1>1, <1>4 DEF CodeIsPressed, Known
<1> QED
  BY <1>3, <1>4

\* The flags of a key that has a character
LEMMA FlagsOn ==
    ASSUME KeyboardInv, Settled, NEW c, c \notin {"Shift", "Ctrl", "Alt", "CapsLock"},
           \A k \in {"Shift", "Ctrl", "Alt"} \cap PhysKeys : repeats[k] = 0,
           NEW F, F = ProcessKeycode(current_keys, c).flags
    PROVE  \A f \in {"CAPS_LOCK", "SHIFT", "ALT"} : f \in F <=> On(f)
<1>1. /\ DOMAIN Modifier = {"SHIFT", "CTRL", "ALT", "CAPS_LOCK"}
      /\ Modifier["SHIFT"] = "Shift" /\ Modifier["ALT"] = "Alt" /\ Modifier["CAPS_LOCK"] = "CapsLock"
      /\ Exempt["SHIFT"] = "Ctrl" /\ Exempt["ALT"] = "Alt" /\ Exempt["CAPS_LOCK"] = "CapsLock"
  BY DEF Modifier, Exempt
<1>2. F = {f \in DOMAIN Modifier : CodeIsPressed(current_keys, Modifier[f]) /\ c # Exempt[f]}
  BY DEF ProcessKeycode
<1>3. \A m \in {"Shift", "Alt"} : CodeIsPressed(current_keys, m) <=> m \in down
  BY Held
<1>4. CodeIsPressed(current_keys, "CapsLock") <=> caps
  BY SettledKeys
<1>5. "SHIFT" \in F <=> "Shift" \in down
  BY <1>1, <1>2, <1>3
<1>6. "ALT" \in F <=> "Alt" \in down
  BY <1>1, <1>2, <1>3
<1>7. "CAPS_LOCK" \in F <=> caps
  BY <1>1, <1>2, <1>4
<1>8. (On("SHIFT") <=> "Shift" \in down) /\ (On("ALT") <=> "Alt" \in down) /\ (On("CAPS_LOCK") <=> caps)
  BY <1>1 DEF On
<1> QED
  BY <1>5, <1>6, <1>7, <1>8

LEMMA CharIs ==
    ASSUME KeyboardInv, Settled, key.code # NoKey,
           \A k \in {"Shift", "Ctrl", "Alt"} \cap PhysKeys : repeats[k] = 0
    PROVE  key.code = latest /\ MapKey(key) = Meant(latest)
<1>1. key.code = latest /\ key = ProcessKeycode(current_keys, key.code)
  BY DEF KeyboardInv, CleanInv, Settled, KeyHanded
<1> PICK c, F, e : c = key.code /\ F = key.flags /\ e = DefaultMapping(key.code)
  OBVIOUS
<1>2. e \in {<<{}, {"CAPS_LOCK"}, {"SHIFT"}>>, <<{}, {"CAPS_LOCK"}>>,
             <<{}, {"SHIFT"}, {"ALT"}>>, <<{}, {"SHIFT"}>>, <<{}>>, <<>>}
  BY Entries
<1>3. CASE e = <<>>
  <2>1. MapKey(key) = NoChar
    BY <1>3 DEF MapKey
  <2>2. Range(e) = {}
    BY <1>3 DEF Range
  <2>3. Meant(c) = NoChar
    BY <2>2 DEF Meant
  <2> QED
    BY <1>1, <2>1, <2>3
<1>4. CASE e # <<>>
  <2>1. c \notin {"Shift", "Ctrl", "Alt", "CapsLock"}
    BY <1>4, Entries
  <2>2. \A f \in {"CAPS_LOCK", "SHIFT", "ALT"} : f \in F <=> On(f)
    <3>1. F = ProcessKeycode(current_keys, c).flags
      BY <1>1
    <3> QED
      BY <2>1, <3>1, FlagsOn
  <2> PICK has : has = Range(e)
    OBVIOUS
  <2>3. /\ Bits({} \cap F) = 0
        /\ Bits({"CAPS_LOCK"} \cap F) = IF "CAPS_LOCK" \in F THEN 8 ELSE 0
        /\ Bits({"SHIFT"} \cap F) = IF "SHIFT" \in F THEN 4 ELSE 0
        /\ Bits({"ALT"} \cap F) = IF "ALT" \in F THEN 2 ELSE 0
    BY FlagBits
  <2>0. /\ 8 \in Nat /\ 4 \in Nat /\ 2 \in Nat /\ 8 > 4 /\ 4 > 2 /\ 8 > 0 /\ 4 > 0 /\ 2 > 0
        /\ "CAPS_LOCK" # "SHIFT" /\ "SHIFT" # "ALT"
    OBVIOUS
  <2>4. has # {} => Meant(c) =
            IF "CAPS_LOCK" \in F /\ {"CAPS_LOCK"} \in has THEN {"CAPS_LOCK"}
            ELSE IF "SHIFT" \in F /\ {"SHIFT"} \in has THEN {"SHIFT"}
            ELSE IF "ALT" \in F /\ {"ALT"} \in has THEN {"ALT"} ELSE {}
    BY <2>2, MeantIs
  <2>5. CASE e = <<{}, {"CAPS_LOCK"}, {"SHIFT"}>>
    <3>1. has = {{}, {"CAPS_LOCK"}, {"SHIFT"}}
      BY <2>5 DEF Range
    <3>2. MapKey(key) = IF "CAPS_LOCK" \in F THEN {"CAPS_LOCK"} ELSE IF "SHIFT" \in F THEN {"SHIFT"} ELSE {}
      BY <2>0, <2>3, <2>5, MapThree, Zenon
    <3> QED
      BY <1>1, <2>4, <3>1, <3>2
  <2>6. CASE e = <<{}, {"CAPS_LOCK"}>>
    <3>1. has = {{}, {"CAPS_LOCK"}}
      BY <2>6 DEF Range
    <3>2. MapKey(key) = IF "CAPS_LOCK" \in F THEN {"CAPS_LOCK"} ELSE {}
      BY <2>0, <2>3, <2>6, MapTwo, Zenon
    <3> QED
      BY <1>1, <2>4, <3>1, <3>2
  <2>7. CASE e = <<{}, {"SHIFT"}, {"ALT"}>>
    <3>1. has = {{}, {"SHIFT"}, {"ALT"}}
      BY <2>7 DEF Range
    <3>2. MapKey(key) = IF "SHIFT" \in F THEN {"SHIFT"} ELSE IF "ALT" \in F THEN {"ALT"} ELSE {}
      BY <2>0, <2>3, <2>7, MapThree, Zenon
    <3> QED
      BY <1>1, <2>4, <3>1, <3>2
  <2>8. CASE e = <<{}, {"SHIFT"}>>
    <3>1. has = {{}, {"SHIFT"}}
      BY <2>8 DEF Range
    <3>2. MapKey(key) = IF "SHIFT" \in F THEN {"SHIFT"} ELSE {}
      BY <2>0, <2>3, <2>8, MapTwo, Zenon
    <3> QED
      BY <1>1, <2>4, <3>1, <3>2
  <2>9. CASE e = <<{}>>
    <3>1. has = {{}}
      BY <2>9 DEF Range
    <3>2. MapKey(key) = {}
      BY <2>9, MapOne
    <3> QED
      BY <1>1, <2>4, <3>1, <3>2
  <2> QED
    BY <1>2, <1>4, <2>5, <2>6, <2>7, <2>8, <2>9
<1> QED
  BY <1>3, <1>4

\* The key that handle_ps2_keyboard hands to the terminal is the one pressed
\* last, and map_key finds among the entries of DEFAULT_MAPPING the character
\* meant with the modifiers held, as long as none of them was repeated.
THEOREM CharTheorem == KeySpec => []CharMeant
<1>1. KeyboardInv => CharMeant
  BY CharIs DEF CharMeant
<1> QED
  BY <1>1, KeyboardInvariant, PTL
=============================================================================
