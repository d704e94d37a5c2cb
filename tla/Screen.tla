-------------------------------- MODULE Screen --------------------------------
(***************************************************************************)
(* The interface the terminal draws on: the parser of escape sequences     *)
(* (utils/ansi.rs), the character layout (terminal/framebuffer.rs) and the *)
(* frame buffer, four screens high, with the window that is shown of it    *)
(* (drivers/framebuffer.rs).  Vertical positions are rows of pixels, as in *)
(* the code; a cell is what was last drawn in the place of one character.  *)
(* Colours are left out.  A text is a sequence of bytes, of which only     *)
(* the kinds the code tells apart are kept.                                *)
(***************************************************************************)
EXTENDS Integers, Sequences, SequencesExt

CONSTANTS Cols,         \* characters in a line: stride / RASTER_WIDTH, a whole number
          CharHeight,   \* RASTER_HEIGHT in rows of pixels
          Height,       \* rows of the screen
          Texts,        \* what processes print
          MaxWrites     \* bound: texts printed and keys typed

ASSUME ScreenAssumption ==
    /\ Cols \in Nat \ {0} /\ CharHeight \in Nat \ {0} /\ Height \in Nat
    /\ Height > CharHeight     \* more than one line on the screen
    /\ Texts \subseteq Seq(STRING) /\ MaxWrites \in Nat

VARIABLES cells,        \* FrameBuffer::buffer, by characters in reading order
          top,          \* FrameBuffer::buffer_display_index, in rows
          cursor_x, cursor_y,
          text,         \* what is left of AnsiiParser::text
          chunk,        \* what is left of the piece the parser has returned
          fault,        \* why the kernel panicked, or "no"
          writes,
          line,         \* history: drawn since the line began, or the cursor moved
          moved,        \* history: a sequence has moved the cursor
          paged,        \* history: PageDown was pressed since the last clear
          gap           \* history: an empty line was output, PageUp pressed, or the
                        \* window erased when it did not begin with a line

vars == <<cells, top, cursor_x, cursor_y, text, chunk, fault, writes, line, moved, paged, gap>>

Rows == 4 * Height
Lines == Rows \div CharHeight
Cell == 0 .. Lines * Cols - 1
Blank == " "
Damaged == "~"

\* The kinds of bytes
Esc == "esc"
Newline == "\n"
Return == "\r"
Continuation == "x"     \* the second byte of a character of two
Digits == <<"0", "1", "2", "3", "4", "5", "6", "7", "8", "9">>
Digit == [c \in Range(Digits) |-> CHOOSE n \in 0 .. 9 : Digits[n + 1] = c]
Keystrokes == {<<"c">>, <<"w", Continuation>>, <<Newline>>}
Finals == {"A", "B", "C", "D", "H", "J", "m"}

-----------------------------------------------------------------------------
(* The parser *)

\* The bytes of the numbers of a sequence
Parameter == Range(Digits) \cup {";"}

\* PreAnsiSequence::add_char of one of them
AddChar(numbers, c) ==
    CASE c = ";" -> Append(numbers, 0)
      [] c # ";" /\ numbers = <<>> -> <<Digit[c]>>
      [] OTHER -> [numbers EXCEPT ![Len(numbers)] = 10 * @ + Digit[c]]

\* The index of the first byte after ESC [ that is no parameter, or 0
End == SelectInSubSeq(text, 3, Len(text), LAMBDA c : c \notin Parameter)
NumbersTo[i \in Nat] == IF i < 3 THEN <<>> ELSE AddChar(NumbersTo[i - 1], text[i])
Numbers == NumbersTo[IF End = 0 THEN Len(text) ELSE End - 1]

StartsSequence == Len(text) >= 2 /\ text[1] = Esc /\ text[2] = "["

\* PreAnsiSequence::parse_seq; a number is a u8, and the one that overflows
\* panics before its sequence is complete.
NumberTooLarge == StartsSequence /\ \E i \in DOMAIN Numbers : Numbers[i] > 255
IsSequence ==
    /\ StartsSequence /\ End # 0
    /\ text[End] \in Finals
    /\ text[End] = "H" => Len(Numbers) <= 2

\* AnsiiParser::next without a sequence: the characters counted go from after
\* an escape character at the front to before the next one.
Piece ==
    LET next == SelectInSubSeq(text, 2, Len(text), LAMBDA c : c = Esc)
    IN  SubSeq(text, IF text[1] = Esc THEN 2 ELSE 1, IF next = 0 THEN Len(text) ELSE next - 1)

\* Mutant: the first character is never counted.
CountAfterFirst == Cardinality({i \in 2 .. Len(text) : text[i] \notin {Continuation, Esc}})

\* They are counted in characters, and the count used as one of bytes.
Count == Cardinality({i \in 1 .. Len(Piece) : Piece[i] # Continuation})

-----------------------------------------------------------------------------
(* The frame buffer *)

MaxTop == Rows - Height

\* FrameBuffer::shift_buffer, by one line
Down == IF top + CharHeight >= MaxTop THEN MaxTop ELSE top + CharHeight
Up == IF CharHeight > top THEN 0 ELSE top - CharHeight

\* The place of a character as set_pixel computes it; beyond the end of a line
\* it continues a row of pixels further down.
Row(x, y) == y * CharHeight + x \div Cols
Touched(x, y) ==
    {l * Cols + (x % Cols) : l \in Row(x, y) \div CharHeight ..
                                 (Row(x, y) + CharHeight - 1) \div CharHeight}
Fits(x, y) == Row(x, y) + CharHeight <= Rows

\* The cursor is a usize: below zero it is huge, and its pixel overflows.
Huge(n) == n < 0

Painted(x, y, c) ==
    [i \in Cell |->
        IF i \notin Touched(x, y) THEN cells[i]
        ELSE IF Row(x, y) % CharHeight = 0 THEN c ELSE Damaged]

-----------------------------------------------------------------------------
Init ==
    /\ cells = [i \in Cell |-> Blank] /\ top = 0
    /\ cursor_x = 0 /\ cursor_y = 0
    /\ text = <<>> /\ chunk = <<>> /\ fault = "no" /\ writes = 0
    /\ line = <<>> /\ moved = FALSE /\ paged = FALSE /\ gap = FALSE

Buffer == <<cells, top>>
Cursor == <<cursor_x, cursor_y>>
History == <<line, moved, paged, gap>>

Running == fault = "no"
Idle == Running /\ text = <<>> /\ chunk = <<>>

Panic(why) ==
    /\ fault' = why
    /\ UNCHANGED <<Buffer, Cursor, text, chunk, writes, History>>

\* TTY::write_str of a text of a process or of the kernel
WriteStr(t) ==
    /\ Idle /\ writes < MaxWrites
    /\ text' = t /\ writes' = writes + 1
    /\ UNCHANGED <<Buffer, Cursor, chunk, fault, History>>

\* TTY::write_char of a character typed: it does not go through the parser.
WriteChar(c) ==
    /\ Idle /\ writes < MaxWrites
    /\ chunk' = c /\ writes' = writes + 1
    /\ UNCHANGED <<Buffer, Cursor, text, fault, History>>

-----------------------------------------------------------------------------
(* Steps of write_str_unsynced *)

Parsing == Running /\ chunk = <<>> /\ text # <<>>

\* AnsiiParser::next of text.  The iterator ends at an escape character at the
\* end, a count within a character panics, and before two escape characters
\* it is zero.
TakePiece ==
    /\ Parsing /\ ~ IsSequence /\ ~ NumberTooLarge
    /\ IF text = <<Esc>>
       THEN text' = <<>> /\ UNCHANGED <<chunk, fault>>
       ELSE IF Count < Len(text) /\ text[Count + 1] = Continuation
       THEN fault' = "wide" /\ UNCHANGED <<text, chunk>>
       ELSE /\ chunk' = SubSeq(text, 1, Count)
            /\ text' = SubSeq(text, Count + 1, Len(text))
            /\ UNCHANGED fault
    /\ UNCHANGED <<Buffer, Cursor, writes, History>>

Overflow == Parsing /\ NumberTooLarge /\ Panic("number")

Sequence(final) ==
    /\ Parsing /\ IsSequence /\ ~ NumberTooLarge
    /\ text[End] = final
    /\ text' = SubSeq(text, End + 1, Len(text))
    /\ UNCHANGED <<chunk, writes>>

Param == IF Numbers = <<>> THEN 1 ELSE Last(Numbers)

\* set_cursor and offset_cursor: no bounds are checked.
Move(x, y) ==
    /\ cursor_x' = x /\ cursor_y' = y
    /\ line' = <<>> /\ moved' = TRUE
    /\ UNCHANGED <<Buffer, fault, paged, gap>>

\* handle_escape_sequence
CursorUp == Sequence("A") /\ Move(cursor_x, cursor_y - Param)
CursorDown == Sequence("B") /\ Move(cursor_x, cursor_y + Param)
CursorForward == Sequence("C") /\ Move(cursor_x + Param, cursor_y)
CursorBackward == Sequence("D") /\ Move(cursor_x - Param, cursor_y)
CursorPos ==
    /\ Sequence("H")
    /\ Move(IF Len(Numbers) = 2 THEN Numbers[2] ELSE 1, IF Numbers = <<>> THEN 1 ELSE Numbers[1])
SetGraphicsMode == Sequence("m") /\ UNCHANGED <<Buffer, Cursor, fault, History>>

\* FrameBufferTTY::clear: the window goes back to the start of the buffer, and
\* the cursor with it.
ClearedY == cursor_y - top \div CharHeight
ClearPanics == ~ Huge(cursor_y) /\ Huge(ClearedY)
Clear ==
    /\ cells' = [i \in Cell |-> Blank] /\ top' = 0
    /\ line' = <<>> /\ paged' = FALSE

EraseDisplay ==
    /\ Sequence("J")
    /\ IF ClearPanics
       THEN fault' = "clear" /\ UNCHANGED <<Buffer, Cursor, History>>
       ELSE /\ Clear
            /\ cursor_y' = ClearedY
            /\ gap' = (gap \/ top % CharHeight # 0)
            /\ UNCHANGED <<cursor_x, fault, moved>>

\* The rest of the piece after its first character
Others == IF Len(chunk) > 1 /\ chunk[2] = Continuation THEN Tail(Tail(chunk)) ELSE Tail(chunk)

\* putc_unsynced of a newline; the cursor is checked to stay a usize.
PutNewline ==
    /\ Running /\ chunk # <<>> /\ Head(chunk) = Newline
    /\ IF cursor_y = -1
       THEN Panic("cursor")
       ELSE /\ cursor_x' = 0 /\ cursor_y' = cursor_y + 1
            /\ chunk' = Others /\ line' = <<>>
            /\ gap' = (gap \/ (line = <<>> /\ cursor_y # 0))
            /\ UNCHANGED <<Buffer, text, fault, writes, moved, paged>>

PutReturn ==
    /\ Running /\ chunk # <<>> /\ Head(chunk) = Return
    /\ cursor_x' = 0
    /\ chunk' = Others /\ line' = <<>> /\ moved' = TRUE
    /\ UNCHANGED <<Buffer, cursor_y, text, fault, writes, paged, gap>>

\* Mutant: the line is drawn over.
WrapsNever(x) == FALSE
Wraps(x) == x >= Cols

\* Mutant: the window's position is forgotten.
BelowScreen(y) == y * CharHeight + CharHeight >= Height

\* Mutant: the last line of the screen counts as free.
BelowByOne(y) == y * CharHeight >= top + Height

Below(y) == y * CharHeight + CharHeight >= top + Height

\* draw_raster: the character goes to the next line if there is no room in
\* this one, and the window one line down if it reaches its end.
PutChar ==
    LET y == IF Wraps(cursor_x) THEN cursor_y + 1 ELSE cursor_y
        x == IF Wraps(cursor_x) THEN 0 ELSE cursor_x
    IN  /\ Running /\ chunk # <<>> /\ Head(chunk) \notin {Newline, Return}
        /\ IF Huge(cursor_x) \/ Huge(cursor_y) THEN Panic("cursor")
           ELSE IF ~ Fits(x, y) THEN Panic("full")
           ELSE /\ cells' = Painted(x, y, Head(chunk))
                /\ top' = IF Below(y) THEN Down ELSE top
                /\ cursor_x' = x + 1 /\ cursor_y' = y
                /\ chunk' = Others /\ line' = Append(line, Head(chunk))
                /\ UNCHANGED <<text, fault, writes, moved, paged, gap>>

-----------------------------------------------------------------------------
(* What the terminal does besides writing *)

Back == IF cursor_x = 0 /\ cursor_y # 0 THEN <<Cols - 1, cursor_y - 1>>
        ELSE IF cursor_x # 0 THEN <<cursor_x - 1, cursor_y>> ELSE Cursor

\* TTYInterface::backspace, remove_char
Backspace ==
    /\ Idle
    /\ IF Huge(Back[1]) \/ Huge(Back[2]) THEN Panic("cursor")
       ELSE IF ~ Fits(Back[1], Back[2]) THEN Panic("full")
       ELSE /\ cursor_x' = Back[1] /\ cursor_y' = Back[2]
            /\ cells' = Painted(Back[1], Back[2], Blank)
            /\ line' = IF line = <<>> THEN line ELSE Front(line)
            /\ paged' = (paged \/ Back[2] < cursor_y)
            /\ UNCHANGED <<top, text, chunk, fault, writes, moved, gap>>

\* handle_key of the two page keys
PageDown ==
    /\ Idle
    /\ top' = Down /\ paged' = TRUE
    /\ UNCHANGED <<cells, Cursor, text, chunk, fault, writes, line, moved, gap>>

PageUp ==
    /\ Idle
    /\ top' = Up /\ gap' = TRUE
    /\ UNCHANGED <<cells, Cursor, text, chunk, fault, writes, line, moved, paged>>

\* TTY::clear
ClearAll ==
    /\ Idle
    /\ IF ClearPanics THEN Panic("clear")
       ELSE /\ Clear
            /\ cursor_x' = 0 /\ cursor_y' = 0 /\ moved' = FALSE /\ gap' = FALSE
            /\ UNCHANGED <<text, chunk, fault, writes>>

Step ==
    \/ TakePiece \/ Overflow
    \/ CursorUp \/ CursorDown \/ CursorForward \/ CursorBackward \/ CursorPos
    \/ SetGraphicsMode \/ EraseDisplay
    \/ PutNewline \/ PutReturn \/ PutChar

Next ==
    \/ \E t \in Texts : WriteStr(t)
    \/ \E c \in Keystrokes : WriteChar(c)
    \/ Step
    \/ Backspace \/ PageDown \/ PageUp \/ ClearAll

Spec == Init /\ [][Next]_vars

\* A write runs to its end.
FairSpec == Spec /\ WF_vars(Step)
-----------------------------------------------------------------------------
\* sync_pixels copies the rows from top on.
TypeOK ==
    /\ top \in 0 .. MaxTop
    /\ DOMAIN cells = Cell
    /\ cursor_x \in Int /\ cursor_y \in Int
    /\ fault \in {"no", "wide", "number", "cursor", "clear", "full"}
    /\ writes \in 0 .. MaxWrites
    /\ moved \in BOOLEAN /\ paged \in BOOLEAN /\ gap \in BOOLEAN

\* The place of the cursor in reading order
Place == cursor_y * Cols + cursor_x

\* The line being written stands in front of the cursor, over the ends of
\* lines, through scrolling and backspaces, and what follows it is blank until
\* the cursor is moved.
LineDrawn ==
    Running =>
        /\ \A i \in DOMAIN line : cells[Place - Len(line) + i - 1] = line[i]
        /\ ~ moved => \A p \in Cell : p >= Place => cells[p] = Blank

\* What has just been written is not below the window, unless an empty line
\* was output before it (draw_raster scrolls by one line only), PageUp was
\* pressed, the cursor moved, or the last window of the buffer erased: it need
\* not begin with a line, and clear moves the cursor up by whole lines only.
LineVisible ==
    Running /\ line # <<>> /\ ~ gap /\ ~ moved =>
        cursor_y * CharHeight + CharHeight <= top + Height

\* The window stays within the buffer, and as long as no sequence moves the
\* cursor, nothing panics for its sake: it is at the end of the four screens
\* when the buffer is full, and clear finds it in or below the window, unless
\* PageDown or erasing past the start of a line has left it above.
CursorSafe ==
    /\ TypeOK
    /\ ~ moved =>
         /\ fault # "cursor"
         /\ fault = "clear" => paged
         /\ fault = "full" => cursor_y >= Lines - 1

\* Every text is written to its end, unless it panics the kernel or holds two
\* escape characters in a row, for which the parser returns nothing for ever.
WriteEnds ==
    text # <<>> ~> \/ text = <<>> \/ ~ Running
                   \/ Len(text) >= 2 /\ text[1] = Esc /\ text[2] = Esc
=============================================================================
