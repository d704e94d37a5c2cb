------------------------------- MODULE Terminal -------------------------------
(***************************************************************************)
(* The terminal (terminal/mod.rs) between the keyboard interrupt, which    *)
(* edits the line being typed, the processes, which poll it for a finished *)
(* line (devices/tty.rs, sysread) and print on it, and Eve, the only one   *)
(* who can be preempted while she holds its lock (_print).  The screen is  *)
(* the text the interface was told to draw, without its layout.            *)
(***************************************************************************)
EXTENDS Integers, Sequences, SequencesExt

CONSTANTS Procs,        \* shells the keyboard can start
          Counts,       \* lengths of the buffers passed to read
          MaxTyped,     \* bound: characters typed
          MaxScreen,    \* bound: characters on the screen
          MaxPrints     \* bound: lines Eve still prints

ASSUME BoundAssumption ==
    /\ Counts \subseteq Nat \ {0}
    /\ MaxTyped \in Nat /\ MaxScreen \in Nat /\ MaxPrints \in Nat

VARIABLES screen,       \* what the TTYInterface shows
          stdin_buffer, \* TTY::stdin_buffer
          recive_input, \* TTYSettings::RECIVE_INPUT
          alive,        \* the shells started
          reading,      \* those in the loop of sysread
          lock,         \* "Free", or "Eve" while she prints
          prints,       \* lines Eve has printed
          hung,         \* stopped: waiting for Eve's lock with interrupts off,
                        \* or halted by the panic handler
          typed,        \* history: the characters typed and not erased
          delivered,    \* history: the characters read
          mixed         \* history: something was printed into the line being typed

vars == <<screen, stdin_buffer, recive_input, alive, reading, lock, prints, hung,
          typed, delivered, mixed>>

Newline == "\n"
Cursor == "_"
Output == "o"           \* printed by a process or by Eve
Letter == "c"           \* typed

Init ==
    /\ screen = <<>> /\ stdin_buffer = <<>>
    /\ recive_input = FALSE
    /\ alive = {} /\ reading = {}
    /\ lock = "Free" /\ prints = 0 /\ hung = FALSE
    /\ typed = <<>> /\ delivered = <<>> /\ mixed = FALSE

Processes == <<alive, reading>>
Eve == <<lock, prints, hung>>

\* TTYInterface::backspace
Backspaced(text) == IF text = <<>> THEN text ELSE Front(text)

\* Output lands in the middle of what the user is typing.
Mixing == mixed \/ recive_input \/ stdin_buffer # <<>>

-----------------------------------------------------------------------------
\* The keyboard interrupt: __navi_key_pressed drops the key when Eve has the
\* lock, which is no step.
KeyGuard == lock = "Free" /\ Len(typed) < MaxTyped /\ Len(screen) < MaxScreen

\* handle_key of a key with a character, while input is enabled: the cursor
\* is erased, the character echoed, the cursor put back.
TypeChar(c) ==
    /\ KeyGuard
    /\ recive_input
    /\ screen' = Backspaced(screen) \o <<c, Cursor>>
    /\ stdin_buffer' = Append(stdin_buffer, c)
    /\ typed' = Append(typed, c)
    /\ UNCHANGED <<recive_input, delivered, mixed, Processes, Eve>>

\* handle_key of a key without one (map_key gives '\0')
TypeNothing ==
    /\ KeyGuard
    /\ recive_input
    /\ screen' = Append(Backspaced(screen), Cursor)
    /\ UNCHANGED <<stdin_buffer, recive_input, typed, delivered, mixed, Processes, Eve>>

\* PageString::pop
Erased(text) == Backspaced(text)

\* handle_key of the backspace key: TTY::peform_backspace
PeformBackspace ==
    /\ KeyGuard
    /\ recive_input
    /\ stdin_buffer # <<>>
    /\ screen' = Append(Backspaced(Backspaced(screen)), Cursor)
    /\ stdin_buffer' = Erased(stdin_buffer)
    /\ typed' = Front(typed)
    /\ UNCHANGED <<recive_input, delivered, mixed, Processes, Eve>>

\* handle_key of Ctrl+Shift+C: TTY::clear, which leaves the settings and the
\* line being typed alone, and the spawn of a shell; when pspawn fails its
\* unwrap() panics
Chord(p) ==
    /\ KeyGuard
    /\ p \notin alive
    /\ screen' = <<>>
    /\ mixed' = Mixing
    /\ \/ alive' = alive \cup {p} /\ UNCHANGED hung
       \/ hung' = TRUE /\ UNCHANGED alive
    /\ UNCHANGED <<stdin_buffer, recive_input, reading, typed, delivered, lock, prints>>

-----------------------------------------------------------------------------
\* A process calls sysread on the terminal.
StartRead(p) ==
    /\ p \in alive \ reading
    /\ reading' = reading \cup {p}
    /\ UNCHANGED <<screen, stdin_buffer, recive_input, alive, Eve, typed, delivered, mixed>>

LineReady == stdin_buffer # <<>> /\ Last(stdin_buffer) = Newline

\* Mutant: the cursor is not drawn.
EnabledNot == screen

\* TTY::enable_input and TTY::disable_input
Enabled == IF recive_input THEN screen ELSE Append(screen, Cursor)
Disabled == IF recive_input THEN Backspaced(screen) ELSE screen

\* Mutant: the input is not enabled.
PollBusyOnly(p) ==
    /\ p \in reading
    /\ lock = "Free"
    /\ ~ LineReady
    /\ UNCHANGED vars

\* A turn of the loop of sysread that finds no finished line: the input is
\* enabled and the process yields.
PollBusy(p) ==
    /\ p \in reading
    /\ lock = "Free"
    /\ ~ LineReady
    /\ screen' = Enabled
    /\ recive_input' = TRUE
    /\ UNCHANGED <<stdin_buffer, Processes, Eve, typed, delivered, mixed>>

\* Mutant: what does not fit is thrown away.
RestLost(n) == <<>>

\* stdin_buffer.drain(..count)
Rest(n) == SubSeq(stdin_buffer, n + 1, Len(stdin_buffer))

\* Mutant: only input that is being received is looked at.
PollLineIfEnabled(p, n) ==
    LET count == Min({n, Len(stdin_buffer)})
    IN  /\ p \in reading
        /\ lock = "Free"
        /\ LineReady
        /\ recive_input
        /\ screen' = Disabled
        /\ recive_input' = FALSE
        /\ stdin_buffer' = Rest(count)
        /\ delivered' = delivered \o SubSeq(stdin_buffer, 1, count)
        /\ reading' = reading \ {p}
        /\ UNCHANGED <<alive, Eve, typed, mixed>>

\* A turn of the loop that finds a finished line, with a buffer of n bytes
PollLine(p, n) ==
    LET count == Min({n, Len(stdin_buffer)})
    IN  /\ p \in reading
        /\ lock = "Free"
        /\ LineReady
        /\ screen' = Disabled
        /\ recive_input' = FALSE
        /\ stdin_buffer' = Rest(count)
        /\ delivered' = delivered \o SubSeq(stdin_buffer, 1, count)
        /\ reading' = reading \ {p}
        /\ UNCHANGED <<alive, Eve, typed, mixed>>

\* A turn of the loop while Eve has the lock: try_write fails, and the
\* blocking write() that follows spins with interrupts off, so that Eve never
\* runs again.
PollHangs(p) ==
    /\ p \in reading
    /\ lock = "Eve"
    /\ hung' = TRUE
    /\ UNCHANGED <<screen, stdin_buffer, recive_input, Processes, lock, prints,
                   typed, delivered, mixed>>

\* syswrite of a process that is not reading; while Eve has the lock it is
\* Busy and retries, which is no step.
Write(p) ==
    /\ p \in alive \ reading
    /\ lock = "Free"
    /\ Len(screen) < MaxScreen
    /\ screen' = Append(screen, Output)
    /\ mixed' = Mixing
    /\ UNCHANGED <<stdin_buffer, recive_input, Processes, Eve, typed, delivered>>

\* _print of Eve, who can be preempted with the lock in her hands
EveLocks ==
    /\ lock = "Free"
    /\ prints < MaxPrints
    /\ lock' = "Eve"
    /\ UNCHANGED <<screen, stdin_buffer, recive_input, Processes, prints, hung,
                   typed, delivered, mixed>>

EvePrints ==
    /\ lock = "Eve"
    /\ screen' = Append(screen, Output)
    /\ lock' = "Free"
    /\ prints' = prints + 1
    /\ mixed' = Mixing
    /\ UNCHANGED <<stdin_buffer, recive_input, Processes, hung, typed, delivered>>

Poll(p) == PollBusy(p) \/ PollHangs(p) \/ \E n \in Counts : PollLine(p, n)

Next ==
    /\ ~ hung
    /\ \/ \E c \in {Letter, Newline} : TypeChar(c)
       \/ TypeNothing
       \/ PeformBackspace
       \/ EveLocks
       \/ EvePrints
       \/ \E p \in Procs : Chord(p) \/ StartRead(p) \/ Poll(p) \/ Write(p)

Spec == Init /\ [][Next]_vars

\* The scheduler gives every process its turns, and Eve hers; nobody has to
\* type.
FairSpec ==
    /\ Spec
    /\ \A p \in Procs : WF_vars(~ hung /\ Poll(p))
    /\ WF_vars(~ hung /\ EvePrints)
-----------------------------------------------------------------------------
Text == Seq({Newline, Cursor, Output, Letter})

TypeOK ==
    /\ screen \in Text /\ stdin_buffer \in Text /\ typed \in Text /\ delivered \in Text
    /\ Len(typed) <= MaxTyped
    /\ recive_input \in BOOLEAN /\ hung \in BOOLEAN /\ mixed \in BOOLEAN
    /\ reading \subseteq alive /\ alive \subseteq Procs
    /\ lock \in {"Free", "Eve"} /\ prints \in 0 .. MaxPrints

\* What was typed and not erased is read once, in order and whole, by however
\* many readers with buffers of any length, and only what nobody has read yet
\* can be erased.
InputInOrder == TypeOK /\ typed = delivered \o stdin_buffer

\* As long as nobody printed into the line, the user sees what the next read
\* will return: the unread characters end the screen, followed by the one
\* cursor while input is received and by nothing otherwise.
LineSeen ==
    ~ mixed =>
        /\ recive_input => screen # <<>> /\ Last(screen) = Cursor
        /\ LET text == IF recive_input THEN Front(screen) ELSE screen
           IN  /\ Cursor \notin Range(text)
               /\ IsSuffix(stdin_buffer, text)

\* A process that waits for input gets it enabled again, whoever's read has
\* disabled it, unless it is served or the machine stops (on Eve's lock, in a panic).
EchoResumes ==
    \A p \in Procs : p \in reading ~> recive_input \/ p \notin reading \/ hung

\* A finished line that is waited for is read, unless the user goes on typing
\* behind it or erases its end.
LineTaken ==
    reading # {} /\ LineReady ~> ~ LineReady \/ reading = {} \/ hung
=============================================================================
