------------------------------- MODULE Keyboard -------------------------------
(***************************************************************************)
(* The keyboard: a user holds keys down, the controller turns every press, *)
(* release and repetition into a code of one or more bytes, and each byte  *)
(* raises the interrupt that decodes it (set1.rs), tracks the keys that    *)
(* are down (keyboard/mod.rs) and hands the key pressed to the terminal as *)
(* a character (keymapper.rs).  Of a character the model keeps which       *)
(* mapping of which key it is.                                             *)
(***************************************************************************)
EXTENDS Integers, Sequences, SequencesExt

CONSTANTS PhysKeys,     \* the keys of the keyboard, named like their KeyCode
          MakeCode,     \* the bytes the controller sends for a key pressed
          BreakCode,    \* and for a key released
          MaxKeys,      \* MAX_KEYS
          BufLen,       \* the length of current_unencoded_key
          MaxRepeats,   \* bound: codes repeated
          MaxLost       \* bound: bytes lost

ASSUME KeysAssumption ==
    /\ MaxKeys \in Nat \ {0} /\ BufLen \in Nat \ {0, 1}
    /\ MaxRepeats \in Nat /\ MaxLost \in Nat

VARIABLES current_keys, \* the codes in Keyboard::current_keys; nothing reads their flags
          unencoded,    \* current_unencoded_key[..latest_unencoded_byte]
          panicked,     \* an index was out of bounds
          key,          \* the key handed to the terminal since the last code began
          down,         \* the keys held by the user
          latest,       \* the key that repeats, the last one pressed
          wire,         \* the bytes of the code being sent
          repeats,      \* how often each key has been repeated
          caps,         \* history: CapsLock codes sent are odd in number
          lost,         \* history: bytes lost
          clean         \* history: no byte lost and current_keys never full

KeyVars == <<current_keys, unencoded, panicked, key, down, latest, wire, repeats, caps,
          lost, clean>>

Prefix == 224           \* 0xE0
NoKey == "NULL"
NullKey == [code |-> NoKey, flags |-> {}]
NoChar == {NoKey}       \* '\0'

\* Set1Key::try_from and encode: names of consecutive codes
Row(first, names) ==
    [c \in {<<first + i - 1>> : i \in DOMAIN names} |-> names[c[1] - first + 1]]

Extended ==
    [Home |-> 71, Up |-> 72, PageUp |-> 73, Left |-> 75, Right |-> 77, End |-> 79,
     Down |-> 80, PageDown |-> 81, Insert |-> 82, Delete |-> 83, Super |-> 91]

Set1Key ==
    Row(1, <<"Esc", "Key1", "Key2", "Key3", "Key4", "Key5", "Key6", "Key7", "Key8", "Key9",
             "Key0", "Minus", "Equals", "Backspace", "Tab", "KeyQ", "KeyW", "KeyE", "KeyR",
             "KeyT", "KeyY", "KeyU", "KeyI", "KeyO", "KeyP", "LeftBrace", "RightBrace",
             "Return", "Ctrl", "KeyA", "KeyS", "KeyD", "KeyF", "KeyG", "KeyH", "KeyJ", "KeyK",
             "KeyL", "Semicolon", "DoubleQuote", "BackQuote", "Shift", "BackSlash", "KeyZ",
             "KeyX", "KeyC", "KeyV", "KeyB", "KeyN", "KeyM", "Comma", "Dot", "Slash">>)
    @@ Row(56, <<"Alt", "Space", "CapsLock", "F1", "F2", "F3", "F4", "F5", "F6", "F7", "F8",
                 "F9", "F10">>)
    @@ Row(87, <<"F11", "F12">>)
    @@ [c \in {<<Prefix, Extended[k]>> : k \in DOMAIN Extended} |->
            CHOOSE k \in DOMAIN Extended : Extended[k] = c[2]]
    @@ [c \in {<<Prefix, 42, Prefix, 55>>} |-> "PrintScr"]

\* unwrap_or(Set1Key::NULL)
Encode(bytes) == IF bytes \in DOMAIN Set1Key THEN Set1Key[bytes] ELSE NoKey

\* The keys whose codes the decoder knows
Known == {k \in PhysKeys : Encode(MakeCode[k]) = k}

\* The controller sends scan code set 1: one byte or the prefix and one byte,
\* with the top bit set in a break code.  (PrintScreen and Pause, whose codes
\* are longer, are not among the PhysKeys.)  The decoder takes no key for
\* another one and knows the modifiers.
CodeBytes == 0 .. 127 \ {Prefix - 128}

ASSUME CodesAssumption ==
    /\ NoKey \notin PhysKeys
    /\ \A k \in PhysKeys : \E b \in CodeBytes :
         /\ \/ MakeCode[k] = <<b>> /\ BreakCode[k] = <<b + 128>>
            \/ MakeCode[k] = <<Prefix, b>> /\ BreakCode[k] = <<Prefix, b + 128>>
         /\ Encode(MakeCode[k]) \in {k, NoKey}
    /\ {"Shift", "Ctrl", "Alt", "CapsLock"} \cap PhysKeys \subseteq Known

-----------------------------------------------------------------------------
\* Keyboard::code_is_pressed
CodeIsPressed(keys, code) == code \in Range(keys)

\* The modifier of each flag, and the key that does not get it
Modifier == [SHIFT |-> "Shift", CTRL |-> "Ctrl", ALT |-> "Alt", CAPS_LOCK |-> "CapsLock"]
Exempt == [SHIFT |-> "Ctrl", CTRL |-> "Shift", ALT |-> "Alt", CAPS_LOCK |-> "CapsLock"]

\* Keyboard::process_keycode
ProcessKeycode(keys, code) ==
    [code |-> code,
     flags |-> {f \in DOMAIN Modifier : CodeIsPressed(keys, Modifier[f]) /\ code # Exempt[f]}]

\* Mutant: nothing is removed.
RemovePressedNone(keys, code) == keys

\* Keyboard::remove_pressed_keycode: the first entry of the key
RemovePressedKeycode(keys, code) ==
    LET at == {i \in DOMAIN keys : keys[i] = code}
    IN  IF code = NoKey \/ at = {} THEN keys ELSE RemoveAt(keys, Min(at))

\* heapless::Vec::push, and the last entry overwritten when the vector is full
Push(keys, code) ==
    IF Len(keys) < MaxKeys THEN Append(keys, code) ELSE [keys EXCEPT ![MaxKeys] = code]

\* Keyboard::add_pressed_keycode
AddPressedKeycode(keys, code) ==
    IF code = NoKey THEN keys
    ELSE IF code = "CapsLock" /\ CodeIsPressed(keys, code)
         THEN RemovePressedKeycode(keys, code)
         ELSE Push(keys, code)

-----------------------------------------------------------------------------
\* DEFAULT_MAPPING: the flags of the entries of a key, in order
Letters == {"KeyQ", "KeyW", "KeyE", "KeyR", "KeyT", "KeyY", "KeyU", "KeyI", "KeyO", "KeyP",
            "KeyA", "KeyS", "KeyD", "KeyF", "KeyG", "KeyH", "KeyJ", "KeyK", "KeyL",
            "KeyZ", "KeyX", "KeyC", "KeyV", "KeyB", "KeyN", "KeyM"}
Symbols == {"Key4", "Key5", "Key6", "Key7", "Key8", "Key9", "Key0", "Minus", "Equals",
            "LeftBrace", "RightBrace", "BackSlash", "Semicolon", "DoubleQuote", "Comma",
            "Dot", "Slash"}

DefaultMapping(code) ==
    CASE code = "KeyQ" -> <<{}, {"CAPS_LOCK"}, {"SHIFT"}>>
      [] code \in Letters \ {"KeyQ"} -> <<{}, {"CAPS_LOCK"}>>
      [] code \in {"Key1", "Key2", "Key3"} -> <<{}, {"SHIFT"}, {"ALT"}>>
      [] code \in Symbols -> <<{}, {"SHIFT"}>>
      [] code \in {"Backspace", "Tab", "Return", "Space"} -> <<{}>>
      [] OTHER -> <<>>

\* KeyFlags as the number their bits make
Bit(flags, f, value) == IF f \in flags THEN value ELSE 0
Bits(flags) == Bit(flags, "CTRL", 1) + Bit(flags, "ALT", 2) + Bit(flags, "SHIFT", 4)
                   + Bit(flags, "CAPS_LOCK", 8)

\* Mutant: only an exact match counts, or the first entry.
MapKeyExact(k) ==
    LET entries == DefaultMapping(k.code)
    IN  IF entries = <<>> THEN NoChar
        ELSE IF k.flags \in Range(entries) THEN k.flags ELSE entries[1]

\* Key::map_key: the flags of the entry chosen, NoChar without one.  An exact match
\* wins, then the entry whose flags have the most in common with the key's.
MapKey(k) ==
    LET entries == DefaultMapping(k.code)
        Common(i) == Bits(entries[i] \cap k.flags)
        Best(i) == \A j \in DOMAIN entries :
                       Common(j) < Common(i) \/ (Common(j) = Common(i) /\ i <= j)
    IN  IF entries = <<>> THEN NoChar
        ELSE IF k.flags \in Range(entries) THEN k.flags
        ELSE entries[CHOOSE i \in DOMAIN entries : Best(i)]

-----------------------------------------------------------------------------
KeyInit ==
    /\ current_keys = <<>> /\ unencoded = <<>> /\ panicked = FALSE /\ key = NullKey
    /\ down = {} /\ latest = NoKey /\ wire = <<>>
    /\ repeats = [k \in PhysKeys |-> 0]
    /\ caps = FALSE /\ lost = 0 /\ clean = TRUE

Driver == <<current_keys, unencoded, panicked>>

\* The controller starts to send a code.
Send(bytes) == wire' = bytes /\ key' = NullKey

\* The user presses a key; a code is sent whole before the next one.
Press(k) ==
    /\ wire = <<>>
    /\ k \notin down
    /\ down' = down \cup {k} /\ latest' = k
    /\ Send(MakeCode[k])
    /\ caps' = (caps # (k = "CapsLock"))
    /\ UNCHANGED <<Driver, repeats, lost, clean>>

\* The controller repeats the key pressed last while it is held.
Repeat(k) ==
    /\ wire = <<>>
    /\ k \in down /\ k = latest
    /\ \A other \in PhysKeys : repeats[other] < MaxRepeats
    /\ repeats' = [repeats EXCEPT ![k] = @ + 1]
    /\ Send(MakeCode[k])
    /\ caps' = (caps # (k = "CapsLock"))
    /\ UNCHANGED <<Driver, down, latest, lost, clean>>

Release(k) ==
    /\ wire = <<>>
    /\ k \in down
    /\ down' = down \ {k}
    /\ latest' = IF latest = k THEN NoKey ELSE latest
    /\ Send(BreakCode[k])
    /\ UNCHANGED <<Driver, repeats, caps, lost, clean>>

\* A byte that comes while the last one has not been fetched is lost.
Lose ==
    /\ wire # <<>>
    /\ lost < MaxLost
    /\ lost' = lost + 1
    /\ wire' = Tail(wire)
    /\ clean' = FALSE
    /\ UNCHANGED <<Driver, key, down, latest, repeats, caps>>

\* Mutant: the buffer is reset by a prefix only.
ResetBufferNot(bytes) == bytes

\* Keyboard::reset_unencoded_buffer
ResetBuffer(bytes) == <<>>

\* A break code removes its key, but not CapsLock.
Unlocks(code) == code # "CapsLock"

\* handle_ps2_keyboard with handle_ps2_set_1 of one byte; nothing reads the
\* KEYBOARD, so that try_write succeeds.  The NULL_KEY is not handed on.
HandleByte ==
    LET byte == Head(wire)
        break == byte >= 128
        code == Encode(Append(unencoded, IF break THEN byte - 128 ELSE byte))
    IN  /\ wire # <<>>
        /\ wire' = Tail(wire)
        /\ IF Len(unencoded) >= BufLen
           THEN panicked' = TRUE /\ UNCHANGED <<current_keys, unencoded, key, clean>>
           ELSE /\ UNCHANGED panicked
                /\ \/ /\ byte = Prefix
                      /\ unencoded' = Append(unencoded, byte)
                      /\ UNCHANGED <<current_keys, key, clean>>
                   \/ /\ byte # Prefix /\ break
                      /\ unencoded' = ResetBuffer(unencoded)
                      /\ current_keys' = IF Unlocks(code)
                                         THEN RemovePressedKeycode(current_keys, code)
                                         ELSE current_keys
                      /\ UNCHANGED <<key, clean>>
                   \/ /\ byte # Prefix /\ ~ break
                      /\ unencoded' = ResetBuffer(unencoded)
                      /\ current_keys' = AddPressedKeycode(current_keys, code)
                      /\ key' = ProcessKeycode(current_keys', code)
                      /\ clean' = (clean /\ Len(current_keys) < MaxKeys)
        /\ UNCHANGED <<down, latest, repeats, caps, lost>>

KeyNext ==
    /\ ~ panicked
    /\ \/ \E k \in PhysKeys : Press(k) \/ Repeat(k) \/ Release(k)
       \/ Lose
       \/ HandleByte

KeySpec == KeyInit /\ [][KeyNext]_KeyVars

-----------------------------------------------------------------------------
Flags == DOMAIN Modifier
KeyCodes == Range(Set1Key) \cup {NoKey}
Keys == [code : KeyCodes, flags : SUBSET Flags]

KeyTypeOK ==
    /\ Len(current_keys) <= MaxKeys /\ Range(current_keys) \subseteq KeyCodes
    /\ unencoded \in Seq({Prefix}) /\ Len(unencoded) <= BufLen
    /\ panicked \in BOOLEAN /\ caps \in BOOLEAN /\ clean \in BOOLEAN
    /\ key \in Keys
    /\ down \subseteq PhysKeys /\ latest \in down \cup {NoKey}
    /\ repeats \in [PhysKeys -> 0 .. MaxRepeats] /\ lost \in 0 .. MaxLost
    /\ wire \in Seq(0 .. 255)

\* Between two codes
Settled == wire = <<>> /\ clean

\* As long as no byte was lost and current_keys was never full, the driver
\* knows between two codes what is down, whatever is pressed, repeated and
\* released in between: a held key is pressed; a key that was released is not,
\* provided that it was never held long enough to be repeated, since a release
\* removes one entry and every repetition has added one; and CapsLock is on
\* after an odd number of its make codes, of which a repetition is one too.
KeysTracked ==
    /\ KeyTypeOK
    /\ Settled =>
         /\ \A k \in (down \cap Known) \ {"CapsLock"} : CodeIsPressed(current_keys, k)
         /\ \A k \in PhysKeys \ (down \cup {"CapsLock"}) :
              repeats[k] = 0 => ~ CodeIsPressed(current_keys, k)
         /\ CodeIsPressed(current_keys, "CapsLock") <=> caps

\* What the user means by a key: its upper meaning under CapsLock, the shifted
\* one under Shift, the other one under Alt, the first of these the key has
Rank == <<"CAPS_LOCK", "SHIFT", "ALT">>
On(f) == IF f = "CAPS_LOCK" THEN caps ELSE Modifier[f] \in down
Meant(code) ==
    LET has == Range(DefaultMapping(code))
        on == {i \in DOMAIN Rank : On(Rank[i]) /\ {Rank[i]} \in has}
    IN  IF has = {} THEN NoChar
        ELSE IF on = {} THEN {} ELSE {Rank[CHOOSE i \in on : \A j \in on : i <= j]}

\* The terminal gets the key that was pressed, and map_key gives it the
\* character the user meant by it with the modifiers held at that moment, as
\* long as no modifier was ever repeated.
CharMeant ==
    (/\ Settled /\ key.code # NoKey
     /\ \A k \in {"Shift", "Ctrl", "Alt"} \cap PhysKeys : repeats[k] = 0)
    => key.code = latest /\ MapKey(key) = Meant(latest)

\* The array of eight bytes is overrun only when the second byte of almost
\* that many codes was lost: every complete code starts the decoder anew.
PrefixesBounded == panicked => lost + 1 >= BufLen
=============================================================================
