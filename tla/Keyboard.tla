------------------------------ MODULE Keyboard ------------------------------
(***************************************************************************)
(* The keyboard driver (kernel/pckbd.c): scan codes from the controller go  *)
(* through the shift state into a ring buffer, from which                   *)
(* console::in::getChar takes characters.  There is no interrupt: the       *)
(* controller is polled by kbdGetNextChar, which first reads all it has.    *)
(*                                                                          *)
(* The person at the keyboard, the keyboard's own queue and the controller  *)
(* with its one byte run beside the driver, so that bytes arrive between    *)
(* any two reads.  Scan codes are the real numbers; of the tables only the  *)
(* rows of the keys of the model are written down.                          *)
(***************************************************************************)
EXTENDS Naturals, Sequences, SequencesExt

CONSTANTS BufSize,   \* KBD_BUF_SIZE, 512
          Keys,      \* the keys of the model, as indices of the tables
          MaxKeys    \* bound: how often a key is pressed

\* No keyboard has a key of the code 96, whose release would be the escape.
ASSUME KeyboardAssumption == /\ BufSize \in Nat /\ BufSize > 1
                             /\ MaxKeys \in Nat
                             /\ Keys \subseteq 1..223 \ {96}

VARIABLES wire,      \* bytes the keyboard has yet to send
          obf,       \* the byte in the controller, or Empty, or MouseData
          shift,     \* `shift` of _kbdProcessData, as the set of its bits
          ring, readPos, writePos,  \* kbdBuffer
          pc,        \* the driver: away, in the loop of kbdIntr, or machine reset
          held, locks, presses,     \* the person: keys down, locks that are on, a count
          half,      \* modifiers of which one of two keys was released, the other not
          meant,     \* the characters the pressed keys stand for, in order
          got,       \* the characters that getChar returned
          over       \* the ring has been filled up once

person  == <<held, half, locks, presses, meant>>
buffer  == <<ring, readPos, writePos>>
vars    == <<wire, obf, shift, buffer, pc, person, got, over>>

-----------------------------------------------------------------------------
Empty     == 256     \* KBS_DIB clear
MouseData == 257     \* KBS_DIB and KBS_TERR set
E0        == 224
No        == "none"  \* NO, the character 0

ShiftCode(d)  == CASE d \in {29, 157} -> {"CTL"}
                   [] d \in {42, 54}  -> {"SHIFT"}
                   [] d \in {56, 184} -> {"ALT"}
                   [] OTHER           -> {}
ToggleCode(d) == CASE d = 58 -> {"CAPSLOCK"} [] d = 69 -> {"NUMLOCK"}
                   [] d = 70 -> {"SCROLLLOCK"} [] OTHER -> {}

\* charcode[shift & (CTL | SHIFT)][d] and the exchange of cases for Caps Lock.
CharCode(bits, d) ==
    LET lower == ("SHIFT" \in bits) = ("CAPSLOCK" \in bits)
    IN CASE d = 200 -> "KEY_UP"
         [] d = 211 -> "KEY_DEL"
         [] "CTL" \in bits -> IF d = 30 THEN "^A" ELSE IF d = 28 THEN "CR" ELSE No
         [] d = 30 -> IF lower THEN "a" ELSE "A"
         [] d = 72 -> "8"
         [] d = 28 -> "LF"
         [] OTHER -> No

(***************************************************************************)
(* _kbdProcessData on a byte of the keyboard: the new shift state and the   *)
(* character, No for the escape, a release or a key without one.            *)
(***************************************************************************)
\* Seeded fault: a release leaves E0ESC set.
DecodeKeepsEsc(bits, data) ==
    LET d    == (data % 128) + (IF "E0ESC" \in bits THEN 128 ELSE 0)
        down == SymDiff((bits \ {"E0ESC"}) \cup ShiftCode(d), ToggleCode(d))
    IN IF data = E0 THEN [bits |-> bits \cup {"E0ESC"}, c |-> No]
       ELSE IF data >= 128 THEN [bits |-> bits \ ShiftCode(d), c |-> No]
       ELSE [bits |-> down, c |-> CharCode(down, d)]

Decode(bits, data) ==
    LET d    == (data % 128) + (IF "E0ESC" \in bits THEN 128 ELSE 0)
        rest == bits \ {"E0ESC"}
        down == SymDiff(rest \cup ShiftCode(d), ToggleCode(d))
    IN IF data = E0 THEN [bits |-> bits \cup {"E0ESC"}, c |-> No]
       ELSE IF data >= 128 THEN [bits |-> rest \ ShiftCode(d), c |-> No]
       ELSE [bits |-> down, c |-> CharCode(down, d)]

\* kbdInit; the controller is empty when it tries to read.
Init == /\ wire = <<>> /\ obf = Empty
        /\ shift = {}
        /\ ring = [i \in 0..BufSize-1 |-> No] /\ readPos = 0 /\ writePos = 0
        /\ pc = "away"
        /\ held = {} /\ half = {} /\ locks = {} /\ presses = 0 /\ meant = <<>>
        /\ got = <<>> /\ over = FALSE

-----------------------------------------------------------------------------
(***************************************************************************)
(* The keyboard and the person (external).  A person who holds both keys of *)
(* a modifier and lets go of one presses nothing else until the other is up *)
(* or down anew: it is not clear what that would mean.  A key that stays    *)
(* down may repeat, a lock excepted.                                        *)
(***************************************************************************)
Bytes(k, up) == LET code == (k % 128) + (IF up THEN 128 ELSE 0)
                IN IF k >= 128 THEN <<E0, code>> ELSE <<code>>

Meaning(k) ==
    CharCode((UNION {ShiftCode(h) : h \in held \cup {k}}) \cup locks, k)

Press(k) ==
    /\ presses < MaxKeys
    /\ half # {} => ShiftCode(k) # {}
    /\ k \in held => ToggleCode(k) = {}
    /\ wire' = wire \o Bytes(k, FALSE)
    /\ held' = held \cup {k}
    /\ half' = half \ ShiftCode(k)
    /\ locks' = SymDiff(locks, ToggleCode(k))
    /\ presses' = presses + 1
    /\ meant' = IF Meaning(k) = No THEN meant ELSE Append(meant, Meaning(k))
    /\ UNCHANGED <<obf, shift, buffer, pc, got, over>>

Release(k) ==
    /\ k \in held
    /\ wire' = wire \o Bytes(k, TRUE)
    /\ held' = held \ {k}
    /\ half' = LET other == UNION {ShiftCode(h) : h \in held \ {k}}
               IN (half \ ShiftCode(k)) \cup (ShiftCode(k) \cap other)
    /\ UNCHANGED <<obf, shift, buffer, pc, locks, presses, meant, got, over>>

Arrive ==
    /\ obf = Empty /\ wire # <<>>
    /\ obf' = Head(wire)
    /\ wire' = Tail(wire)
    /\ UNCHANGED <<shift, buffer, pc, person, got, over>>

MouseMoves ==
    /\ obf = Empty
    /\ obf' = MouseData
    /\ UNCHANGED <<wire, shift, buffer, pc, person, got, over>>

-----------------------------------------------------------------------------
\* console::in::getChar begins to poll.
GetChar ==
    /\ pc = "away"
    /\ pc' = "poll"
    /\ UNCHANGED <<wire, obf, shift, buffer, person, got, over>>

\* Seeded fault: an escape is taken for the end of the data.
ReadByteStopsAtEscape ==
    LET key == Decode(shift, obf)
    IN /\ pc = "poll"
       /\ obf \notin {E0, Empty, MouseData}
       /\ obf' = Empty
       /\ shift' = key.bits
       /\ IF key.c = No THEN UNCHANGED <<buffer, over>>
          ELSE /\ ring' = [ring EXCEPT ![writePos] = key.c]
               /\ writePos' = (writePos + 1) % BufSize
               /\ over' = (over \/ (writePos + 1) % BufSize = readPos)
               /\ UNCHANGED readPos
       /\ UNCHANGED <<wire, pc, person, got>>

\* One byte in the loop of kbdIntr.  Ctrl-Alt-Del resets the machine.
ReadByte ==
    LET key == Decode(shift, obf)
    IN /\ pc = "poll"
       /\ obf \notin {Empty, MouseData}
       /\ obf' = Empty
       /\ shift' = key.bits
       /\ IF key.c = No THEN UNCHANGED <<buffer, over>>
          ELSE /\ ring' = [ring EXCEPT ![writePos] = key.c]
               /\ writePos' = (writePos + 1) % BufSize
               /\ over' = (over \/ (writePos + 1) % BufSize = readPos)
               /\ UNCHANGED readPos
       /\ pc' = IF {"CTL", "ALT"} \subseteq key.bits /\ key.c = "KEY_DEL" THEN "reset" ELSE pc
       /\ UNCHANGED <<wire, person, got>>

\* Seeded fault: the newest character is taken.
TakeNewest ==
    /\ pc = "poll"
    /\ obf \in {Empty, MouseData}
    /\ writePos # readPos
    /\ got' = Append(got, ring[(writePos + BufSize - 1) % BufSize])
    /\ readPos' = (readPos + 1) % BufSize
    /\ pc' = "away"
    /\ UNCHANGED <<wire, obf, shift, ring, writePos, person, over>>

(***************************************************************************)
(* kbdIntr returns when it finds no byte, or one of the mouse, which it     *)
(* leaves in the controller.  kbdGetNextChar takes a character from the     *)
(* ring; when there is none it returns 0, and getChar calls it again.       *)
(***************************************************************************)
Take ==
    /\ pc = "poll"
    /\ obf \in {Empty, MouseData}
    /\ writePos # readPos
    /\ got' = Append(got, ring[readPos])
    /\ readPos' = (readPos + 1) % BufSize
    /\ pc' = "away"
    /\ UNCHANGED <<wire, obf, shift, ring, writePos, person, over>>

Next == \/ \E k \in Keys : Press(k) \/ Release(k)
        \/ Arrive \/ MouseMoves
        \/ GetChar \/ ReadByte \/ Take

Spec == Init /\ [][Next]_vars

\* The hardware sends what it has, and the prompt or a program keeps asking.
FairSpec == Spec /\ WF_vars(Arrive) /\ WF_vars(GetChar) /\ WF_vars(ReadByte) /\ WF_vars(Take)

-----------------------------------------------------------------------------
Pending == [i \in 1..((writePos + BufSize - readPos) % BufSize) |-> ring[(readPos + i - 1) % BufSize]]

Quiet == wire = <<>> /\ obf = Empty /\ pc # "reset"

(***************************************************************************)
(* The driver turns keys into the characters they stand for, with the       *)
(* modifiers that were down when the key was pressed, however late it reads *)
(* them and wherever its reads fall between the bytes of a key              *)
(* (pckbd.c:217-240), and hands them out once and in order, as long as the  *)
(* ring never fills up.                                                     *)
(***************************************************************************)
TypedAsMeant ==
    ~over => /\ IsPrefix(got \o Pending, meant)
             /\ Quiet => got \o Pending = meant

(***************************************************************************)
(* Once the driver has read all bytes, its modifier bits are those of the   *)
(* keys that are down and its locks are the person's, whatever was          *)
(* pressed together and in whichever order it was released; a modifier with *)
(* two keys goes off with the first that is released and never stays on.    *)
(***************************************************************************)
ShiftFollowsKeys ==
    Quiet => shift = ((UNION {ShiftCode(k) : k \in held}) \ half) \cup locks

(***************************************************************************)
(* Every key that stands for a character comes out of getChar in the end,   *)
(* if its caller keeps asking.  Three things keep it from coming: the ring  *)
(* was filled up and looks empty (pckbd.c:271), a byte of the mouse blocks  *)
(* the controller, because kbdIntr returns without reading it               *)
(* (pckbd.c:211), or the machine is reset.                                  *)
(***************************************************************************)
KeysArrive == \A n \in 1..MaxKeys :
    Len(meant) >= n ~> (Len(got) >= n \/ over \/ obf = MouseData \/ pc = "reset")
=============================================================================
