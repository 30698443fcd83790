---------------------------- MODULE KeyboardProofs ----------------------------
(***************************************************************************)
(* Theorems about Keyboard, for any keys, any size of the ring and any      *)
(* number of presses, and for every way in which the bytes of the keyboard, *)
(* the reads of the driver and the calls of getChar follow each other.      *)
(***************************************************************************)
EXTENDS Keyboard, TLAPS

Shifts == {"CTL", "SHIFT", "ALT"}
Locks  == {"CAPSLOCK", "NUMLOCK", "SCROLLLOCK"}

\* The characters of the tables.
Symbols == {"KEY_UP", "KEY_DEL", "^A", "CR", "LF", "a", "A", "8", No}

\* The modifiers of the keys H, and the shift state that the person expects.
Mods(H)  == UNION {ShiftCode(h) : h \in H}
Expected == (Mods(held) \ half) \cup locks

(***************************************************************************)
(* What the driver has yet to make of the bytes u.  From the shift state b  *)
(* and with n characters made so far it comes to the state c with r         *)
(* characters, all of them the ones of text.  st and at are the states and  *)
(* counts between two bytes.                                                *)
(***************************************************************************)
DecodesBy(st, at, u, b, n, text, c, r) ==
    /\ st[0] = b /\ st[Len(u)] = c
    /\ at[0] = n /\ at[Len(u)] = r
    /\ \A j \in 1..Len(u) :
          LET key == Decode(st[j - 1], u[j])
          IN /\ st[j] = key.bits
             /\ at[j - 1] \in 0..Len(text) /\ at[j] \in 0..Len(text)
             /\ IF key.c = No THEN at[j] = at[j - 1]
                ELSE at[j] = at[j - 1] + 1 /\ text[at[j]] = key.c

Decodes(u, b, n, text, c, r) ==
    /\ n \in 0..Len(text) /\ r \in 0..Len(text)
    /\ \E st, at : DecodesBy(st, at, u, b, n, text, c, r)

\* The bytes that were sent and not read.
Unread == IF obf \in {Empty, MouseData} THEN wire ELSE <<obf>> \o wire

-----------------------------------------------------------------------------
\* Decodes from an empty sequence, with one byte more at its end, with one less
\* at its beginning, and for a text that goes on.
LEMMA DecodesNone ==
  ASSUME NEW b, NEW text, NEW n \in 0..Len(text)
  PROVE  Decodes(<<>>, b, n, text, b, n)
<1> DEFINE st == [j \in {0} |-> b]
           at == [j \in {0} |-> n]
<1>1. DecodesBy(st, at, <<>>, b, n, text, b, n)
  BY DEF DecodesBy
<1> QED
  BY <1>1 DEF Decodes

LEMMA DecodesMore ==
  ASSUME NEW u \in Seq(0..255), NEW b, NEW n, NEW text, Len(text) \in Nat, NEW c, NEW r,
         Decodes(u, b, n, text, c, r),
         NEW x \in 0..255, NEW q \in 0..Len(text),
         IF Decode(c, x).c = No THEN q = r ELSE q = r + 1 /\ text[q] = Decode(c, x).c
  PROVE  Decodes(Append(u, x), b, n, text, Decode(c, x).bits, q)
<1>1. PICK st, at : DecodesBy(st, at, u, b, n, text, c, r)
  BY DEF Decodes
<1> DEFINE k == Len(u)
           v == Append(u, x)
           st2 == [j \in 0..k+1 |-> IF j = k + 1 THEN Decode(c, x).bits ELSE st[j]]
           at2 == [j \in 0..k+1 |-> IF j = k + 1 THEN q ELSE at[j]]
<1>2. k \in Nat /\ Len(v) = k + 1 /\ v[k + 1] = x /\ \A j \in 1..k : v[j] = u[j]
  OBVIOUS
<1>3. /\ st[0] = b /\ st[k] = c /\ at[0] = n /\ at[k] = r
      /\ \A j \in 1..k :
            LET key == Decode(st[j - 1], u[j])
            IN /\ st[j] = key.bits
               /\ at[j - 1] \in 0..Len(text) /\ at[j] \in 0..Len(text)
               /\ IF key.c = No THEN at[j] = at[j - 1]
                  ELSE at[j] = at[j - 1] + 1 /\ text[at[j]] = key.c
  BY <1>1 DEF DecodesBy
<1>4. /\ st2[k + 1] = Decode(c, x).bits /\ at2[k + 1] = q
      /\ \A j \in 0..k : st2[j] = st[j] /\ at2[j] = at[j]
  BY <1>2
<1>5. n \in 0..Len(text) /\ r \in 0..Len(text)
  BY DEF Decodes
<1> HIDE DEF k, v, st2, at2
<1>6. ASSUME NEW j \in 1..k+1
      PROVE  LET key == Decode(st2[j - 1], v[j])
             IN /\ st2[j] = key.bits
                /\ at2[j - 1] \in 0..Len(text) /\ at2[j] \in 0..Len(text)
                /\ IF key.c = No THEN at2[j] = at2[j - 1]
                   ELSE at2[j] = at2[j - 1] + 1 /\ text[at2[j]] = key.c
  <2>1. CASE j = k + 1
    <3>1. v[j] = x /\ st2[j] = Decode(c, x).bits /\ at2[j] = q /\ j - 1 = k
      BY <1>2, <1>4, <2>1
    <3>2. st2[j - 1] = c /\ at2[j - 1] = r
      BY <1>2, <1>3, <1>4, <3>1
    <3> QED
      BY <1>5, <3>1, <3>2
  <2>2. CASE j # k + 1
    <3>1. j \in 1..k /\ j - 1 \in 0..k /\ j \in 0..k
      BY <1>2, <2>2
    <3>2. v[j] = u[j] /\ st2[j] = st[j] /\ st2[j - 1] = st[j - 1] /\ at2[j] = at[j] /\ at2[j - 1] = at[j - 1]
      BY <1>2, <1>4, <3>1
    <3> QED
      BY <1>3, <3>1, <3>2
  <2> QED
    BY <2>1, <2>2
<1>7. st2[0] = b /\ at2[0] = n
  BY <1>2, <1>3, <1>4
<1>8. DecodesBy(st2, at2, v, b, n, text, Decode(c, x).bits, q)
  BY <1>2, <1>4, <1>6, <1>7 DEF DecodesBy
<1> QED
  BY <1>5, <1>8 DEF Decodes, v

LEMMA DecodesRest ==
  ASSUME NEW w \in Seq(0..255), NEW x \in 0..255, NEW b, NEW n, NEW text, Len(text) \in Nat,
         NEW c, NEW r, Decodes(<<x>> \o w, b, n, text, c, r)
  PROVE  LET key == Decode(b, x)
             p   == IF key.c = No THEN n ELSE n + 1
         IN /\ p \in 0..Len(text)
            /\ key.c # No => text[p] = key.c
            /\ Decodes(w, key.bits, p, text, c, r)
<1> DEFINE key == Decode(b, x)
           p == IF key.c = No THEN n ELSE n + 1
           u == <<x>> \o w
           k == Len(w)
<1>1. PICK st, at : DecodesBy(st, at, u, b, n, text, c, r)
  BY DEF Decodes
<1>2. k \in Nat /\ Len(u) = k + 1 /\ u[1] = x /\ \A j \in 1..k : u[j + 1] = w[j]
  OBVIOUS
<1> DEFINE st2 == [j \in 0..k |-> st[j + 1]]
           at2 == [j \in 0..k |-> at[j + 1]]
<1>3. \A j \in 0..k : st2[j] = st[j + 1] /\ at2[j] = at[j + 1]
  OBVIOUS
<1> HIDE DEF u, k, st2, at2
<1>4. /\ st[0] = b /\ st[k + 1] = c /\ at[0] = n /\ at[k + 1] = r
      /\ \A j \in 1..k+1 :
            LET e == Decode(st[j - 1], u[j])
            IN /\ st[j] = e.bits
               /\ at[j - 1] \in 0..Len(text) /\ at[j] \in 0..Len(text)
               /\ IF e.c = No THEN at[j] = at[j - 1]
                  ELSE at[j] = at[j - 1] + 1 /\ text[at[j]] = e.c
  BY <1>1, <1>2 DEF DecodesBy
<1>5. st[1] = key.bits /\ at[1] = p /\ p \in 0..Len(text) /\ (key.c # No => text[p] = key.c)
  <2>1. 1 \in 1..k+1 /\ 1 - 1 = 0
    BY <1>2
  <2> QED
    BY <1>2, <1>4, <2>1
<1>6. ASSUME NEW j \in 1..k
      PROVE  LET e == Decode(st2[j - 1], w[j])
             IN /\ st2[j] = e.bits
                /\ at2[j - 1] \in 0..Len(text) /\ at2[j] \in 0..Len(text)
                /\ IF e.c = No THEN at2[j] = at2[j - 1]
                   ELSE at2[j] = at2[j - 1] + 1 /\ text[at2[j]] = e.c
  <2>1. j + 1 \in 1..k+1 /\ (j + 1) - 1 = j /\ (j - 1) + 1 = j /\ j \in 0..k /\ j - 1 \in 0..k
    BY <1>2
  <2>2. st2[j] = st[j + 1] /\ at2[j] = at[j + 1] /\ st2[j - 1] = st[j] /\ at2[j - 1] = at[j] /\ w[j] = u[j + 1]
    BY <1>2, <1>3, <2>1
  <2> QED
    BY <1>4, <2>1, <2>2
<1>7. st2[0] = key.bits /\ at2[0] = p /\ st2[k] = c /\ at2[k] = r
  BY <1>2, <1>3, <1>4, <1>5
<1>8. DecodesBy(st2, at2, w, key.bits, p, text, c, r)
  BY <1>6, <1>7 DEF DecodesBy, k
<1>9. r \in 0..Len(text)
  BY DEF Decodes
<1> QED
  BY <1>5, <1>8, <1>9 DEF Decodes

LEMMA DecodesLonger ==
  ASSUME NEW u \in Seq(0..255), NEW b, NEW n, NEW text, Len(text) \in Nat, NEW c, NEW r,
         Decodes(u, b, n, text, c, r),
         NEW more, Len(more) \in Nat, Len(text) <= Len(more),
         \A j \in 1..Len(text) : more[j] = text[j]
  PROVE  Decodes(u, b, n, more, c, r)
<1>1. PICK st, at : DecodesBy(st, at, u, b, n, text, c, r)
  BY DEF Decodes
<1>2. n \in 0..Len(more) /\ r \in 0..Len(more) /\ 0..Len(text) \subseteq 0..Len(more)
  BY DEF Decodes
<1>3. ASSUME NEW j \in 1..Len(u)
      PROVE  LET key == Decode(st[j - 1], u[j])
             IN /\ st[j] = key.bits
                /\ at[j - 1] \in 0..Len(more) /\ at[j] \in 0..Len(more)
                /\ IF key.c = No THEN at[j] = at[j - 1]
                   ELSE at[j] = at[j - 1] + 1 /\ more[at[j]] = key.c
  <2> DEFINE key == Decode(st[j - 1], u[j])
  <2>1. /\ st[j] = key.bits
        /\ at[j - 1] \in 0..Len(text) /\ at[j] \in 0..Len(text)
        /\ IF key.c = No THEN at[j] = at[j - 1]
           ELSE at[j] = at[j - 1] + 1 /\ text[at[j]] = key.c
    BY <1>1 DEF DecodesBy
  <2> HIDE DEF key
  <2>2. at[j - 1] >= 0 /\ (at[j] = at[j - 1] + 1 => at[j] \in 1..Len(text))
    BY <2>1
  <2>3. /\ st[j] = key.bits
        /\ at[j - 1] \in 0..Len(more) /\ at[j] \in 0..Len(more)
        /\ IF key.c = No THEN at[j] = at[j - 1]
           ELSE at[j] = at[j - 1] + 1 /\ more[at[j]] = key.c
    BY <1>2, <2>1, <2>2
  <2> QED
    BY <2>3 DEF key
<1>4. DecodesBy(st, at, u, b, n, more, c, r)
  BY <1>1, <1>3 DEF DecodesBy
<1> QED
  BY <1>2, <1>4 DEF Decodes

-----------------------------------------------------------------------------
\* The bytes of a key, pressed and released, and what Decode makes of them.
LEMMA KeyCodes ==
  ASSUME NEW k \in Keys
  PROVE  /\ k \in 1..223
         /\ k % 128 \in 0..127 /\ (k % 128) + 128 \in 128..255 /\ (k % 128) + 128 # E0
         /\ k < 128 => k % 128 = k
         /\ k >= 128 => (k % 128) + 128 = k
BY KeyboardAssumption DEF E0

LEMMA DecodePress ==
  ASSUME NEW k \in Keys, NEW b, "E0ESC" \notin b
  PROVE  LET down == SymDiff(b \cup ShiftCode(k), ToggleCode(k))
         IN /\ k < 128 => Decode(b, k % 128) = [bits |-> down, c |-> CharCode(down, k)]
            /\ k >= 128 => /\ Decode(b, E0) = [bits |-> b \cup {"E0ESC"}, c |-> No]
                           /\ Decode(b \cup {"E0ESC"}, k % 128) = [bits |-> down, c |-> CharCode(down, k)]
<1>1. /\ k % 128 \in 0..127 /\ k % 128 # E0 /\ (k % 128) % 128 = k % 128 /\ ~(k % 128 >= 128)
      /\ k < 128 => k % 128 = k
      /\ k >= 128 => (k % 128) + 128 = k
  BY KeyCodes DEF E0
<1>2. "E0ESC" \notin b /\ (b \cup {"E0ESC"}) \ {"E0ESC"} = b /\ b \ {"E0ESC"} = b
  OBVIOUS
<1>3. ASSUME k < 128
      PROVE  Decode(b, k % 128) = [bits |-> SymDiff(b \cup ShiftCode(k), ToggleCode(k)),
                                   c |-> CharCode(SymDiff(b \cup ShiftCode(k), ToggleCode(k)), k)]
  <2>1. k % 128 = k /\ ((k % 128) % 128) + 0 = k
    BY <1>1, <1>3, KeyCodes
  <2> QED
    BY <1>1, <1>2, <2>1 DEF Decode
<1>4. ASSUME k >= 128
      PROVE  Decode(b \cup {"E0ESC"}, k % 128) =
                 [bits |-> SymDiff(b \cup ShiftCode(k), ToggleCode(k)),
                  c |-> CharCode(SymDiff(b \cup ShiftCode(k), ToggleCode(k)), k)]
  <2>1. ((k % 128) % 128) + 128 = k /\ "E0ESC" \in b \cup {"E0ESC"}
    BY <1>1, <1>4
  <2> QED
    BY <1>1, <1>2, <2>1 DEF Decode
<1>5. Decode(b, E0) = [bits |-> b \cup {"E0ESC"}, c |-> No]
  BY DEF Decode
<1> QED
  BY <1>3, <1>4, <1>5

LEMMA DecodeRelease ==
  ASSUME NEW k \in Keys, NEW b, "E0ESC" \notin b
  PROVE  /\ k < 128 => Decode(b, (k % 128) + 128) = [bits |-> b \ ShiftCode(k), c |-> No]
         /\ k >= 128 => /\ Decode(b, E0) = [bits |-> b \cup {"E0ESC"}, c |-> No]
                        /\ Decode(b \cup {"E0ESC"}, (k % 128) + 128) = [bits |-> b \ ShiftCode(k), c |-> No]
<1> DEFINE x == (k % 128) + 128
<1>1. /\ x \in 128..255 /\ x # E0 /\ x >= 128 /\ x % 128 = k % 128
      /\ k < 128 => k % 128 = k
      /\ k >= 128 => (k % 128) + 128 = k
  BY KeyCodes DEF E0
<1>2. "E0ESC" \notin b /\ (b \cup {"E0ESC"}) \ {"E0ESC"} = b /\ b \ {"E0ESC"} = b
  OBVIOUS
<1> HIDE DEF x
<1>3. ASSUME k < 128
      PROVE  Decode(b, x) = [bits |-> b \ ShiftCode(k), c |-> No]
  <2>1. (x % 128) + 0 = k
    BY <1>1, <1>3, KeyCodes
  <2> QED
    BY <1>1, <1>2, <2>1 DEF Decode
<1>4. ASSUME k >= 128
      PROVE  Decode(b \cup {"E0ESC"}, x) = [bits |-> b \ ShiftCode(k), c |-> No]
  <2>1. (x % 128) + 128 = k /\ "E0ESC" \in b \cup {"E0ESC"}
    BY <1>1, <1>4
  <2> QED
    BY <1>1, <1>2, <2>1 DEF Decode
<1>5. Decode(b, E0) = [bits |-> b \cup {"E0ESC"}, c |-> No]
  BY DEF Decode
<1> QED
  BY <1>3, <1>4, <1>5 DEF x

\* The keys of the tables: modifiers and locks have no character, modifiers
\* have no lock, and a character depends on the bits that are listed only.
LEMMA Codes ==
  ASSUME NEW d
  PROVE  /\ ShiftCode(d) \subseteq Shifts /\ ToggleCode(d) \subseteq Locks
         /\ \A b : CharCode(b, d) \in Symbols
         /\ ShiftCode(d) # {} \/ ToggleCode(d) # {} => \A b : CharCode(b, d) = No
<1>1. ShiftCode(d) \subseteq Shifts /\ ToggleCode(d) \subseteq Locks
  BY DEF ShiftCode, ToggleCode, Shifts, Locks
<1>2. ShiftCode(d) # {} => d \in {29, 157, 42, 54, 56, 184}
  BY DEF ShiftCode
<1>3. ToggleCode(d) # {} => d \in {58, 69, 70}
  BY DEF ToggleCode
<1>4. d \in {29, 157, 42, 54, 56, 184, 58, 69, 70} => \A b : CharCode(b, d) = No
  BY DEF CharCode
<1>5. \A b : CharCode(b, d) \in Symbols
  BY DEF CharCode, No, Symbols
<1> QED
  BY <1>1, <1>2, <1>3, <1>4, <1>5

-----------------------------------------------------------------------------
(***************************************************************************)
(* The ring of ~over holds Waiting characters, and they are those of the    *)
(* text behind the ones that getChar returned, n in all.                    *)
(***************************************************************************)
Waiting == (writePos + BufSize - readPos) % BufSize
Slot(j) == (readPos + j - 1) % BufSize

Collected(n) ==
    /\ n = Len(got) + Waiting
    /\ \A j \in 1..Len(got) : meant[j] = got[j]
    /\ \A j \in 1..Waiting : meant[Len(got) + j] = ring[Slot(j)]

Typed == /\ wire \in Seq(0..255)
         /\ obf \in 0..MouseData
         /\ held \subseteq Keys /\ half \subseteq Shifts /\ locks \subseteq Locks
         /\ meant \in Seq(Symbols) /\ got \in Seq(Symbols)
         /\ ring \in [0..BufSize-1 -> Symbols]
         /\ readPos \in 0..BufSize-1 /\ writePos \in 0..BufSize-1

(***************************************************************************)
(* The inductive invariant.  TypedAsMeant and ShiftFollowsKeys say what     *)
(* holds when all bytes are read.  Before that, the bytes between the       *)
(* keyboard and the driver must lead from the driver's state to the         *)
(* person's: this is what each press, and each read, keeps.                 *)
(***************************************************************************)
IInv == /\ Typed
        /\ \E n : /\ Decodes(Unread, shift, n, meant, Expected, Len(meant))
                  /\ ~over => Collected(n)

\* The quotient of two numbers, one less than twice the other, is 0 or 1.
LEMMA Quotient ==
  ASSUME NEW B \in Nat, B > 0, NEW q \in Int, NEW r \in 0..B-1, B * q + r \in 0..2*B-1
  PROVE  q = 0 \/ q = 1
<1>1. q >= 2 => B * q >= B * 2
  OBVIOUS
<1>2. q <= -1 => B * q <= B * (-1)
  OBVIOUS
<1> QED
  BY <1>1, <1>2

LEMMA Mod ==
  ASSUME NEW a \in 0..2*BufSize-1
  PROVE  a % BufSize = IF a < BufSize THEN a ELSE a - BufSize
<1> DEFINE q == a \div BufSize
           r == a % BufSize
<1>1. BufSize \in Nat /\ BufSize > 0 /\ a \in Int
  BY KeyboardAssumption
<1>2. a = BufSize * q + r /\ r \in 0..BufSize-1 /\ q \in Int
  BY <1>1
<1> HIDE DEF q, r
<1>3. q = 0 \/ q = 1
  BY <1>1, <1>2, Quotient
<1>4. r = IF a < BufSize THEN a ELSE a - BufSize
  BY <1>1, <1>2, <1>3
<1> QED
  BY <1>4 DEF r

\* The ring as intervals of positions.
LEMMA RingShape ==
  ASSUME Typed
  PROVE  /\ Waiting = IF writePos >= readPos THEN writePos - readPos ELSE writePos + BufSize - readPos
         /\ Waiting \in 0..BufSize-1
         /\ \A j \in 1..BufSize :
               Slot(j) = IF readPos + j - 1 < BufSize THEN readPos + j - 1 ELSE readPos + j - 1 - BufSize
         /\ (writePos + 1) % BufSize = IF writePos = BufSize - 1 THEN 0 ELSE writePos + 1
         /\ (readPos + 1) % BufSize = IF readPos = BufSize - 1 THEN 0 ELSE readPos + 1
<1>1. BufSize \in Nat /\ BufSize > 1 /\ readPos \in 0..BufSize-1 /\ writePos \in 0..BufSize-1
  BY KeyboardAssumption DEF Typed
<1>2. Waiting = IF writePos >= readPos THEN writePos - readPos ELSE writePos + BufSize - readPos
  <2>1. writePos + BufSize - readPos \in 0..2*BufSize-1
    BY <1>1
  <2>2. Waiting = IF writePos + BufSize - readPos < BufSize THEN writePos + BufSize - readPos
                  ELSE writePos + BufSize - readPos - BufSize
    BY <1>1, <2>1, Mod DEF Waiting
  <2> QED
    BY <1>1, <2>2
<1>3. ASSUME NEW j \in 1..BufSize
      PROVE  Slot(j) = IF readPos + j - 1 < BufSize THEN readPos + j - 1 ELSE readPos + j - 1 - BufSize
  <2>1. readPos + j - 1 \in 0..2*BufSize-1
    BY <1>1
  <2> QED
    BY <1>1, <2>1, Mod DEF Slot
<1>4. (writePos + 1) % BufSize = IF writePos = BufSize - 1 THEN 0 ELSE writePos + 1
  <2>1. writePos + 1 \in 0..2*BufSize-1
    BY <1>1
  <2> QED
    BY <1>1, <2>1, Mod
<1>5. (readPos + 1) % BufSize = IF readPos = BufSize - 1 THEN 0 ELSE readPos + 1
  <2>1. readPos + 1 \in 0..2*BufSize-1
    BY <1>1
  <2> QED
    BY <1>1, <2>1, Mod
<1> QED
  BY <1>1, <1>2, <1>3, <1>4, <1>5

-----------------------------------------------------------------------------
\* Sequences put together and taken apart.
LEMMA Joined ==
  ASSUME NEW S, NEW u \in Seq(S), NEW v \in Seq(S)
  PROVE  u \o v \in Seq(S)
OBVIOUS

LEMMA Parted ==
  ASSUME NEW S, NEW u \in Seq(S), u # <<>>
  PROVE  Head(u) \in S /\ Tail(u) \in Seq(S) /\ u = <<Head(u)>> \o Tail(u)
OBVIOUS

LEMMA UnreadBytes ==
  ASSUME Typed
  PROVE  Unread \in Seq(0..255)
<1>1. CASE obf \in {Empty, MouseData}
  BY <1>1 DEF Unread, Typed
<1>2. CASE obf \notin {Empty, MouseData}
  <2>1. <<obf>> \in Seq(0..255)
    BY <1>2 DEF Typed, Empty, MouseData
  <2> QED
    BY <1>2, <2>1 DEF Unread, Typed
<1> QED
  BY <1>1, <1>2

LEMMA Escapeless ==
  ASSUME Typed
  PROVE  /\ Mods(held) \subseteq Shifts
         /\ "E0ESC" \notin Expected
<1>1. Mods(held) \subseteq Shifts
  BY Codes DEF Mods
<1> QED
  BY <1>1 DEF Expected, Typed, Shifts, Locks

\* Collected speaks of the text only as far as it goes.
LEMMA CollectedLonger ==
  ASSUME NEW n, Collected(n), n \in 0..Len(meant), Typed,
         UNCHANGED <<buffer, got>>,
         \A j \in 1..Len(meant) : meant'[j] = meant[j]
  PROVE  Collected(n)'
<1>1. Waiting' = Waiting /\ \A j : Slot(j)' = Slot(j)
  BY DEF Waiting, Slot, buffer
<1>2. Waiting \in Nat /\ Len(got) \in Nat /\ Len(meant) \in Nat
  BY RingShape DEF Typed
<1>3. ring' = ring /\ got' = got
  BY DEF buffer
<1>4. /\ n = Len(got) + Waiting
      /\ \A j \in 1..Len(got) : meant[j] = got[j]
      /\ \A j \in 1..Waiting : meant[Len(got) + j] = ring[Slot(j)]
  BY DEF Collected
<1> HIDE DEF Waiting, Slot
<1>5. \A j \in 1..Len(got) : meant'[j] = got[j]
  <2> TAKE j \in 1..Len(got)
  <2>1. j \in 1..Len(meant)
    BY <1>2, <1>4
  <2> QED
    BY <1>4, <2>1
<1>6. \A j \in 1..Waiting : meant'[Len(got) + j] = ring[Slot(j)]
  <2> TAKE j \in 1..Waiting
  <2>1. Len(got) + j \in 1..Len(meant)
    BY <1>2, <1>4
  <2> QED
    BY <1>4, <2>1
<1> QED
  <2>1. n = Len(got') + Waiting'
    BY <1>1, <1>3, <1>4
  <2>2. \A j \in 1..Len(got') : meant'[j] = got'[j]
    BY <1>3, <1>5
  <2>3. \A j \in 1..Waiting' : meant'[Len(got') + j] = ring'[Slot(j)']
    BY <1>1, <1>3, <1>6, Zenon
  <2> QED
    BY <2>1, <2>2, <2>3 DEF Collected

LEMMA Initial == Init => IInv
<1> SUFFICES ASSUME Init PROVE IInv
  OBVIOUS
<1> USE KeyboardAssumption
<1>1. Typed
  <2>1. ring \in [0..BufSize-1 -> Symbols] /\ readPos \in 0..BufSize-1 /\ writePos \in 0..BufSize-1
    BY DEF Init, No, Symbols
  <2>2. wire \in Seq(0..255) /\ obf \in 0..MouseData
    BY DEF Init, Empty, MouseData
  <2> QED
    BY <2>1, <2>2 DEF Init, Typed
<1>2. Unread = <<>> /\ Expected = shift
  BY DEF Init, Unread, Expected, Mods
<1>3. Decodes(Unread, shift, 0, meant, Expected, Len(meant))
  BY <1>2, DecodesNone DEF Init
<1>4. Waiting = 0
  BY <1>1, RingShape DEF Init
<1>5. Collected(0)
  BY <1>4 DEF Init, Collected
<1> QED
  BY <1>1, <1>3, <1>5 DEF IInv

(***************************************************************************)
(* A press: the bytes of the key lead from what the person expected before  *)
(* to what is expected then, by way of the character that is meant.         *)
(***************************************************************************)
LEMMA PressMeans ==
  ASSUME Typed, NEW k \in Keys, Press(k)
  PROVE  LET down == SymDiff(Expected \cup ShiftCode(k), ToggleCode(k))
         IN /\ Expected' = down
            /\ \/ CharCode(down, k) = No /\ meant' = meant
               \/ CharCode(down, k) # No /\ meant' = Append(meant, CharCode(down, k))
<1> DEFINE down == SymDiff(Expected \cup ShiftCode(k), ToggleCode(k))
<1>1. /\ held' = held \cup {k} /\ half' = half \ ShiftCode(k) /\ locks' = SymDiff(locks, ToggleCode(k))
      /\ meant' = IF Meaning(k) = No THEN meant ELSE Append(meant, Meaning(k))
      /\ half # {} => ShiftCode(k) # {}
  BY DEF Press
<1>2. Mods(held \cup {k}) = Mods(held) \cup ShiftCode(k)
  BY DEF Mods
<1>3. /\ Mods(held) \subseteq Shifts /\ ShiftCode(k) \subseteq Shifts
      /\ ToggleCode(k) \subseteq Locks /\ locks \subseteq Locks /\ Shifts \cap Locks = {}
  BY Codes, Escapeless DEF Typed, Shifts, Locks
<1>4. Expected' = down
  <2>1. Expected' = ((Mods(held) \cup ShiftCode(k)) \ (half \ ShiftCode(k)))
                       \cup ((locks \ ToggleCode(k)) \cup (ToggleCode(k) \ locks))
    BY <1>1, <1>2 DEF Expected, SymDiff, Mods
  <2>2. down = ((Expected \cup ShiftCode(k)) \ ToggleCode(k)) \cup (ToggleCode(k) \ (Expected \cup ShiftCode(k)))
    BY DEF SymDiff
  <2> QED
    BY <1>3, <2>1, <2>2 DEF Expected
<1>5. Meaning(k) = CharCode(Mods(held \cup {k}) \cup locks, k)
  BY DEF Meaning, Mods
<1>6. Meaning(k) = CharCode(down, k)
  <2>1. CASE ShiftCode(k) # {} \/ ToggleCode(k) # {}
    BY <1>5, <2>1, Codes
  <2>2. CASE ShiftCode(k) = {} /\ ToggleCode(k) = {}
    <3>1. half = {} /\ Mods(held \cup {k}) = Mods(held)
      BY <1>1, <1>2, <2>2
    <3>2. down = Mods(held) \cup locks
      BY <2>2, <3>1 DEF Expected, SymDiff
    <3> QED
      BY <1>5, <3>1, <3>2
  <2> QED
    BY <2>1, <2>2
<1> QED
  BY <1>1, <1>4, <1>6

\* Bytes, by the two kinds of keys.
LEMMA BytesAre ==
  ASSUME NEW k \in Keys
  PROVE  /\ k < 128 => Bytes(k, FALSE) = <<k % 128>> /\ Bytes(k, TRUE) = <<(k % 128) + 128>>
         /\ k >= 128 => Bytes(k, FALSE) = <<E0, k % 128>> /\ Bytes(k, TRUE) = <<E0, (k % 128) + 128>>
<1>1. k \in 1..223 /\ k % 128 \in 0..127
  BY KeyCodes
<1>2. (k % 128) + 0 = k % 128
  BY <1>1
<1> QED
  BY <1>1, <1>2 DEF Bytes

\* One byte, and an escape with another, behind others.
LEMMA DecodesOne ==
  ASSUME NEW u \in Seq(0..255), NEW b, NEW n, NEW text, Len(text) \in Nat, NEW c, NEW r,
         Decodes(u, b, n, text, c, r),
         NEW x \in 0..255, NEW d, NEW ch, Decode(c, x) = [bits |-> d, c |-> ch],
         NEW q \in 0..Len(text), IF ch = No THEN q = r ELSE q = r + 1 /\ text[q] = ch
  PROVE  Decodes(u \o <<x>>, b, n, text, d, q)
<1>1. Decode(c, x).bits = d /\ Decode(c, x).c = ch
  OBVIOUS
<1>2. IF Decode(c, x).c = No THEN q = r ELSE q = r + 1 /\ text[q] = Decode(c, x).c
  BY <1>1
<1>3. Decodes(Append(u, x), b, n, text, Decode(c, x).bits, q)
  BY <1>2, DecodesMore
<1>4. u \o <<x>> = Append(u, x)
  OBVIOUS
<1> QED
  BY <1>1, <1>3, <1>4

LEMMA DecodesTwo ==
  ASSUME NEW u \in Seq(0..255), NEW b, NEW n, NEW text, Len(text) \in Nat, NEW c, NEW r,
         Decodes(u, b, n, text, c, r),
         NEW x \in 0..255, NEW e, Decode(c, E0) = [bits |-> e, c |-> No],
         NEW d, NEW ch, Decode(e, x) = [bits |-> d, c |-> ch],
         NEW q \in 0..Len(text), IF ch = No THEN q = r ELSE q = r + 1 /\ text[q] = ch
  PROVE  Decodes(u \o <<E0, x>>, b, n, text, d, q)
<1>1. E0 \in 0..255
  BY DEF E0
<1>2. r \in 0..Len(text)
  BY DEF Decodes
<1>3. Decodes(u \o <<E0>>, b, n, text, e, r)
  BY <1>1, <1>2, DecodesOne
<1>4. u \o <<E0>> \in Seq(0..255)
  BY <1>1
<1>5. Decodes((u \o <<E0>>) \o <<x>>, b, n, text, d, q)
  BY <1>3, <1>4, DecodesOne
<1>6. (u \o <<E0>>) \o <<x>> = u \o <<E0, x>>
  BY <1>1
<1> QED
  BY <1>5, <1>6

\* The bytes of a press, behind others.
LEMMA DecodesPress ==
  ASSUME NEW u \in Seq(0..255), NEW b, NEW n, NEW text, Len(text) \in Nat, NEW c, NEW r,
         Decodes(u, b, n, text, c, r), "E0ESC" \notin c,
         NEW k \in Keys, NEW down, down = SymDiff(c \cup ShiftCode(k), ToggleCode(k)),
         NEW ch, ch = CharCode(down, k),
         NEW q \in 0..Len(text), IF ch = No THEN q = r ELSE q = r + 1 /\ text[q] = ch
  PROVE  Decodes(u \o Bytes(k, FALSE), b, n, text, down, q)
<1> DEFINE x == k % 128
<1>1. x \in 0..255 /\ k \in 1..223
  BY KeyCodes
<1>2. CASE k < 128
  <2>1. Decode(c, x) = [bits |-> down, c |-> ch]
    BY <1>2, DecodePress
  <2>2. Bytes(k, FALSE) = <<x>>
    BY <1>2, BytesAre
  <2> HIDE DEF x
  <2>3. Decodes(u \o <<x>>, b, n, text, down, q)
    BY <1>1, <2>1, DecodesOne
  <2> QED
    BY <2>2, <2>3
<1>3. CASE k >= 128
  <2> DEFINE e == c \cup {"E0ESC"}
  <2>1. /\ Decode(c, E0) = [bits |-> e, c |-> No]
        /\ Decode(e, x) = [bits |-> down, c |-> ch]
    BY <1>3, DecodePress
  <2>2. Bytes(k, FALSE) = <<E0, x>>
    BY <1>3, BytesAre
  <2> HIDE DEF x, e
  <2>3. Decodes(u \o <<E0, x>>, b, n, text, down, q)
    BY <1>1, <2>1, DecodesTwo
  <2> QED
    BY <2>2, <2>3
<1>4. k < 128 \/ k >= 128
  BY <1>1
<1> QED
  BY <1>2, <1>3, <1>4

\* The bytes of a release, behind others.
LEMMA DecodesRelease ==
  ASSUME NEW u \in Seq(0..255), NEW b, NEW n, NEW text, Len(text) \in Nat, NEW c, NEW r,
         Decodes(u, b, n, text, c, r), "E0ESC" \notin c,
         NEW k \in Keys, NEW up, up = c \ ShiftCode(k)
  PROVE  Decodes(u \o Bytes(k, TRUE), b, n, text, up, r)
<1> DEFINE x == (k % 128) + 128
<1>1. x \in 0..255 /\ k \in 1..223
  BY KeyCodes
<1>2. r \in 0..Len(text)
  BY DEF Decodes
<1>3. CASE k < 128
  <2>1. Decode(c, x) = [bits |-> up, c |-> No]
    BY <1>3, DecodeRelease
  <2>2. Bytes(k, TRUE) = <<x>>
    BY <1>3, BytesAre
  <2> HIDE DEF x
  <2>3. Decodes(u \o <<x>>, b, n, text, up, r)
    BY <1>1, <1>2, <2>1, DecodesOne
  <2> QED
    BY <2>2, <2>3
<1>4. CASE k >= 128
  <2> DEFINE e == c \cup {"E0ESC"}
  <2>1. /\ Decode(c, E0) = [bits |-> e, c |-> No]
        /\ Decode(e, x) = [bits |-> up, c |-> No]
    BY <1>4, DecodeRelease
  <2>2. Bytes(k, TRUE) = <<E0, x>>
    BY <1>4, BytesAre
  <2> HIDE DEF x, e
  <2>3. Decodes(u \o <<E0, x>>, b, n, text, up, r)
    BY <1>1, <1>2, <2>1, DecodesTwo
  <2> QED
    BY <2>2, <2>3
<1>5. k < 128 \/ k >= 128
  BY <1>1
<1> QED
  BY <1>3, <1>4, <1>5

\* What the keyboard sends goes behind what was not read.
LEMMA UnreadGrows ==
  ASSUME Typed, NEW u \in Seq(0..255), wire' = wire \o u, obf' = obf
  PROVE  Unread' = Unread \o u
<1>1. CASE obf \in {Empty, MouseData}
  BY <1>1 DEF Unread
<1>2. CASE obf \notin {Empty, MouseData}
  <2>1. <<obf>> \in Seq(0..255) /\ wire \in Seq(0..255)
    BY <1>2 DEF Typed, Empty, MouseData
  <2>2. <<obf>> \o (wire \o u) = (<<obf>> \o wire) \o u
    BY <2>1
  <2> QED
    BY <1>2, <2>2 DEF Unread
<1> QED
  BY <1>1, <1>2

LEMMA BytesType ==
  ASSUME NEW k \in Keys
  PROVE  Bytes(k, FALSE) \in Seq(0..255) /\ Bytes(k, TRUE) \in Seq(0..255)
<1>1. k % 128 \in 0..255 /\ (k % 128) + 128 \in 0..255 /\ k \in 1..223
  BY KeyCodes
<1>2. E0 \in 0..255
  BY DEF E0
<1>3. k < 128 \/ k >= 128
  BY <1>1
<1> DEFINE x == k % 128
           y == (k % 128) + 128
<1>4. x \in 0..255 /\ y \in 0..255
  BY <1>1
<1>5. /\ k < 128 => Bytes(k, FALSE) = <<x>> /\ Bytes(k, TRUE) = <<y>>
      /\ k >= 128 => Bytes(k, FALSE) = <<E0, x>> /\ Bytes(k, TRUE) = <<E0, y>>
  BY BytesAre
<1> HIDE DEF x, y
<1>6. <<x>> \in Seq(0..255) /\ <<y>> \in Seq(0..255) /\ <<E0, x>> \in Seq(0..255) /\ <<E0, y>> \in Seq(0..255)
  BY <1>2, <1>4
<1> QED
  BY <1>3, <1>5, <1>6

LEMMA PressStep ==
  ASSUME IInv, NEW k \in Keys, Press(k)
  PROVE  IInv'
<1>1. Typed
  BY DEF IInv
<1>2. PICK n : Decodes(Unread, shift, n, meant, Expected, Len(meant)) /\ (~over => Collected(n))
  BY DEF IInv
<1>3. /\ wire' = wire \o Bytes(k, FALSE) /\ obf' = obf /\ shift' = shift /\ over' = over
      /\ UNCHANGED <<buffer, got>>
  BY DEF Press
<1>4. PICK down, ch :
         /\ down = SymDiff(Expected \cup ShiftCode(k), ToggleCode(k)) /\ ch = CharCode(down, k)
         /\ Expected' = down
         /\ \/ ch = No /\ meant' = meant
            \/ ch # No /\ meant' = Append(meant, ch)
  BY <1>1, PressMeans
<1>5. ch \in Symbols
  BY <1>4, Codes
<1>6. meant \in Seq(Symbols) /\ \/ ch = No /\ meant' = meant
                                \/ ch # No /\ meant' = Append(meant, ch)
  BY <1>1, <1>4 DEF Typed
<1>7. /\ Len(meant) \in Nat /\ meant' \in Seq(Symbols) /\ Len(meant') \in Nat /\ Len(meant) <= Len(meant')
      /\ \A j \in 1..Len(meant) : meant'[j] = meant[j]
      /\ IF ch = No THEN Len(meant') = Len(meant)
         ELSE Len(meant') = Len(meant) + 1 /\ meant'[Len(meant')] = ch
  BY <1>5, <1>6
<1>8. Unread \in Seq(0..255)
  BY <1>1, UnreadBytes
<1>9. Decodes(Unread, shift, n, meant', Expected, Len(meant))
  BY <1>2, <1>7, <1>8, DecodesLonger
<1>10. Decodes(Unread', shift', n, meant', Expected', Len(meant'))
  <2>1. Unread' = Unread \o Bytes(k, FALSE)
    BY <1>1, <1>3, UnreadGrows, BytesType
  <2>2. Len(meant') \in 0..Len(meant')
    BY <1>7
  <2>3. "E0ESC" \notin Expected
    BY <1>1, Escapeless
  <2>4. Decodes(Unread \o Bytes(k, FALSE), shift, n, meant', down, Len(meant'))
    BY <1>4, <1>7, <1>8, <1>9, <2>2, <2>3, DecodesPress
  <2> QED
    BY <1>3, <1>4, <2>1, <2>4
<1>11. ~over' => Collected(n)'
  BY <1>1, <1>2, <1>3, <1>7, CollectedLonger DEF Decodes
<1>12. Typed'
  <2>1. held' = held \cup {k} /\ half' = half \ ShiftCode(k) /\ locks' = SymDiff(locks, ToggleCode(k))
    BY DEF Press
  <2>2. ToggleCode(k) \subseteq Locks
    BY Codes
  <2>3. held' \subseteq Keys /\ half' \subseteq Shifts /\ locks' \subseteq Locks
    BY <1>1, <2>1, <2>2 DEF Typed, SymDiff
  <2>4. wire' \in Seq(0..255)
    <3>1. wire \in Seq(0..255) /\ Bytes(k, FALSE) \in Seq(0..255)
      BY <1>1, BytesType DEF Typed
    <3> QED
      BY <1>3, <3>1, Joined
  <2> QED
    BY <1>1, <1>3, <1>7, <2>3, <2>4 DEF Typed, buffer
<1> QED
  BY <1>10, <1>11, <1>12 DEF IInv

LEMMA ReleaseStep ==
  ASSUME IInv, NEW k \in Keys, Release(k)
  PROVE  IInv'
<1>1. Typed
  BY DEF IInv
<1>2. PICK n : Decodes(Unread, shift, n, meant, Expected, Len(meant)) /\ (~over => Collected(n))
  BY DEF IInv
<1>3. /\ wire' = wire \o Bytes(k, TRUE) /\ obf' = obf /\ shift' = shift /\ over' = over
      /\ UNCHANGED <<buffer, got, locks, meant>> /\ held' = held \ {k} /\ k \in held
      /\ half' = (half \ ShiftCode(k)) \cup (ShiftCode(k) \cap Mods(held \ {k}))
  BY DEF Release, Mods
<1>4. Expected' = Expected \ ShiftCode(k)
  <2>1. Mods(held) = Mods(held \ {k}) \cup ShiftCode(k)
    BY <1>3 DEF Mods
  <2>2. Expected' = (Mods(held \ {k}) \ half') \cup locks
    BY <1>3 DEF Expected, Mods
  <2>3. ShiftCode(k) \cap locks = {}
    BY <1>1, Codes DEF Typed, Shifts, Locks
  <2> QED
    BY <1>3, <2>1, <2>2, <2>3 DEF Expected
<1>5. Decodes(Unread', shift', n, meant', Expected', Len(meant'))
  <2>1. Unread' = Unread \o Bytes(k, TRUE)
    BY <1>1, <1>3, UnreadGrows, BytesType
  <2>2. Len(meant) \in Nat
    BY <1>1 DEF Typed
  <2>3. "E0ESC" \notin Expected
    BY <1>1, Escapeless
  <2>4. Unread \in Seq(0..255)
    BY <1>1, UnreadBytes
  <2>5. Decodes(Unread \o Bytes(k, TRUE), shift, n, meant, Expected', Len(meant))
    BY <1>2, <1>4, <2>2, <2>3, <2>4, DecodesRelease
  <2> QED
    BY <1>3, <2>1, <2>5
<1>6. ~over' => Collected(n)'
  BY <1>1, <1>2, <1>3, CollectedLonger DEF Decodes
<1>7. Typed'
  <2>1. held' \subseteq Keys /\ half' \subseteq Shifts
    BY <1>1, <1>3, Codes DEF Typed
  <2>2. wire' \in Seq(0..255)
    <3>1. wire \in Seq(0..255) /\ Bytes(k, TRUE) \in Seq(0..255)
      BY <1>1, BytesType DEF Typed
    <3> QED
      BY <1>3, <3>1, Joined
  <2> QED
    BY <1>1, <1>3, <2>1, <2>2 DEF Typed, buffer
<1> QED
  BY <1>5, <1>6, <1>7 DEF IInv

\* Bytes that come, and the mouse: what is unread stays the same.
LEMMA ArriveStep ==
  ASSUME IInv, Arrive
  PROVE  IInv'
<1>1. Typed
  BY DEF IInv
<1>2. PICK n : Decodes(Unread, shift, n, meant, Expected, Len(meant)) /\ (~over => Collected(n))
  BY DEF IInv
<1>3. /\ obf = Empty /\ wire # <<>> /\ obf' = Head(wire) /\ wire' = Tail(wire)
      /\ UNCHANGED <<shift, buffer, person, got, over>>
  BY DEF Arrive
<1>4. wire \in Seq(0..255) /\ Head(wire) \in 0..255 /\ Tail(wire) \in Seq(0..255) /\ wire = <<Head(wire)>> \o Tail(wire)
  <2>1. wire \in Seq(0..255)
    BY <1>1 DEF Typed
  <2> QED
    BY <1>3, <2>1, Parted
<1>5. Unread' = Unread
  <2>1. Unread = wire
    BY <1>3 DEF Unread
  <2>2. obf' \notin {Empty, MouseData}
    <3>1. obf' \in 0..255
      BY <1>3, <1>4
    <3> QED
      BY <3>1 DEF Empty, MouseData
  <2>3. Unread' = <<obf'>> \o wire'
    BY <2>2 DEF Unread
  <2> QED
    BY <1>3, <1>4, <2>1, <2>3
<1>6. Expected' = Expected /\ meant' = meant /\ shift' = shift /\ over' = over
  BY <1>3 DEF Expected, Mods, person
<1>7. Decodes(Unread', shift', n, meant', Expected', Len(meant'))
  BY <1>2, <1>5, <1>6
<1>8. ~over' => Collected(n)'
  BY <1>1, <1>2, <1>3, <1>6, CollectedLonger DEF Decodes
<1>9. Typed'
  <2>1. obf' \in 0..MouseData /\ wire' \in Seq(0..255)
    BY <1>3, <1>4 DEF MouseData
  <2> QED
    BY <1>1, <1>3, <2>1 DEF Typed, person, buffer
<1> QED
  BY <1>7, <1>8, <1>9 DEF IInv

LEMMA QuietStep ==
  ASSUME IInv, UNCHANGED <<wire, shift, buffer, person, got, over>>,
         obf' = obf \/ (obf = Empty /\ obf' = MouseData)
  PROVE  IInv'
<1>1. Typed
  BY DEF IInv
<1>2. PICK n : Decodes(Unread, shift, n, meant, Expected, Len(meant)) /\ (~over => Collected(n))
  BY DEF IInv
<1>3. Unread' = Unread
  BY DEF Unread
<1>4. Expected' = Expected /\ meant' = meant /\ shift' = shift /\ over' = over
  BY DEF Expected, Mods, person
<1>5. Decodes(Unread', shift', n, meant', Expected', Len(meant'))
  BY <1>2, <1>3, <1>4
<1>6. ~over' => Collected(n)'
  BY <1>1, <1>2, <1>4, CollectedLonger DEF Decodes
<1>7. Typed'
  <2>1. obf' = obf \/ obf' = 257
    BY DEF MouseData
  <2>2. obf \in 0..257
    BY <1>1 DEF Typed, MouseData
  <2>3. obf' \in 0..MouseData
    BY <2>1, <2>2 DEF MouseData
  <2> QED
    BY <1>1, <2>3 DEF Typed, person, buffer
<1> QED
  BY <1>5, <1>6, <1>7 DEF IInv

\* The ring as numbers: the j-th position after r, and how far w is from r.
At(r, j) == IF r + j - 1 < BufSize THEN r + j - 1 ELSE r + j - 1 - BufSize
Apart(w, r) == IF w >= r THEN w - r ELSE w + BufSize - r
Succ(i)  == IF i = BufSize - 1 THEN 0 ELSE i + 1

LEMMA WriteOn ==
  ASSUME NEW r \in 0..BufSize-1, NEW w \in 0..BufSize-1, Succ(w) # r
  PROVE  /\ Apart(Succ(w), r) = Apart(w, r) + 1
         /\ Apart(w, r) \in 0..BufSize-2
         /\ At(r, Apart(w, r) + 1) = w
         /\ \A j \in 1..Apart(w, r) : At(r, j) \in 0..BufSize-1 /\ At(r, j) # w
<1> DEFINE v == Succ(w)
           W == Apart(w, r)
<1>1. BufSize \in Nat /\ BufSize > 1
  BY KeyboardAssumption
<1>2. v = (IF w = BufSize - 1 THEN 0 ELSE w + 1) /\ v # r
  BY DEF Succ
<1>3. W = IF w >= r THEN w - r ELSE w + BufSize - r
  BY DEF Apart
<1> HIDE DEF v, W
<1>4. W \in 0..BufSize-2
  BY <1>1, <1>2, <1>3
<1>5. Apart(v, r) = W + 1
  BY <1>1, <1>2, <1>3 DEF Apart
<1>6. At(r, W + 1) = w
  BY <1>1, <1>3 DEF At
<1>7. \A j \in 1..W : At(r, j) \in 0..BufSize-1 /\ At(r, j) # w
  BY <1>1, <1>3, <1>4 DEF At
<1> QED
  BY <1>4, <1>5, <1>6, <1>7 DEF v, W

LEMMA ReadOn ==
  ASSUME NEW r \in 0..BufSize-1, NEW w \in 0..BufSize-1, w # r
  PROVE  /\ Apart(w, r) \in 1..BufSize-1
         /\ Apart(w, Succ(r)) = Apart(w, r) - 1
         /\ At(r, 1) = r
         /\ \A j \in 1..Apart(w, r)-1 : At(Succ(r), j) = At(r, j + 1)
<1> DEFINE v == Succ(r)
           W == Apart(w, r)
<1>1. BufSize \in Nat /\ BufSize > 1
  BY KeyboardAssumption
<1>2. v = IF r = BufSize - 1 THEN 0 ELSE r + 1
  BY DEF Succ
<1>3. W = IF w >= r THEN w - r ELSE w + BufSize - r
  BY DEF Apart
<1> HIDE DEF v, W
<1>4. W \in 1..BufSize-1
  BY <1>1, <1>3
<1>5. Apart(w, v) = W - 1
  BY <1>1, <1>2, <1>3 DEF Apart
<1>6. At(r, 1) = r
  BY <1>1 DEF At
<1>7. \A j \in 1..W-1 : At(v, j) = At(r, j + 1)
  BY <1>1, <1>2, <1>3, <1>4 DEF At
<1> QED
  BY <1>4, <1>5, <1>6, <1>7 DEF v, W

\* The driver puts a character behind those that wait, into a slot of its own.
LEMMA RingGrows ==
  ASSUME Typed, NEW n, Collected(n), NEW ch, meant[n + 1] = ch,
         ring' = [ring EXCEPT ![writePos] = ch], writePos' = (writePos + 1) % BufSize,
         (writePos + 1) % BufSize # readPos,
         UNCHANGED <<readPos, got, meant>>
  PROVE  Collected(n + 1)'
<1> DEFINE W == Waiting
<1>1. BufSize \in Nat /\ readPos \in 0..BufSize-1 /\ writePos \in 0..BufSize-1 /\ Len(got) \in Nat
  BY KeyboardAssumption DEF Typed
<1>2. /\ W = Apart(writePos, readPos)
      /\ \A j \in 1..BufSize : Slot(j) = At(readPos, j)
      /\ (writePos + 1) % BufSize = Succ(writePos)
  BY RingShape DEF Apart, At, Succ
<1>3. writePos' = Succ(writePos) /\ Succ(writePos) # readPos
  BY <1>2
<1>4. /\ Apart(Succ(writePos), readPos) = W + 1
      /\ W \in 0..BufSize-2
      /\ At(readPos, W + 1) = writePos
      /\ \A j \in 1..W : At(readPos, j) \in 0..BufSize-1 /\ At(readPos, j) # writePos
  BY <1>1, <1>2, <1>3, WriteOn
<1>5. Waiting' = W + 1
  <2> DEFINE a == writePos' + BufSize - readPos
  <2>1. a \in 0..2*BufSize-1
    BY <1>1, <1>3 DEF Succ
  <2>2. Waiting' = a % BufSize
    BY DEF Waiting
  <2> HIDE DEF a
  <2>3. Waiting' = IF a < BufSize THEN a ELSE a - BufSize
    BY <2>1, <2>2, Mod
  <2>4. Waiting' = Apart(Succ(writePos), readPos)
    BY <1>1, <1>3, <2>3 DEF a, Apart, Succ
  <2> QED
    BY <1>4, <2>4
<1> HIDE DEF W
<1>6. \A j : Slot(j)' = Slot(j)
  BY DEF Slot
<1>7. Slot(W + 1) = writePos /\ \A j \in 1..W : Slot(j) \in 0..BufSize-1 /\ Slot(j) # writePos
  <2>1. W + 1 \in 1..BufSize /\ \A j \in 1..W : j \in 1..BufSize
    BY <1>1, <1>4
  <2> QED
    BY <1>2, <1>4, <2>1
<1>8. ring'[writePos] = ch /\ \A i \in 0..BufSize-1 : i # writePos => ring'[i] = ring[i]
  BY <1>1 DEF Typed
<1>9. /\ n = Len(got) + W
      /\ \A j \in 1..Len(got) : meant[j] = got[j]
      /\ \A j \in 1..W : meant[Len(got) + j] = ring[Slot(j)]
  BY DEF Collected, W
<1>10. ASSUME NEW j \in 1..W+1
       PROVE  meant[Len(got) + j] = ring'[Slot(j)]
  <2>1. CASE j = W + 1
    <3>1. Len(got) + j = n + 1
      BY <1>1, <1>4, <1>9, <2>1
    <3> QED
      BY <1>7, <1>8, <2>1, <3>1
  <2>2. CASE j # W + 1
    <3>1. j \in 1..W
      BY <1>4, <2>2
    <3> QED
      BY <1>7, <1>8, <1>9, <3>1
  <2> QED
    BY <2>1, <2>2
<1>11. n + 1 = Len(got) + (W + 1)
  BY <1>1, <1>4, <1>9
<1> QED
  BY <1>5, <1>6, <1>9, <1>10, <1>11 DEF Collected

\* A character taken is the first of those that wait.
LEMMA RingShrinks ==
  ASSUME Typed, NEW n, Collected(n), writePos # readPos,
         got' = Append(got, ring[readPos]), readPos' = (readPos + 1) % BufSize,
         UNCHANGED <<ring, writePos, meant>>
  PROVE  Collected(n)'
<1> DEFINE W == Waiting
<1>1. /\ BufSize \in Nat /\ readPos \in 0..BufSize-1 /\ writePos \in 0..BufSize-1
      /\ got \in Seq(Symbols) /\ Len(got) \in Nat
  BY KeyboardAssumption DEF Typed
<1>2. /\ W = Apart(writePos, readPos)
      /\ \A j \in 1..BufSize : Slot(j) = At(readPos, j)
      /\ (readPos + 1) % BufSize = Succ(readPos)
  BY RingShape DEF Apart, At, Succ
<1>3. /\ W \in 1..BufSize-1
      /\ Apart(writePos, Succ(readPos)) = W - 1
      /\ At(readPos, 1) = readPos
      /\ \A j \in 1..W-1 : At(Succ(readPos), j) = At(readPos, j + 1)
  BY <1>1, <1>2, ReadOn
<1>4. readPos' = Succ(readPos) /\ Succ(readPos) \in 0..BufSize-1
  BY <1>1, <1>2 DEF Succ
<1>5. Waiting' = W - 1
  <2> DEFINE a == writePos + BufSize - readPos'
  <2>1. a \in 0..2*BufSize-1
    BY <1>1, <1>4
  <2>2. Waiting' = a % BufSize
    BY DEF Waiting
  <2> HIDE DEF a
  <2>3. Waiting' = IF a < BufSize THEN a ELSE a - BufSize
    BY <2>1, <2>2, Mod
  <2>4. Waiting' = Apart(writePos, Succ(readPos))
    BY <1>1, <1>4, <2>3 DEF a, Apart
  <2> QED
    BY <1>3, <2>4
<1> HIDE DEF W
<1>6. ASSUME NEW j \in 1..W-1
      PROVE  Slot(j)' = Slot(j + 1)
  <2> DEFINE a == readPos' + j - 1
  <2>1. a \in 0..2*BufSize-1 /\ j + 1 \in 1..BufSize
    BY <1>1, <1>3, <1>4
  <2>2. Slot(j)' = a % BufSize
    BY DEF Slot
  <2> HIDE DEF a
  <2>3. Slot(j)' = IF a < BufSize THEN a ELSE a - BufSize
    BY <2>1, <2>2, Mod
  <2>4. a = Succ(readPos) + j - 1
    BY <1>4 DEF a
  <2>5. At(Succ(readPos), j) = IF a < BufSize THEN a ELSE a - BufSize
    BY <1>1, <1>3, <1>4, <2>1, <2>4 DEF At
  <2>6. Slot(j)' = At(Succ(readPos), j)
    BY <2>3, <2>5
  <2> QED
    BY <1>2, <1>3, <2>1, <2>6
<1>7. Slot(1) = readPos
  <2>1. 1 \in 1..BufSize
    BY <1>1, <1>3
  <2> QED
    BY <1>2, <1>3, <2>1
<1>8. /\ n = Len(got) + W
      /\ \A j \in 1..Len(got) : meant[j] = got[j]
      /\ \A j \in 1..W : meant[Len(got) + j] = ring[Slot(j)]
  BY DEF Collected, W
<1>9. meant[Len(got) + 1] = ring[readPos]
  BY <1>3, <1>7, <1>8
<1>10. /\ Len(got') = Len(got) + 1 /\ got'[Len(got) + 1] = ring[readPos]
       /\ \A j \in 1..Len(got) : got'[j] = got[j]
  BY <1>1
<1>11. n = Len(got') + (W - 1)
  BY <1>1, <1>3, <1>8, <1>10
<1>12. \A j \in 1..Len(got') : meant[j] = got'[j]
  BY <1>1, <1>8, <1>9, <1>10
<1>13. ASSUME NEW j \in 1..W-1
       PROVE  meant[Len(got') + j] = ring[Slot(j)']
  <2>1. j + 1 \in 1..W /\ Len(got') + j = Len(got) + (j + 1)
    BY <1>1, <1>3, <1>10
  <2> QED
    BY <1>6, <1>8, <2>1
<1> QED
  BY <1>5, <1>11, <1>12, <1>13 DEF Collected

(***************************************************************************)
(* A byte is read: the rest of the bytes leads on from the new shift state, *)
(* and the character, if there is one, is the next of the text.             *)
(***************************************************************************)
LEMMA ReadByteStep ==
  ASSUME IInv, ReadByte
  PROVE  IInv'
<1>1. Typed
  BY DEF IInv
<1>2. PICK n : Decodes(Unread, shift, n, meant, Expected, Len(meant)) /\ (~over => Collected(n))
  BY DEF IInv
<1> DEFINE key == Decode(shift, obf)
<1>3. /\ obf \notin {Empty, MouseData} /\ obf' = Empty /\ shift' = key.bits
      /\ IF key.c = No THEN UNCHANGED <<buffer, over>>
         ELSE /\ ring' = [ring EXCEPT ![writePos] = key.c]
              /\ writePos' = (writePos + 1) % BufSize
              /\ over' = (over \/ (writePos + 1) % BufSize = readPos)
              /\ UNCHANGED readPos
      /\ UNCHANGED <<wire, person, got>>
  BY DEF ReadByte
<1>4. obf \in 0..255 /\ wire \in Seq(0..255) /\ Len(meant) \in Nat
  BY <1>1, <1>3 DEF Typed, Empty, MouseData
<1>5. key.c \in Symbols
  BY Codes DEF Decode, Symbols, No
<1>6. Unread = <<obf>> \o wire /\ Unread' = wire
  BY <1>3 DEF Unread
<1>7. UNCHANGED <<Expected, meant>>
  BY <1>3 DEF Expected, Mods, person
<1> HIDE DEF key
<1>8. PICK p : /\ p = IF key.c = No THEN n ELSE n + 1
               /\ p \in 0..Len(meant)
               /\ key.c # No => meant[p] = key.c
               /\ Decodes(wire, key.bits, p, meant, Expected, Len(meant))
  BY <1>2, <1>4, <1>6, DecodesRest DEF key
<1>9. Decodes(Unread', shift', p, meant', Expected', Len(meant'))
  BY <1>3, <1>6, <1>7, <1>8
<1>10. ~over' => Collected(p)'
  <2>1. CASE key.c = No
    <3>1. p = n /\ UNCHANGED <<buffer, over>>
      BY <1>3, <1>8, <2>1
    <3> QED
      BY <1>1, <1>2, <1>3, <1>7, <1>8, <3>1, CollectedLonger
  <2>2. CASE key.c # No
    <3> SUFFICES ASSUME ~over' PROVE Collected(p)'
      OBVIOUS
    <3>1. /\ p = n + 1 /\ meant[n + 1] = key.c
          /\ ring' = [ring EXCEPT ![writePos] = key.c]
          /\ writePos' = (writePos + 1) % BufSize
          /\ UNCHANGED <<readPos, got, meant>>
      BY <1>3, <1>7, <1>8, <2>2
    <3>2. ~over /\ (writePos + 1) % BufSize # readPos
      BY <1>3, <2>2
    <3> QED
      BY <1>1, <1>2, <3>1, <3>2, RingGrows
  <2> QED
    BY <2>1, <2>2
<1>11. Typed'
  <2>1. obf' \in 0..MouseData
    BY <1>3 DEF Empty, MouseData
  <2>2. ring' \in [0..BufSize-1 -> Symbols] /\ readPos' \in 0..BufSize-1 /\ writePos' \in 0..BufSize-1
    <3>1. CASE key.c = No
      BY <1>1, <1>3, <3>1 DEF Typed, buffer
    <3>2. CASE key.c # No
      <4>1. (writePos + 1) % BufSize \in 0..BufSize-1
        BY <1>1, RingShape, KeyboardAssumption DEF Typed
      <4> QED
        BY <1>1, <1>3, <1>5, <3>2, <4>1 DEF Typed
    <3> QED
      BY <3>1, <3>2
  <2> QED
    BY <1>1, <1>3, <2>1, <2>2 DEF Typed, person
<1> QED
  BY <1>9, <1>10, <1>11 DEF IInv

LEMMA TakeStep ==
  ASSUME IInv, Take
  PROVE  IInv'
<1>1. Typed
  BY DEF IInv
<1>2. PICK n : Decodes(Unread, shift, n, meant, Expected, Len(meant)) /\ (~over => Collected(n))
  BY DEF IInv
<1>3. /\ writePos # readPos /\ got' = Append(got, ring[readPos]) /\ readPos' = (readPos + 1) % BufSize
      /\ UNCHANGED <<wire, obf, shift, ring, writePos, person, over>>
  BY DEF Take
<1>4. UNCHANGED <<Unread, Expected, meant>>
  BY <1>3 DEF Unread, Expected, Mods, person
<1>5. Decodes(Unread', shift', n, meant', Expected', Len(meant'))
  BY <1>2, <1>3, <1>4
<1>6. ~over' => Collected(n)'
  BY <1>1, <1>2, <1>3, <1>4, RingShrinks
<1>7. Typed'
  <2>1. readPos' \in 0..BufSize-1
    BY <1>1, <1>3, RingShape, KeyboardAssumption DEF Typed
  <2>2. got' \in Seq(Symbols)
    BY <1>1, <1>3 DEF Typed
  <2> QED
    BY <1>1, <1>3, <2>1, <2>2 DEF Typed, person
<1> QED
  BY <1>5, <1>6, <1>7 DEF IInv

-----------------------------------------------------------------------------
(***************************************************************************)
(* However the bytes of the keys and the reads of the driver follow each    *)
(* other, what the driver has yet to read leads from its state to the       *)
(* person's.                                                                *)
(***************************************************************************)
THEOREM Invariant == Spec => []IInv
<1>1. Init => IInv
  BY Initial
<1>2. IInv /\ [Next]_vars => IInv'
  <2> SUFFICES ASSUME IInv, [Next]_vars PROVE IInv'
    OBVIOUS
  <2>1. ASSUME NEW k \in Keys, Press(k) PROVE IInv'
    BY <2>1, PressStep
  <2>2. ASSUME NEW k \in Keys, Release(k) PROVE IInv'
    BY <2>2, ReleaseStep
  <2>3. CASE Arrive
    BY <2>3, ArriveStep
  <2>4. CASE MouseMoves
    BY <2>4, QuietStep DEF MouseMoves
  <2>5. CASE GetChar
    BY <2>5, QuietStep DEF GetChar
  <2>6. CASE ReadByte
    BY <2>6, ReadByteStep
  <2>7. CASE Take
    BY <2>7, TakeStep
  <2>8. CASE UNCHANGED vars
    BY <2>8, QuietStep DEF vars
  <2> QED
    BY <2>1, <2>2, <2>3, <2>4, <2>5, <2>6, <2>7, <2>8 DEF Next
<1> QED
  BY <1>1, <1>2, PTL DEF Spec

\* With all bytes read the driver has come to what the person expects.
LEMMA AllRead ==
  ASSUME IInv, Quiet
  PROVE  shift = Expected /\ (~over => Collected(Len(meant)))
<1>1. PICK n : Decodes(Unread, shift, n, meant, Expected, Len(meant)) /\ (~over => Collected(n))
  BY DEF IInv
<1>2. Unread = <<>>
  BY DEF Quiet, Unread
<1>3. PICK st, at : DecodesBy(st, at, <<>>, shift, n, meant, Expected, Len(meant))
  BY <1>1, <1>2 DEF Decodes
<1>4. shift = Expected /\ n = Len(meant)
  BY <1>3 DEF DecodesBy
<1> QED
  BY <1>1, <1>4

(***************************************************************************)
(* The driver's modifier bits are those of the keys that are down, and its  *)
(* locks the person's, as soon as it has read all bytes.                    *)
(***************************************************************************)
THEOREM ShiftCorrect == Spec => []ShiftFollowsKeys
<1>1. IInv => ShiftFollowsKeys
  BY AllRead DEF ShiftFollowsKeys, Expected, Mods
<1> QED
  BY <1>1, Invariant, PTL

\* The characters that were returned and those that wait.
LEMMA CollectedText ==
  ASSUME Typed, NEW n \in 0..Len(meant), Collected(n)
  PROVE  /\ Len(got \o Pending) = n
         /\ got \o Pending \in Seq(Symbols)
         /\ \A j \in 1..n : (got \o Pending)[j] = meant[j]
<1>1. Waiting \in 0..BufSize-1 /\ BufSize \in Nat
  BY RingShape, KeyboardAssumption
<1>2. got \in Seq(Symbols) /\ Len(got) \in Nat /\ ring \in [0..BufSize-1 -> Symbols]
  BY DEF Typed
<1>3. Pending = [j \in 1..Waiting |-> ring[Slot(j)]]
  BY DEF Pending, Waiting, Slot
<1>4. \A j \in 1..Waiting : Slot(j) \in 0..BufSize-1
  <2> TAKE j \in 1..Waiting
  <2>1. j \in 1..BufSize
    BY <1>1
  <2>2. readPos \in 0..BufSize-1
    BY DEF Typed
  <2>3. Slot(j) = IF readPos + j - 1 < BufSize THEN readPos + j - 1 ELSE readPos + j - 1 - BufSize
    BY <2>1, RingShape
  <2> HIDE DEF Slot
  <2> QED
    BY <1>1, <2>1, <2>2, <2>3
<1>5. Pending \in Seq(Symbols) /\ Len(Pending) = Waiting /\ \A j \in 1..Waiting : Pending[j] = ring[Slot(j)]
  BY <1>1, <1>2, <1>3, <1>4
<1>6. /\ n = Len(got) + Waiting
      /\ \A j \in 1..Len(got) : meant[j] = got[j]
      /\ \A j \in 1..Waiting : meant[Len(got) + j] = ring[Slot(j)]
  BY DEF Collected
<1>7. Len(got \o Pending) = n /\ got \o Pending \in Seq(Symbols)
  BY <1>1, <1>2, <1>5, <1>6
<1>8. ASSUME NEW j \in 1..n
      PROVE  (got \o Pending)[j] = meant[j]
  <2>1. CASE j <= Len(got)
    BY <1>1, <1>2, <1>5, <1>6, <2>1
  <2>2. CASE j > Len(got)
    <3>1. (got \o Pending)[j] = Pending[j - Len(got)] /\ j - Len(got) \in 1..Waiting /\ Len(got) + (j - Len(got)) = j
      BY <1>1, <1>2, <1>5, <1>6, <2>2
    <3> QED
      BY <1>5, <1>6, <3>1
  <2>3. j \in Nat
    BY DEF Typed
  <2>4. j <= Len(got) \/ j > Len(got)
    BY <1>2, <2>3
  <2> QED
    BY <2>1, <2>2, <2>4
<1> QED
  BY <1>7, <1>8

(***************************************************************************)
(* getChar returns the characters that the pressed keys stand for, once     *)
(* and in order, and none is missing when all bytes are read, as long as    *)
(* the ring never fills up.                                                 *)
(***************************************************************************)
THEOREM TypedCorrect == Spec => []TypedAsMeant
<1>1. ASSUME IInv, ~over
      PROVE  IsPrefix(got \o Pending, meant) /\ (Quiet => got \o Pending = meant)
  <2>1. Typed
    BY <1>1 DEF IInv
  <2>2. PICK n : n \in 0..Len(meant) /\ Collected(n)
    BY <1>1 DEF IInv, Decodes
  <2>3. meant \in Seq(Symbols) /\ Len(meant) \in Nat
    BY <2>1 DEF Typed
  <2>4. IsPrefix(got \o Pending, meant)
    <3> DEFINE t == got \o Pending
    <3>1. Len(t) = n /\ t \in Seq(Symbols) /\ \A j \in 1..n : t[j] = meant[j]
      BY <2>1, <2>2, CollectedText
    <3> HIDE DEF t
    <3>2. SubSeq(meant, 1, n) = t /\ SubSeq(t, 1, n) = t
      BY <2>2, <2>3, <3>1
    <3>3. Len(t) <= Len(meant)
      BY <2>2, <2>3, <3>1
    <3>4. IsPrefix(t, meant)
      BY <3>1, <3>2, <3>3 DEF IsPrefix
    <3> QED
      BY <3>4 DEF t
  <2>5. ASSUME Quiet PROVE got \o Pending = meant
    <3> DEFINE t == got \o Pending
    <3>1. Collected(Len(meant)) /\ Len(meant) \in 0..Len(meant)
      BY <1>1, <2>3, <2>5, AllRead
    <3>2. Len(t) = Len(meant) /\ t \in Seq(Symbols) /\ \A j \in 1..Len(meant) : t[j] = meant[j]
      BY <2>1, <3>1, CollectedText
    <3> HIDE DEF t
    <3>3. t = meant
      BY <2>3, <3>2
    <3> QED
      BY <3>3 DEF t
  <2> QED
    BY <2>4, <2>5
<1>2. IInv => TypedAsMeant
  BY <1>1 DEF TypedAsMeant
<1> QED
  BY <1>2, Invariant, PTL
=============================================================================
