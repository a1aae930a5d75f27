----------------------------- MODULE TotpProofs -----------------------------
(***************************************************************************)
(* Theorems about Totp.  The bits of the buffer that were not yet given    *)
(* out are its lowest bitsLeft; what the shift loses lies above them.      *)
(***************************************************************************)
EXTENDS Totp, TLAPS

(* unsigned int has 16 bits or more.                                        *)
WordSize == \E m \in Nat \ {0} : UInt = 65536 * m

LEMMA WordIs == ASSUME WordSize PROVE UInt \in Nat /\ UInt > 0
  BY DEF WordSize

LEMMA Division ==
    ASSUME NEW a \in Nat, NEW d \in Nat, d > 0
    PROVE  a % d \in 0..(d - 1) /\ a \div d \in Nat /\ a = d * (a \div d) + (a % d)
  OBVIOUS

(* The next letter takes the room the shift makes.                          *)
LEMMA Room ==
    ASSUME NEW b \in Nat, NEW r \in Nat, NEW n \in Nat, NEW value \in 0..31, NEW m \in Nat,
           b * 32 = 65536 * n + r, r < 65536 * m
    PROVE  r + value < 65536 * m
  BY SMT

LEMMA Times ==
    ASSUME NEW m \in Nat, NEW q \in Nat
    PROVE  (65536 * m) * q = 65536 * (m * q) /\ m * q \in Nat
  BY SMT

(* The next letter beside the bits that are left                            *)
LEMMA ShiftedIs ==
    ASSUME WordSize, buffer \in 0..(UInt - 1), NEW value \in Letters
    PROVE  /\ Shifted(value) \in 0..(UInt - 1)
           /\ Shifted(value) \in Nat
           /\ \A d \in {1, 2, 4, 8, 16, 32, 64, 128} :
                 Shifted(value) % (32 * d) = 32 * (buffer % d) + value
  <1> DEFINE r == (buffer * 32) % UInt
             q == (buffer * 32) \div UInt
  <1>1. PICK m \in Nat \ {0} : UInt = 65536 * m
    BY DEF WordSize
  <1>2. buffer \in Nat /\ buffer * 32 \in Nat /\ value \in 0..31
    BY WordIs DEF Letters
  <1>3. r \in 0..(UInt - 1) /\ q \in Nat /\ buffer * 32 = UInt * q + r
    BY <1>2, WordIs, Division
  <1>4. r \in Nat /\ r < 65536 * m
    BY <1>1, <1>3, WordIs
  <1>5. UInt * q = 65536 * (m * q) /\ m * q \in Nat
    BY <1>1, <1>3, Times
  <1>6. buffer * 32 = 65536 * (m * q) + r
    BY <1>3, <1>5
  <1>7. Shifted(value) = r + value
    BY DEF Shifted
  <1>8. r + value < UInt
    <2> HIDE DEF r, q
    <2>1. r + value < 65536 * m
      BY <1>2, <1>4, <1>5, <1>6, Room
    <2> QED  BY <2>1, <1>1
  <1>9. Shifted(value) \in 0..(UInt - 1) /\ Shifted(value) \in Nat
    <2> HIDE DEF r, q
    <2> QED  BY <1>2, <1>4, <1>7, <1>8, WordIs
  <1>10. ASSUME NEW d \in {1, 2, 4, 8, 16, 32, 64, 128}
         PROVE  Shifted(value) % (32 * d) = 32 * (buffer % d) + value
    <2> DEFINE lost == m * q
    <2> HIDE DEF r, q
    <2>1. lost \in Nat /\ buffer * 32 = 65536 * lost + r
      BY <1>5, <1>6
    <2> HIDE DEF lost
    <2>2. (r + value) % (32 * d) = 32 * (buffer % d) + value
      <3>1. CASE d = 1  BY <1>2, <1>4, <2>1, <3>1, SMT
      <3>2. CASE d = 2  BY <1>2, <1>4, <2>1, <3>2, SMT
      <3>3. CASE d = 4  BY <1>2, <1>4, <2>1, <3>3, SMT
      <3>4. CASE d = 8  BY <1>2, <1>4, <2>1, <3>4, SMT
      <3>5. CASE d = 16  BY <1>2, <1>4, <2>1, <3>5, SMT
      <3>6. CASE d = 32  BY <1>2, <1>4, <2>1, <3>6, SMT
      <3>7. CASE d = 64  BY <1>2, <1>4, <2>1, <3>7, SMT
      <3>8. CASE d = 128  BY <1>2, <1>4, <2>1, <3>8, SMT
      <3> QED  BY <3>1, <3>2, <3>3, <3>4, <3>5, <3>6, <3>7, <3>8
    <2> QED  BY <1>7, <2>2, Zenon
  <1> QED  BY <1>9, <1>10, Zenon

(* What the table of powers says of the shifts by 3 and by 5                *)
LEMMA Powers ==
    ASSUME NEW left \in 0..7
    PROVE  /\ PowerOfTwo[left] \in {1, 2, 4, 8, 16, 32, 64, 128}
           /\ left <= 2 => PowerOfTwo[left] \in {1, 2, 4}
           /\ left <= 2 => PowerOfTwo[left + 5] = 32 * PowerOfTwo[left]
           /\ left >= 3 => PowerOfTwo[left - 3] \in {1, 2, 4, 8, 16}
           /\ left >= 3 => PowerOfTwo[left] = 8 * PowerOfTwo[left - 3]
  <1>1. /\ PowerOfTwo[0] = 1 /\ PowerOfTwo[1] = 2 /\ PowerOfTwo[2] = 4 /\ PowerOfTwo[3] = 8
        /\ PowerOfTwo[4] = 16 /\ PowerOfTwo[5] = 32 /\ PowerOfTwo[6] = 64
        /\ PowerOfTwo[7] = 128
    BY DEF PowerOfTwo
  <1>2. left = 0 \/ left = 1 \/ left = 2 \/ left = 3
        \/ left = 4 \/ left = 5 \/ left = 6 \/ left = 7
    OBVIOUS
  <1> QED  BY <1>1, <1>2

(* A letter that fills a byte: the bits not yet given out are the byte and  *)
(* those below it.                                                          *)
LEMMA EmitBits ==
    ASSUME NEW s \in Nat, NEW d \in {1, 2, 4, 8, 16}
    PROVE  s % (32 * (8 * d)) = ((s \div d) % 256) * d + (s % d)
  <1>1. CASE d = 1  BY <1>1, SMT
  <1>2. CASE d = 2  BY <1>2, SMT
  <1>3. CASE d = 4  BY <1>3, SMT
  <1>4. CASE d = 8  BY <1>4, SMT
  <1>5. CASE d = 16  BY <1>5, SMT
  <1> QED  BY <1>1, <1>2, <1>3, <1>4, <1>5

(* Letters of five bits and bytes of eight                                  *)
LEMMA CountKept ==
    ASSUME NEW n \in Nat, NEW left \in 0..7, NEW m \in Nat, 5 * m = 8 * n + left
    PROVE  5 * (m + 1) = 8 * n + (left + 5)
  BY SMT

LEMMA CountEmitted ==
    ASSUME NEW n \in Nat, NEW left \in 0..7, NEW m \in Nat, 5 * m = 8 * n + left
    PROVE  5 * (m + 1) = 8 * (n + 1) + (left - 3)
  BY SMT

LEMMA CountWhole ==
    ASSUME NEW n \in Nat, NEW left \in 0..7, NEW m \in Nat, 5 * m = 8 * n + left, m = 32
    PROVE  n = 20 /\ left = 0
  BY SMT

KeyInv == TypeOK /\ KeyIsSecret

LEMMA Naturals ==
    ASSUME TypeOK, WordSize
    PROVE  /\ buffer \in Nat /\ key \in Nat /\ spelled \in Nat /\ letters \in Nat
           /\ Len(result) \in Nat
  <1>1. buffer \in Nat /\ key \in Nat /\ spelled \in Nat /\ letters \in Nat
    BY WordIs DEF TypeOK
  <1>2. Len(result) \in Nat
    BY DEF TypeOK
  <1> QED  BY <1>1, <1>2

LEMMA KeyInit == ASSUME WordSize, Init PROVE KeyInv
  <1>1. TypeOK
    BY WordIs DEF Init, TypeOK
  <1>2. PowerOfTwo[0] = 1
    BY DEF PowerOfTwo
  <1>3. KeyIsSecret
    BY <1>2 DEF Init, KeyIsSecret
  <1> QED  BY <1>1, <1>3 DEF KeyInv

LEMMA KeepKey ==
    ASSUME WordSize, KeyInv, NEW value \in Letters, Read(value), Keep(value)
    PROVE  KeyInv'
  <1>1. /\ bitsLeft \in 0..2 /\ bitsLeft' = bitsLeft + 5 /\ result' = result /\ key' = key
        /\ buffer' = Shifted(value) /\ letters' = letters + 1 /\ spelled' = spelled * 32 + value
    BY DEF KeyInv, TypeOK, Keep, Read
  <1>2. /\ buffer \in Nat /\ key \in Nat /\ spelled \in Nat /\ letters \in Nat
        /\ Len(result) \in Nat
    BY Naturals DEF KeyInv
  <1>3. buffer \in 0..(UInt - 1)
    BY DEF KeyInv, TypeOK
  <1>4. TypeOK'
    <2>1. buffer' \in 0..(UInt - 1)
      BY <1>1, <1>3, ShiftedIs
    <2>2. bitsLeft' \in 0..7 /\ key' \in Nat /\ spelled' \in Nat /\ letters' \in Nat
      BY <1>1, <1>2 DEF Letters
    <2>3. rest' \in Seq(Letters \cup {Other}) /\ result' \in Seq(Byte)
      BY <1>1 DEF Read, KeyInv, TypeOK
    <2> QED  BY <2>1, <2>2, <2>3 DEF TypeOK
  <1>5. 5 * letters' = 8 * Len(result') + bitsLeft'
    <2>1. 5 * letters = 8 * Len(result) + bitsLeft /\ bitsLeft \in 0..7
      BY DEF KeyInv, TypeOK, KeyIsSecret
    <2>2. 5 * (letters + 1) = 8 * Len(result) + (bitsLeft + 5)
      BY <1>2, <2>1, CountKept, Zenon
    <2> QED  BY <1>1, <2>2, Zenon
  <1>6. spelled' = key' * PowerOfTwo[bitsLeft'] + (buffer' % PowerOfTwo[bitsLeft'])
    <2> DEFINE d == PowerOfTwo[bitsLeft]
    <2>1. d \in {1, 2, 4} /\ PowerOfTwo[bitsLeft'] = 32 * d
      BY <1>1, Powers
    <2>2. spelled = key * d + (buffer % d)
      BY DEF KeyInv, KeyIsSecret
    <2> HIDE DEF d
    <2>3. Shifted(value) % (32 * d) = 32 * (buffer % d) + value /\ Shifted(value) \in Nat
      BY <1>3, <2>1, ShiftedIs
    <2>4. value \in 0..31
      BY DEF Letters
    <2> DEFINE old == buffer % d
               low == Shifted(value) % (32 * d)
    <2>5. old \in Nat /\ d \in Nat
      BY <1>2, <2>1
    <2>6. low = 32 * old + value /\ spelled = key * d + old
      BY <2>2, <2>3
    <2>7. spelled * 32 + value = key * (32 * d) + low
      <3> HIDE DEF old, low
      <3> QED  BY <1>2, <2>4, <2>5, <2>6, SMT
    <2> QED  BY <1>1, <2>1, <2>7, Zenon
  <1> QED  BY <1>4, <1>5, <1>6 DEF KeyInv, KeyIsSecret

LEMMA EmitKey ==
    ASSUME WordSize, KeyInv, NEW value \in Letters, Read(value), Emit(value)
    PROVE  KeyInv'
  <1> DEFINE byte == (Shifted(value) \div PowerOfTwo[bitsLeft - 3]) % 256
  <1>1. /\ bitsLeft \in 3..7 /\ bitsLeft' = bitsLeft - 3
        /\ result' = Append(result, byte) /\ key' = key * 256 + byte
        /\ buffer' = Shifted(value) /\ letters' = letters + 1 /\ spelled' = spelled * 32 + value
    BY DEF KeyInv, TypeOK, Emit, Read
  <1>2. /\ buffer \in Nat /\ key \in Nat /\ spelled \in Nat /\ letters \in Nat
        /\ Len(result) \in Nat
    BY Naturals DEF KeyInv
  <1>3. buffer \in 0..(UInt - 1)
    BY DEF KeyInv, TypeOK
  <1>4. byte \in Byte
    <2>1. Shifted(value) \in Nat
      BY <1>3, ShiftedIs
    <2>2. PowerOfTwo[bitsLeft - 3] \in {1, 2, 4, 8, 16}
      BY <1>1, Powers
    <2>3. PowerOfTwo[bitsLeft - 3] \in Nat /\ PowerOfTwo[bitsLeft - 3] > 0
      BY <2>2
    <2> DEFINE bits == Shifted(value) \div PowerOfTwo[bitsLeft - 3]
    <2>4. bits \in Nat
      BY <2>1, <2>3, Division, Zenon
    <2>5. byte = bits % 256
      OBVIOUS
    <2> HIDE DEF byte, bits
    <2> QED  BY <2>4, <2>5 DEF Byte
  <1>5. TypeOK' /\ Len(result') = Len(result) + 1
    <2> HIDE DEF byte
    <2>1. buffer' \in 0..(UInt - 1)
      BY <1>1, <1>3, ShiftedIs
    <2>2. bitsLeft' \in 0..7 /\ key' \in Nat /\ spelled' \in Nat /\ letters' \in Nat
      BY <1>1, <1>2, <1>4 DEF Letters, Byte
    <2>3. rest' \in Seq(Letters \cup {Other})
      BY DEF Read, KeyInv, TypeOK
    <2>4. result' \in Seq(Byte) /\ Len(result') = Len(result) + 1
      <3>1. result \in Seq(Byte)
        BY DEF KeyInv, TypeOK
      <3> QED  BY <1>1, <1>4, <3>1
    <2> QED  BY <2>1, <2>2, <2>3, <2>4 DEF TypeOK
  <1>6. 5 * letters' = 8 * Len(result') + bitsLeft'
    <2>1. 5 * letters = 8 * Len(result) + bitsLeft /\ bitsLeft \in 0..7
      BY DEF KeyInv, TypeOK, KeyIsSecret
    <2>2. 5 * (letters + 1) = 8 * (Len(result) + 1) + (bitsLeft - 3)
      BY <1>2, <2>1, CountEmitted, Zenon
    <2> QED  BY <1>1, <1>5, <2>2, Zenon
  <1>7. spelled' = key' * PowerOfTwo[bitsLeft'] + (buffer' % PowerOfTwo[bitsLeft'])
    <2> DEFINE d == PowerOfTwo[bitsLeft - 3]
    <2>1. d \in {1, 2, 4, 8, 16} /\ PowerOfTwo[bitsLeft] = 8 * d /\ bitsLeft' = bitsLeft - 3
      BY <1>1, Powers
    <2>2. spelled = key * (8 * d) + (buffer % (8 * d))
      BY <2>1 DEF KeyInv, KeyIsSecret
    <2>3. byte = (Shifted(value) \div d) % 256 /\ PowerOfTwo[bitsLeft'] = d
      BY <2>1
    <2> HIDE DEF d, byte
    <2>4. 8 * d \in {1, 2, 4, 8, 16, 32, 64, 128}
      BY <2>1
    <2>5. Shifted(value) % (32 * (8 * d)) = 32 * (buffer % (8 * d)) + value
          /\ Shifted(value) \in Nat
      BY <1>3, <2>4, ShiftedIs, Zenon
    <2>6. value \in 0..31
      BY DEF Letters
    <2> DEFINE old == buffer % (8 * d)
               new == 32 * old + value
               low == Shifted(value) % d
    <2>7. old \in Nat /\ new \in Nat /\ low \in Nat /\ d \in Nat
      BY <1>2, <2>1, <2>4, <2>5, <2>6
    <2>8. new = 32 * old + value /\ spelled = key * (8 * d) + old
      BY <2>2
    <2>9. new = byte * d + low
      <3> HIDE DEF new, low
      <3>1. Shifted(value) % (32 * (8 * d)) = new
        BY <2>5 DEF new
      <3>2. Shifted(value) % (32 * (8 * d)) = ((Shifted(value) \div d) % 256) * d
                                            + (Shifted(value) % d)
        BY <2>1, <2>5, EmitBits, Zenon
      <3> QED  BY <2>3, <3>1, <3>2, Zenon DEF low
    <2>10. spelled * 32 + value = (key * 256 + byte) * d + low
      <3> HIDE DEF old, new, low
      <3>1. byte \in Nat
        BY <1>4 DEF Byte
      <3> QED  BY <1>2, <2>6, <2>7, <2>8, <2>9, <3>1, SMT
    <2> QED  BY <1>1, <2>3, <2>10, Zenon
  <1> QED  BY <1>5, <1>6, <1>7 DEF KeyInv, KeyIsSecret

LEMMA KeyNext == ASSUME WordSize, KeyInv, [Next]_vars PROVE KeyInv'
  <1>1. CASE Skip
    BY <1>1 DEF Skip, KeyInv, TypeOK, KeyIsSecret
  <1>2. CASE UNCHANGED vars
    BY <1>2 DEF vars, KeyInv, TypeOK, KeyIsSecret
  <1>3. CASE \E value \in Letters : Read(value)
    BY <1>3, KeepKey, EmitKey DEF Read
  <1> QED  BY <1>1, <1>2, <1>3 DEF Next

(* The key of an account is its secret, bit by bit, for secrets of any      *)
(* length: what the unsigned buffer loses on its left was given out.        *)
THEOREM KeyIsTheSecret == ASSUME WordSize PROVE Spec => [](TypeOK /\ KeyIsSecret)
  <1>1. Init => KeyInv
    BY KeyInit
  <1>2. KeyInv /\ [Next]_vars => KeyInv'
    BY KeyNext
  <1>3. KeyInv => TypeOK /\ KeyIsSecret
    BY DEF KeyInv
  <1> QED  BY <1>1, <1>2, <1>3, PTL DEF Spec

(* The 32 letters that generateSecret makes are a key of exactly 20 bytes:  *)
(* no bit of a generated secret is left out of it.                          *)
THEOREM GeneratedSecretIsWhole ==
    ASSUME WordSize PROVE Spec => [](letters = 32 => Len(result) = 20 /\ bitsLeft = 0)
  <1>1. ASSUME TypeOK, KeyIsSecret, letters = 32
        PROVE  Len(result) = 20 /\ bitsLeft = 0
    <2>1. Len(result) \in Nat /\ bitsLeft \in 0..7
      BY <1>1, Naturals DEF TypeOK
    <2>2. 5 * letters = 8 * Len(result) + bitsLeft /\ letters \in Nat
      BY <1>1 DEF KeyIsSecret, TypeOK
    <2> QED  BY <1>1, <2>1, <2>2, CountWhole, Zenon
  <1>2. TypeOK /\ KeyIsSecret => (letters = 32 => Len(result) = 20 /\ bitsLeft = 0)
    BY <1>1
  <1> QED  BY <1>2, KeyIsTheSecret, PTL

(* The code that was shown up to 30 seconds ago, or will be in up to 30, is *)
(* accepted: a clock or a typist may be that late.                          *)
THEOREM CodeIsAccepted ==
    ASSUME NEW keyBytes, NEW now \in Nat, NEW t \in Nat, now - t <= 30, t - now <= 30
    PROVE  validateCode(keyBytes, CodeOf(keyBytes, getCurrentTimeStep(t)), now)
  <1>1. getCurrentTimeStep(t) - getCurrentTimeStep(now) \in -1..1
    BY DEF getCurrentTimeStep
  <1>2. getCurrentTimeStep(now) \in Int /\ getCurrentTimeStep(t) \in Int
    BY DEF getCurrentTimeStep
  <1>3. PICK i \in -1..1 : getCurrentTimeStep(now) + i = getCurrentTimeStep(t)
    BY <1>1, <1>2
  <1> QED  BY <1>3 DEF validateCode

(* Whatever is accepted is the code of some moment less than 60 seconds     *)
(* away.                                                                    *)
THEOREM OldCodeIsRefused ==
    ASSUME NEW keyBytes, NEW code, NEW now \in Nat, validateCode(keyBytes, code, now)
    PROVE  \E t \in Int : /\ t - now < 60 /\ now - t < 60
                          /\ code = CodeOf(keyBytes, getCurrentTimeStep(t))
  <1>1. PICK i \in -1..1 : CodeOf(keyBytes, getCurrentTimeStep(now) + i) = code
    BY DEF validateCode
  <1>2. getCurrentTimeStep(now + 30 * i) = getCurrentTimeStep(now) + i
    BY DEF getCurrentTimeStep
  <1> QED  BY <1>1, <1>2
=============================================================================
