-------------------------------- MODULE Totp --------------------------------
(***************************************************************************)
(* TotpUtils: how the secret of an account becomes the key of its codes,   *)
(* character by character in an unsigned buffer that is never cleared, and *)
(* which codes are accepted at which time.  The code of a key for a step   *)
(* of time (HMAC-SHA1, truncated to six digits) is not interpreted.        *)
(***************************************************************************)
EXTENDS Integers, Sequences

CONSTANTS
    Other,              \* a character outside the alphabet of base32
    UInt,               \* 2 to the number of bits of unsigned int
    CodeOf(_, _)        \* the code of a key for a step

VARIABLES
    rest,               \* the characters not yet read; a letter is its value
    buffer, bitsLeft,
    result,             \* the bytes of the key
    letters,            \* how many letters were read
    spelled,            \* the number the letters spell to the base 32
    key                 \* the number the bytes of result spell to the base 256

vars == <<rest, buffer, bitsLeft, result, letters, spelled, key>>

Letters == 0..31
Byte == 0..255
PowerOfTwo == [k \in 0..7 |-> <<1, 2, 4, 8, 16, 32, 64, 128>>[k + 1]]

Init ==
    /\ rest \in Seq(Letters \cup {Other})
    /\ buffer = 0
    /\ bitsLeft = 0
    /\ result = <<>>
    /\ letters = 0
    /\ spelled = 0
    /\ key = 0

TypeOK ==
    /\ rest \in Seq(Letters \cup {Other})
    /\ buffer \in 0..(UInt - 1)
    /\ bitsLeft \in 0..7
    /\ result \in Seq(Byte)
    /\ letters \in Nat
    /\ spelled \in Nat
    /\ key \in Nat

(* buffer << 5 | value, the five lowest bits of the shifted buffer being 0  *)
Shifted(value) == ((buffer * 32) % UInt) + value

Skip ==
    /\ rest # <<>>
    /\ Head(rest) = Other
    /\ rest' = Tail(rest)
    /\ UNCHANGED <<buffer, bitsLeft, result, letters, spelled, key>>

Keep(value) ==
    /\ bitsLeft + 5 < 8
    /\ bitsLeft' = bitsLeft + 5
    /\ UNCHANGED <<result, key>>

Emit(value) ==
    /\ bitsLeft + 5 >= 8
    /\ bitsLeft' = bitsLeft - 3
    /\ LET byte == (Shifted(value) \div PowerOfTwo[bitsLeft - 3]) % 256
       IN  /\ result' = Append(result, byte)
           /\ key' = key * 256 + byte

Read(value) ==
    /\ rest # <<>>
    /\ Head(rest) = value
    /\ rest' = Tail(rest)
    /\ buffer' = Shifted(value)
    /\ letters' = letters + 1
    /\ spelled' = spelled * 32 + value
    /\ Keep(value) \/ Emit(value)

Next == Skip \/ \E value \in Letters : Read(value)

Spec == Init /\ [][Next]_vars

(* The bytes of the key are the bits of the letters, all of them but the    *)
(* up to seven that make no byte, however long the secret is and whatever   *)
(* the buffer has lost on its left (totp_utils.cpp base32Decode).           *)
KeyIsSecret ==
    /\ 5 * letters = 8 * Len(result) + bitsLeft
    /\ spelled = key * PowerOfTwo[bitsLeft] + (buffer % PowerOfTwo[bitsLeft])

-----------------------------------------------------------------------------
(* Time *)

getCurrentTimeStep(now) == now \div 30

(* A secret that is empty or a code that has not six digits is refused      *)
(* before: the codes here are those of steps.                               *)
validateCode(keyBytes, code, now) ==
    \E i \in -1..1 : CodeOf(keyBytes, getCurrentTimeStep(now) + i) = code
=============================================================================
