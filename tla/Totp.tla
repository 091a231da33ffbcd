---------------------------------- MODULE Totp ----------------------------------
(***************************************************************************)
(* One-time codes (src/common/utils/totp.ts).  The secret goes to the      *)
(* authenticator in base 32 and is decoded from it for every code; both    *)
(* conversions keep their bits in a 32-bit integer that nobody clears.     *)
(* verifyTotp reads the clock anew for each code it compares.              *)
(*                                                                         *)
(* A code stands for the time step it is computed for; that two steps have *)
(* the same six digits is left out.                                        *)
(***************************************************************************)
EXTENDS Integers, Sequences, SequencesExt

CONSTANTS
    Bytes,          \* values of a byte
    MaxLength,      \* of a secret (a bound; the program's have twenty)
    StepSeconds,    \* seconds of a time step (thirty)
    MaxClock,       \* seconds (a bound)
    Window,         \* windowSize
    NoCode

ASSUME TotpAssumption ==
    /\ Bytes \subseteq 0..255 /\ MaxLength \in Nat
    /\ StepSeconds \in Nat \ {0} /\ MaxClock \in Nat /\ Window \in Nat

VARIABLES
    secret,     \* the bytes of UserAuth.twoFactorSecret
    now,        \* the clock, in seconds
    login       \* a code that is being verified

totpVars == <<secret, now, login>>

-----------------------------------------------------------------------------
(* base32Encode, base32Decode *)

\* x << k of a signed integer of 32 bits.
ShiftLeft(x, k) ==
    LET kept == x % 2^(32 - k) IN
    (IF kept >= 2^(31 - k) THEN kept - 2^(32 - k) ELSE kept) * 2^k

\* (x >>> k) & (2^w - 1), for k + w <= 32.
Field(x, k, w) == (x \div 2^k) % 2^w

Empty == [out |-> <<>>, bits |-> 0, value |-> 0]

\* One letter or two for each byte.
EncodeByte(a, byte) ==
    LET value == ShiftLeft(a.value, 8) + byte
        bits == a.bits + 8
        letters == bits \div 5
    IN [out |-> a.out \o [n \in 1..letters |-> Field(value, bits - 5 * n, 5)],
        bits |-> bits - 5 * letters, value |-> value]

\* What it has after each byte.
Encoding(bytes) ==
    LET after[n \in 0..Len(bytes)] ==
            IF n = 0 THEN Empty ELSE EncodeByte(after[n - 1], bytes[n])
    IN after

Base32Encode(bytes) ==
    LET a == Encoding(bytes)[Len(bytes)] IN
    IF a.bits = 0 THEN a.out
    ELSE Append(a.out, Field(a.value, 0, a.bits) * 2^(5 - a.bits))

Letters == 0..31

\* Fault: a byte is taken when nine bits are there.
DecodeLetterLate(a, letter) ==
    LET value == ShiftLeft(a.value, 5) + letter
        bits == a.bits + 5
    IN IF letter \notin Letters THEN a
       ELSE IF bits <= 8 THEN [a EXCEPT !.bits = bits, !.value = value]
       ELSE [out |-> Append(a.out, Field(value, bits - 8, 8)), bits |-> bits - 8,
             value |-> value]

\* A letter is its value; white space, padding and any other character are
\* passed over.
DecodeLetter(a, letter) ==
    LET value == ShiftLeft(a.value, 5) + letter
        bits == a.bits + 5
    IN IF letter \notin Letters THEN a
       ELSE IF bits < 8 THEN [a EXCEPT !.bits = bits, !.value = value]
       ELSE [out |-> Append(a.out, Field(value, bits - 8, 8)), bits |-> bits - 8,
             value |-> value]

Decoding(letters) ==
    LET after[n \in 0..Len(letters)] ==
            IF n = 0 THEN Empty ELSE DecodeLetter(after[n - 1], letters[n])
    IN after

Base32Decode(letters) == Decoding(letters)[Len(letters)].out

-----------------------------------------------------------------------------
(* verifyTotp *)

StepAt(seconds) == seconds \div StepSeconds

TotpInit ==
    /\ secret \in SeqOf(Bytes, MaxLength)
    /\ now = 0
    /\ login = NoCode

\* The authenticator shows the code of a step, maybe by a clock of its own.
EnterCode(step) ==
    /\ login = NoCode
    /\ login' = [step |-> step, from |-> now, window |-> -Window, accepted |-> FALSE]
    /\ UNCHANGED <<secret, now>>

Verifying == login # NoCode /\ ~login.accepted /\ login.window <= Window

\* Fault: the last of the window is left out.
MatchesEarlier(step) == login.window < Window /\ step = StepAt(now) + login.window
Matches(step) == step = StepAt(now) + login.window

\* generateTotpToken, and the comparison.
CompareCode ==
    /\ Verifying
    /\ login' = IF Matches(login.step) THEN [login EXCEPT !.accepted = TRUE]
                ELSE [login EXCEPT !.window = @ + 1]
    /\ UNCHANGED <<secret, now>>

Conclude ==
    /\ login # NoCode /\ ~Verifying
    /\ login' = NoCode
    /\ UNCHANGED <<secret, now>>

Tick ==
    /\ now < MaxClock
    /\ now' = now + 1
    /\ UNCHANGED <<secret, login>>

TotpNext ==
    \/ \E step \in -1..(StepAt(MaxClock) + 1) : EnterCode(step)
    \/ CompareCode \/ Conclude \/ Tick

TotpSpec == TotpInit /\ [][TotpNext]_totpVars

-----------------------------------------------------------------------------
(* Properties *)

\* Every variable keeps its type.
TotpTypeOK ==
    /\ secret \in Seq(Bytes) /\ Len(secret) <= MaxLength
    /\ now \in 0..MaxClock
    /\ login # NoCode =>
           /\ login.step \in Int /\ login.from \in 0..now
           /\ login.window \in -Window..(Window + 1) /\ login.accepted \in BOOLEAN

\* The bits of a sequence of numbers of w bits, from the first.
Bit(numbers, w, n) == Field(numbers[(n \div w) + 1], w - 1 - (n % w), 1)

\* The letters hold the bits of the secret in their order, with zeros for the
\* rest of the last; and the server decodes from them the key that it showed to
\* the authenticator, though the accumulator overflowed on the way.
SecretSurvives ==
    LET letters == Base32Encode(secret)
        size == 8 * Len(secret)
    IN  /\ Len(letters) = (size + 4) \div 5
        /\ \A n \in 0..(5 * Len(letters) - 1) :
               Bit(letters, 5, n) = IF n < size THEN Bit(secret, 8, n) ELSE 0
        /\ Base32Decode(letters) = secret
        /\ Base32Decode(<<-1>> \o letters \o <<-1>>) = secret

\* A code is accepted if its step is within the window of some moment of its
\* verification, and only then, unless a step began in the course of it: then a
\* code may be missed that was never far from the clock.
CodesAreTimely ==
    login # NoCode =>
        LET near(t) == StepAt(t) - Window <= login.step /\ login.step <= StepAt(t) + Window IN
        /\ login.accepted => \E t \in login.from..now : near(t)
        /\ ~login.accepted /\ ~Verifying =>
               \/ StepAt(login.from) # StepAt(now)
               \/ ~near(now)
=================================================================================
