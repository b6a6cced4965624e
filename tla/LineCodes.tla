------------------------------- MODULE LineCodes -------------------------------
(* Words on a line: the four ways of LAB3/25 to put two strings of bits on one   *)
(* line, and the frames of LAB2 for characters (of CharBits bits, seven in the   *)
(* code).  A word is coded, a symbol of it may be damaged, and it is decoded     *)
(* with whatever lengths the receiver expects.  A voltage is one of a few numbers *)
(* on both sides of zero, zero included.                                        *)
EXTENDS Integers, Sequences, SequencesExt

CONSTANTS
    Scheme,         \* schemes in use, of those in Schemes
    CodeByte,       \* values of the bytes to be sent
    CodeLength,     \* bound of the length of a string
    CharBits,       \* 7
    LineSymbol,     \* what damage may turn a symbol into
    MaxDamage       \* bound of the symbols damaged

Schemes == {"tdm_async", "tdm_sync", "fdm", "cdm", "rs232"}

ASSUME CodeAssumption ==
    /\ Scheme \subseteq Schemes /\ CodeByte \subseteq Nat /\ LineSymbol \subseteq Int
    /\ CodeLength \in Nat /\ CharBits \in Nat \ {0}
    /\ MaxDamage \in Nat

VARIABLES
    codeScheme,
    codeInput,      \* the two strings; rs232 uses the first
    codeWord,       \* what is on the line, <<>> before
    codeDamaged,    \* number of symbols damaged
    codeOutput      \* set of what decoding returns: {} for -1

codeVars == <<codeScheme, codeInput, codeWord, codeDamaged, codeOutput>>

Strings(n) == UNION {[1 .. k -> CodeByte] : k \in 0 .. n}

CodeStart(scheme, input) ==
    /\ codeScheme = scheme
    /\ codeInput = input
    /\ codeWord = <<>>
    /\ codeDamaged = 0
    /\ codeOutput = {}

CodeInit ==
    \E scheme \in Scheme, a, b \in Strings(CodeLength) :
        /\ scheme = "rs232" => b = <<>>
        /\ CodeStart(scheme, <<a, b>>)

NormalizeBit(x) == IF x = 0 THEN 0 ELSE 1
Normalized(s) == [i \in DOMAIN s |-> NormalizeBit(s[i])]

\* What a scheme puts on the line for turn i of string s when the string is over.
Silent == 2
BitAt(s, i) == IF i \in DOMAIN s THEN NormalizeBit(s[i]) ELSE Silent

\* bitToChipValue, 0 for a string that is over.
Amplitude(x) == IF x = Silent THEN 0 ELSE 2 * x - 1

\* The symbols of one turn for bits x and y.
Slot(scheme, x, y) ==
    CASE scheme = "tdm_async" -> (IF x = Silent THEN <<>> ELSE <<x>>) \o
                                 (IF y = Silent THEN <<>> ELSE <<2 + y>>)
      [] scheme = "tdm_sync" -> <<x, y>>
      [] scheme = "fdm" -> <<(x % Silent) + 2 * (y % Silent)>>
      [] scheme = "cdm" -> <<Amplitude(x) + Amplitude(y) + 2,
                             Amplitude(x) - Amplitude(y) + 2>>

Rounds(m, n) == IF m > n THEN m ELSE n

\* multiplex of each namespace.
Multiplex(scheme, a, b) ==
    FlattenSeq([i \in 1 .. Rounds(Len(a), Len(b)) |->
                   Slot(scheme, BitAt(a, i), BitAt(b, i))])

\* A character shifted to the right by each number of bits.
Shifted(c) ==
    LET shifted[j \in 0 .. CharBits] == IF j = 0 THEN c ELSE shifted[j - 1] \div 2
    IN  shifted

\* rs232c_encode: idle, start, the bits of a character from the lowest on, stop.
kFrameWidth == CharBits + 3
Voltage(bit) == IF bit = 1 THEN -12 ELSE 12
FrameBit(c, j) ==
    IF j = 2 THEN 0 ELSE IF j \in {1, kFrameWidth} THEN 1 ELSE Shifted(c)[j - 3] % 2
Frame(c) == [j \in 1 .. kFrameWidth |-> Voltage(FrameBit(c, j))]
Encode(msg) == FlattenSeq([i \in DOMAIN msg |-> Frame(msg[i])])

\* A message with a character that has more bits is refused.
CodeSend ==
    /\ codeWord = <<>>
    /\ IF codeScheme = "rs232"
       THEN /\ \A i \in DOMAIN codeInput[1] : Shifted(codeInput[1][i])[CharBits] = 0
            /\ codeWord' = Encode(codeInput[1])
       ELSE codeWord' = Multiplex(codeScheme, codeInput[1], codeInput[2])
    /\ UNCHANGED <<codeScheme, codeInput, codeDamaged, codeOutput>>

CodeDamage(i, v) ==
    /\ codeDamaged < MaxDamage
    /\ codeScheme # "rs232" => v >= 0
    /\ v # codeWord[i]
    /\ codeWord' = [codeWord EXCEPT ![i] = v]
    /\ codeDamaged' = codeDamaged + 1
    /\ codeOutput' = {}
    /\ UNCHANGED <<codeScheme, codeInput>>

\* The sign of a correlation in cdm.
Sign(correlation) ==
    IF correlation = 0 THEN Silent ELSE IF correlation > 0 THEN 1 ELSE 0

\* The two bits in a slot from symbol x to symbol y (the same one in fdm), as a
\* set; {} where demultiplex returns -1.
SlotBits(scheme, x, y) ==
    CASE scheme = "tdm_sync" -> IF x <= 2 /\ y <= 2 THEN {<<x, y>>} ELSE {}
      [] scheme = "fdm" -> IF x <= 3 THEN {<<x % 2, (x \div 2) % 2>>} ELSE {}
      [] scheme = "cdm" ->
           LET sum == x + y - 4
               difference == x - y
           IN  IF /\ x <= 4 /\ y <= 4
                  /\ sum % 2 = 0 /\ sum \in -2 .. 2 /\ difference \in -2 .. 2
               THEN {<<Sign(sum), Sign(difference)>>} ELSE {}

\* May turn i hold x for a string of n bits?  fdm cannot tell silence from 0.
Mutant_Expected(scheme, n, i, x) == i <= n => x # Silent
Expected(scheme, n, i, x) ==
    IF i <= n THEN x # Silent ELSE x = (IF scheme = "fdm" THEN 0 ELSE Silent)

\* demultiplex of the three schemes with slots.
Width(scheme) == IF scheme = "fdm" THEN 1 ELSE 2
Turns(scheme, m, n, word) ==
    {p \in [1 .. Rounds(m, n) -> {0, 1, Silent} \X {0, 1, Silent}] :
        \A i \in DOMAIN p :
            /\ p[i] \in SlotBits(scheme, word[Width(scheme) * (i - 1) + 1],
                                         word[Width(scheme) * i])
            /\ Expected(scheme, m, i, p[i][1])
            /\ Expected(scheme, n, i, p[i][2])}
FromSlots(scheme, m, n, word) ==
    IF Len(word) # Width(scheme) * Rounds(m, n) THEN {}
    ELSE {<<[i \in 1 .. m |-> p[i][1]], [i \in 1 .. n |-> p[i][2]]>> :
            p \in Turns(scheme, m, n, word)}

\* The symbols of a word that tdm_async tags as bits of the first string, or of
\* the second.
Tagged(word, first) ==
    LET tagged[i \in 0 .. Len(word)] ==
            IF i = 0 THEN <<>>
            ELSE IF (word[i] < 2) = first THEN Append(tagged[i - 1], word[i])
            ELSE tagged[i - 1]
    IN  tagged[Len(word)]

FromTagged(m, n, word) ==
    LET first == Tagged(word, TRUE)
        second == Tagged(word, FALSE)
    IN  IF /\ Len(first) = m /\ Len(second) = n
           /\ \A i \in DOMAIN word : word[i] <= 3
        THEN {<<first, [i \in 1 .. n |-> second[i] - 2]>>} ELSE {}

\* rs232c_decode: voltageToBit for the symbols of frame i; the character with the
\* bits of a frame, which are put together from the highest on; frame by frame.
BitsOf(volts, i) ==
    [j \in 1 .. kFrameWidth |-> IF volts[kFrameWidth * (i - 1) + j] < 0 THEN 1 ELSE 0]
Character(bits) ==
    LET upper[j \in 0 .. CharBits] ==
            IF j = 0 THEN 0 ELSE 2 * upper[j - 1] + bits[kFrameWidth - j]
    IN  upper[CharBits]
WellFormed(bits) == bits[1] = 1 /\ bits[2] = 0 /\ bits[kFrameWidth] = 1
Decode(volts) ==
    LET count == Len(volts) \div kFrameWidth
    IN  IF /\ Len(volts) % kFrameWidth = 0
           /\ \A i \in 1 .. count : WellFormed(BitsOf(volts, i))
        THEN {<<[i \in 1 .. count |-> Character(BitsOf(volts, i))], <<>>>>} ELSE {}

Decoded(m, n) ==
    CASE codeScheme = "rs232" -> Decode(codeWord)
      [] codeScheme = "tdm_async" -> FromTagged(m, n, codeWord)
      [] OTHER -> FromSlots(codeScheme, m, n, codeWord)

CodeReceive(m, n) ==
    /\ codeWord # <<>>
    /\ codeOutput' = Decoded(m, n)
    /\ UNCHANGED <<codeScheme, codeInput, codeWord, codeDamaged>>

CodeNext ==
    \/ CodeSend
    \/ \E i \in DOMAIN codeWord, v \in LineSymbol : CodeDamage(i, v)
    \/ \E m, n \in 0 .. CodeLength : CodeReceive(m, n)

CodeSpec == CodeInit /\ [][CodeNext]_codeVars

-------------------------------------------------------------------------------
\* A word without damage is accepted by a receiver that knows the lengths, and
\* what is received is what was sent; and no damage is overlooked in the sense
\* that a word is only accepted if it is, up to the size of voltages, the word of
\* what is returned (in tdm_async up to the way the two strings are merged).  The
\* lengths have to be right: fdm takes zeros for the end of a string
\* (multiplex.cpp:33-367, rs232c.cpp:40-139).
WordSent ==
    <<IF codeScheme = "rs232" THEN codeInput[1] ELSE Normalized(codeInput[1]),
      Normalized(codeInput[2])>>
SameSigns(word, other) ==
    Len(word) = Len(other) /\ \A i \in DOMAIN word : word[i] < 0 <=> other[i] < 0

WordsAreExact ==
    /\ codeWord # <<>> /\ codeDamaged = 0 =>
          Decoded(Len(codeInput[1]), Len(codeInput[2])) = {WordSent}
    /\ \A out \in codeOutput :
          /\ codeDamaged = 0 /\ Len(out[1]) = Len(codeInput[1])
                             /\ Len(out[2]) = Len(codeInput[2])
                => out = WordSent
          /\ CASE codeScheme = "rs232" -> SameSigns(Encode(out[1]), codeWord)
               [] codeScheme = "tdm_async" ->
                    \A first \in BOOLEAN :
                        Tagged(Multiplex(codeScheme, out[1], out[2]), first) =
                        Tagged(codeWord, first)
               [] OTHER -> Multiplex(codeScheme, out[1], out[2]) = codeWord
================================================================================
