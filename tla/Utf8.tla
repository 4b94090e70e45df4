-------------------------------- MODULE Utf8 --------------------------------
(***************************************************************************)
(* LogCollector::SanitizeUtf8: a text is a sequence of bytes, and every byte  *)
(* that does not begin a valid UTF-8 character is replaced by U+FFFD.  The    *)
(* masks and shifts of the code are divisions and remainders.               *)
(*                                                                         *)
(* WellFormed and Repaired are the reference: the Unicode Standard's table of *)
(* well-formed byte sequences instead of the code's arithmetic.             *)
(***************************************************************************)
EXTENDS Integers, Sequences

Byte == 0..255

Replacement == <<239, 191, 189>>    \* U+FFFD

\* The number of bytes the first byte announces, 0 when it cannot be a first one.
Announced(first) ==
    CASE first \div 32 = 6  -> 2
      [] first \div 16 = 14 -> 3
      [] first \div 8 = 30  -> 4
      [] OTHER              -> 0

\* By length: the least code point, and the range of the first byte's own bits.
Minimum(length) == <<0, 128, 2048, 65536>>[length]

LeadBits(first, length) == first % (<<128, 32, 16, 8>>[length])

\* The code point of the `length' bytes from i on.
CodePoint(text, i, length) ==
    LET value[k \in 0..(length - 1)] ==
            IF k = 0 THEN LeadBits(text[i], length)
            ELSE value[k - 1] * 64 + (text[i + k] % 64)
    IN value[length - 1]

ValidAt_AcceptingSurrogates(text, i, length) ==
    /\ length > 0 /\ i + length - 1 <= Len(text)
    /\ \A k \in 1..(length - 1) : text[i + k] \div 64 = 2
    /\ CodePoint(text, i, length) >= Minimum(length)
    /\ CodePoint(text, i, length) <= 1114111

ValidAt(text, i, length) ==
    /\ length > 0 /\ i + length - 1 <= Len(text)
    /\ \A k \in 1..(length - 1) : text[i + k] \div 64 = 2
    /\ CodePoint(text, i, length) >= Minimum(length)
    /\ CodePoint(text, i, length) <= 1114111            \* 0x10FFFF
    /\ CodePoint(text, i, length) \notin 55296..57343   \* 0xD800..0xDFFF

SanitizeUtf8(text) ==
    LET from[i \in 1..(Len(text) + 1)] ==
            IF i > Len(text) THEN <<>>
            ELSE LET n == Announced(text[i])
                 IN CASE text[i] < 128       -> <<text[i]>> \o from[i + 1]
                      [] ValidAt(text, i, n) -> SubSeq(text, i, i + n - 1) \o from[i + n]
                      [] OTHER               -> Replacement \o from[i + 1]
    IN from[1]

-----------------------------------------------------------------------------
Follows(s, low, high) ==
    s[2] \in low..high /\ \A k \in 3..Len(s) : s[k] \in 128..191

(* Table 3-7 of the Unicode Standard.                                       *)
WellFormed(s) ==
    \/ Len(s) = 1 /\ s[1] \in 0..127
    \/ Len(s) = 2 /\ s[1] \in 194..223 /\ Follows(s, 128, 191)
    \/ Len(s) = 3 /\ \/ s[1] = 224 /\ Follows(s, 160, 191)
                     \/ s[1] \in (225..236) \cup {238, 239} /\ Follows(s, 128, 191)
                     \/ s[1] = 237 /\ Follows(s, 128, 159)
    \/ Len(s) = 4 /\ \/ s[1] = 240 /\ Follows(s, 144, 191)
                     \/ s[1] \in 241..243 /\ Follows(s, 128, 191)
                     \/ s[1] = 244 /\ Follows(s, 128, 143)

\* The ways to begin with a character; well-formed characters are prefix-free.
Characters(s) == {n \in 1..4 : n <= Len(s) /\ WellFormed(SubSeq(s, 1, n))}

Repaired(text) ==
    LET rest(i) == SubSeq(text, i, Len(text))
        from[i \in 1..(Len(text) + 1)] ==
            IF i > Len(text) THEN <<>>
            ELSE IF Characters(rest(i)) = {} THEN Replacement \o from[i + 1]
            ELSE LET n == CHOOSE n \in Characters(rest(i)) : TRUE
                 IN SubSeq(text, i, i + n - 1) \o from[i + n]
    IN from[1]

=============================================================================
