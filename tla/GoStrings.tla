------------------------------ MODULE GoStrings ------------------------------
(***************************************************************************)
(* The Go standard-library string operations the fingerprint codecs use,   *)
(* on TLA+ strings: fmt "%x" and "%0<w>x", strconv.Itoa, strconv.ParseUint *)
(* in base 10, strings.Join and strings.Split on one character.            *)
(***************************************************************************)
EXTENDS Integers, Sequences, SequencesExt

Ch(s, i) == SubSeq(s, i, i)
CharsOf(s) == {Ch(s, i) : i \in 1..Len(s)}

HexDigits == "0123456789abcdef"

\* fmt "%x" of a natural.
RECURSIVE Hex(_)
Hex(n) == IF n < 16 THEN Ch(HexDigits, n + 1)
          ELSE Hex(n \div 16) \o Ch(HexDigits, (n % 16) + 1)

\* fmt "%0<w>x": zero-padded to at least w digits, never truncated.
HexPad(n, w) == LET h == Hex(n) IN
                IF Len(h) >= w THEN h ELSE SubSeq("000000000000", 1, w - Len(h)) \o h

\* strings.Join, split in halves so that long slices recurse only log n deep.
RECURSIVE Join(_, _)
Join(strs, sep) ==
    CASE Len(strs) = 0 -> ""
      [] Len(strs) = 1 -> strs[1]
      [] OTHER -> LET m == Len(strs) \div 2
                  IN Join(SubSeq(strs, 1, m), sep) \o sep
                       \o Join(SubSeq(strs, m + 1, Len(strs)), sep)

\* strings.Split on a one-character separator: n separators give n+1 parts.
Split(s, sep) ==
    LET cuts == <<0>> \o SelectSeq([i \in 1..Len(s) |-> i], LAMBDA i : Ch(s, i) = sep)
                      \o <<Len(s) + 1>>
    IN [k \in 1..Len(cuts) - 1 |-> SubSeq(s, cuts[k] + 1, cuts[k + 1] - 1)]

DecimalDigits == "0123456789"

\* strconv.Itoa of a natural.
RECURSIVE Itoa(_)
Itoa(n) == IF n < 10 THEN Ch(DecimalDigits, n + 1)
           ELSE Itoa(n \div 10) \o Ch(DecimalDigits, (n % 10) + 1)

RECURSIVE DecimalValue(_)
DecimalValue(s) ==
    IF s = "" THEN 0
    ELSE 10 * DecimalValue(SubSeq(s, 1, Len(s) - 1))
         + (CHOOSE d \in 0..9 : Ch(DecimalDigits, d + 1) = Ch(s, Len(s)))

\* strconv.ParseUint(s, 10, bits): one or more decimal digits whose value
\* fits in bits bits; anything else (empty, a sign, a letter) is an error.
ParseUint(s, bits) ==
    IF s # "" /\ CharsOf(s) \subseteq CharsOf(DecimalDigits) /\ DecimalValue(s) < 2^bits
    THEN [ok |-> TRUE, value |-> DecimalValue(s)]
    ELSE [ok |-> FALSE]
Lower == "abcdefghijklmnopqrstuvwxyz"
Upper == "ABCDEFGHIJKLMNOPQRSTUVWXYZ"

\* strings.ToUpper and strings.ToLower on ASCII.
MapCase(s, from, to) ==
    LET conv(c) == IF \E k \in 1..26 : Ch(from, k) = c
                   THEN Ch(to, CHOOSE k \in 1..26 : Ch(from, k) = c) ELSE c
    IN Join([i \in 1..Len(s) |-> conv(Ch(s, i))], "")
ToUpper(s) == MapCase(s, Lower, Upper)
ToLower(s) == MapCase(s, Upper, Lower)

\* strings.TrimSpace, for the blank as the only space character.
TrimSpace(s) ==
    LET inner == {i \in 1..Len(s) : Ch(s, i) # " "}
    IN IF inner = {} THEN "" ELSE SubSeq(s, Min(inner), Max(inner))

\* strings.HasPrefix, strings.Contains and strings.Index (1-based here, 0 when
\* absent, where Go returns a 0-based index or -1).
HasPrefix(s, p) == Len(p) =< Len(s) /\ SubSeq(s, 1, Len(p)) = p
IndexOf(s, sub) ==
    LET at == {i \in 1..Len(s) - Len(sub) + 1 : SubSeq(s, i, i + Len(sub) - 1) = sub}
    IN IF at = {} THEN 0 ELSE Min(at)
StrContains(s, sub) == sub = "" \/ IndexOf(s, sub) # 0

HexValue(s) ==
    LET digit(c) == CHOOSE d \in 0..15 : Ch("0123456789abcdef", d + 1) = c
        lower == ToLower(s)
    IN FoldLeft(LAMBDA acc, i : 16 * acc + digit(Ch(lower, i)), 0, [i \in 1..Len(s) |-> i])

\* strconv.ParseUint(s, 16, bits): hex digits of either case, no prefix.
ParseUintHex(s, bits) ==
    IF s # "" /\ CharsOf(ToLower(s)) \subseteq CharsOf("0123456789abcdef")
       /\ HexValue(s) < 2^bits
    THEN [ok |-> TRUE, value |-> HexValue(s)]
    ELSE [ok |-> FALSE]

\* strconv.Atoi: an optional sign and decimal digits.  The values here are
\* far inside int64.
Atoi(s) ==
    LET signed == Len(s) > 0 /\ Ch(s, 1) \in {"+", "-"}
        digits == IF signed THEN SubSeq(s, 2, Len(s)) ELSE s
    IN IF digits # "" /\ CharsOf(digits) \subseteq CharsOf(DecimalDigits)
       THEN [ok |-> TRUE,
             value |-> IF signed /\ Ch(s, 1) = "-" THEN -DecimalValue(digits)
                       ELSE DecimalValue(digits)]
       ELSE [ok |-> FALSE]
=============================================================================
