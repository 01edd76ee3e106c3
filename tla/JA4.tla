-------------------------------- MODULE JA4 ---------------------------------
(***************************************************************************)
(* JA4 generation and parsing of internal/util/ja3/ja4.go.  Strings are    *)
(* TLA+ strings, handled character by character where the code does so    *)
(* (hex formatting, joining, splitting, slicing, the SNI scan), since the  *)
(* properties are about those strings.  SHA-256 is out of reach; it is a   *)
(* fixed 12-hex-digit checksum of the hashed string, so that equal inputs  *)
(* hash equally and the inputs here, which differ, hash differently.       *)
(***************************************************************************)
EXTENDS Naturals, Sequences, SequencesExt, GoStrings

(***************************************************************************)
(* hex.EncodeToString(sha256.Sum256(s))[:12], abstracted (see above) as a  *)
(* polynomial checksum 5381 * 31^n + sum of c_i * 31^(n-i) modulo a prime *)
(* whose square fits TLC's 32-bit integers, computed over halves of s so  *)
(* that long strings recurse only log n deep.                              *)
(***************************************************************************)
DigestAlphabet == "0123456789abcdef,"
DigestModulus == 46337

RECURSIVE PowMod(_, _)
PowMod(b, e) == IF e = 0 THEN 1
                ELSE LET h == PowMod(b, e \div 2)
                     IN (((h * h) % DigestModulus) * (IF e % 2 = 1 THEN b ELSE 1)) % DigestModulus

RECURSIVE PolyHash(_)
PolyHash(s) ==
    IF Len(s) = 0 THEN 0
    ELSE IF Len(s) = 1 THEN CHOOSE i \in 1..Len(DigestAlphabet) : Ch(DigestAlphabet, i) = s
    ELSE LET m == Len(s) \div 2
             r == SubSeq(s, m + 1, Len(s))
         IN (PolyHash(SubSeq(s, 1, m)) * PowMod(31, Len(r)) + PolyHash(r)) % DigestModulus

Sha256Hex12(s) == HexPad((5381 * PowMod(31, Len(s)) + PolyHash(s)) % DigestModulus, 12)

\* Lines 182-197.
FormatTLSVersion(v) ==
    CASE v = 768 -> "s3" [] v = 769 -> "10" [] v = 770 -> "11"
      [] v = 771 -> "12" [] v = 772 -> "13" [] OTHER -> "00"

\* A plausible slip in determineSNIType: the IPv6 test forgets to require a
\* colon, so any all-hex name ("cafe") counts as an address.
DetermineSNITypeNoColon(serverName) ==
    LET n == Len(serverName)
        hexOrColon(i) == Ch(serverName, i) \in CharsOf("0123456789abcdefABCDEF:")
    IN IF n = 0 THEN "i"
       ELSE IF \A i \in 1..n : Ch(serverName, i) \in CharsOf("0123456789.") THEN "i"
       ELSE IF \A i \in 1..n : hexOrColon(i) THEN "i"
       ELSE "d"

(***************************************************************************)
(* determineSNIType, lines 200-234.  The IPv6 scan stops at the first      *)
(* character that is neither hex nor a colon; hasColon only sees the       *)
(* characters before it.                                                   *)
(***************************************************************************)
DetermineSNIType(serverName) ==
    LET n == Len(serverName)
        hexOrColon(i) == Ch(serverName, i) \in CharsOf("0123456789abcdefABCDEF:")
        stop == IF \A i \in 1..n : hexOrColon(i) THEN n + 1
                ELSE Min({i \in 1..n : ~hexOrColon(i)})
        hasColon == \E i \in 1..stop - 1 : Ch(serverName, i) = ":"
        allHexOrColon == stop = n + 1
    IN IF n = 0 THEN "i"
       ELSE IF \A i \in 1..n : Ch(serverName, i) \in CharsOf("0123456789.") THEN "i"
       ELSE IF hasColon /\ allHexOrColon THEN "i"
       ELSE "d"

\* Lines 238-255: "%04x" of each cipher in the original order, joined by ",".
GenerateCipherHash(cipherSuites) ==
    Sha256Hex12(Join([i \in DOMAIN cipherSuites |-> HexPad(cipherSuites[i], 4)], ","))

\* A plausible slip in generateExtensionHash: the sort is left out.
GenerateExtensionHashUnsorted(extensions) ==
    LET filtered == SelectSeq(extensions, LAMBDA e : e # 0 /\ e # 16)
    IN Sha256Hex12(Join([i \in DOMAIN filtered |-> HexPad(filtered[i], 4)], ","))

\* Lines 259-293: SNI (0) and ALPN (16) removed, the rest sorted ascending.
GenerateExtensionHash(extensions) ==
    LET filtered == SortSeq(SelectSeq(extensions, LAMBDA e : e # 0 /\ e # 16), <)
    IN Sha256Hex12(Join([i \in DOMAIN filtered |-> HexPad(filtered[i], 4)], ","))

\* Lines 97-108: the count, capped at 255, as "%02x".
CountField(count) == HexPad(IF count > 255 THEN 255 ELSE count, 2)

(***************************************************************************)
(* GenerateJA4, lines 71-117, for non-nil data: a JA4Fingerprint's string  *)
(* fields.  ConvertJA3ToJA4 (lines 169-179) builds the data from a JA3.    *)
(***************************************************************************)
GenerateJA4(data) ==
    [Protocol       |-> IF data.IsQUIC THEN "q" ELSE "t",
     TLSVersion     |-> FormatTLSVersion(data.TLSVersion),
     SNI            |-> DetermineSNIType(data.ServerName),
     CipherCount    |-> CountField(Len(data.CipherSuites)),
     ExtensionCount |-> CountField(Len(data.Extensions)),
     CipherHash     |-> GenerateCipherHash(data.CipherSuites),
     ExtensionHash  |-> GenerateExtensionHash(data.Extensions)]

ConvertJA3ToJA4(ja3Data, serverName, isQUIC) ==
    [IsQUIC |-> isQUIC, TLSVersion |-> ja3Data.Version, ServerName |-> serverName,
     CipherSuites |-> ja3Data.CipherSuites, Extensions |-> ja3Data.Extensions,
     ALPNProtocols |-> <<>>]

\* JA4Fingerprint.String, lines 58-68.
JA4String(fp) ==
    fp.Protocol \o fp.TLSVersion \o fp.SNI \o fp.CipherCount \o fp.ExtensionCount
      \o "_" \o fp.CipherHash \o "_" \o fp.ExtensionHash

(***************************************************************************)
(* ParseJA4String, lines 120-166.  Part A is sliced as partA[0], [1:3],    *)
(* [3], [4:6] and [6:8] after checking only len(partA) >= 7; a slice past  *)
(* the end of a Go string is a run-time panic.                             *)
(***************************************************************************)
ParseJA4String(ja4String) ==
    LET parts == Split(ja4String, "_")
        a == parts[1]
        fp == [Protocol |-> Ch(a, 1), TLSVersion |-> SubSeq(a, 2, 3),
               SNI |-> Ch(a, 4), CipherCount |-> SubSeq(a, 5, 6),
               ExtensionCount |-> SubSeq(a, 7, 8),
               CipherHash |-> parts[2], ExtensionHash |-> parts[3]]
    IN IF Len(parts) # 3 THEN [status |-> "error"]
       ELSE IF Len(a) < 7 THEN [status |-> "error"]
       ELSE IF Len(a) < 8 THEN [status |-> "panic"]
       ELSE IF fp.Protocol \notin {"q", "t"}
               \/ fp.TLSVersion \notin {"10", "11", "12", "13", "00"}
               \/ fp.SNI \notin {"d", "i"}
               \/ Len(fp.CipherHash) # 12 \/ Len(fp.ExtensionHash) # 12
            THEN [status |-> "error"]
       ELSE [status |-> "ok", fp |-> fp]
=============================================================================
