----------------------------- MODULE WireTables -----------------------------
(***************************************************************************)
(* The name-to-id tables of spec section 4.1, which the code keeps in      *)
(* three copies: json_parser.go (the JSON descriptor builder), ja3/        *)
(* parser.go (the custom-format file builder) and ja3/ja4.go (JA4 from a   *)
(* file).  Each lookup is modelled with its normalisation (trimming, case, *)
(* "(id)" extraction, hex and decimal parsing) and its miss value.  The    *)
(* tables are transcribed entry by entry.                                  *)
(***************************************************************************)
EXTENDS Integers, Sequences, SequencesExt, GoStrings

-----------------------------------------------------------------------------
(* json_parser.go *)

\* parseCipherSuiteName, lines 205-279: 0 for an unknown name.
JSONCipherMap ==
    "TLS_AES_128_GCM_SHA256" :> 4865 @@ "TLS_AES_256_GCM_SHA384" :> 4866 @@
    "TLS_CHACHA20_POLY1305_SHA256" :> 4867 @@
    "TLS_AES_128_CCM_SHA256" :> 4868 @@ "TLS_AES_128_CCM_8_SHA256" :> 4869 @@
    "TLS_ECDHE_ECDSA_WITH_AES_128_GCM_SHA256" :> 49195 @@
    "TLS_ECDHE_ECDSA_WITH_AES_256_GCM_SHA384" :> 49196 @@
    "TLS_ECDHE_ECDSA_WITH_AES_128_CBC_SHA" :> 49161 @@
    "TLS_ECDHE_ECDSA_WITH_AES_256_CBC_SHA" :> 49162 @@
    "TLS_ECDHE_ECDSA_WITH_AES_128_CBC_SHA256" :> 49187 @@
    "TLS_ECDHE_ECDSA_WITH_AES_256_CBC_SHA384" :> 49188 @@
    "TLS_ECDHE_ECDSA_WITH_CHACHA20_POLY1305_SHA256" :> 52393 @@
    "TLS_ECDHE_RSA_WITH_AES_128_GCM_SHA256" :> 49199 @@
    "TLS_ECDHE_RSA_WITH_AES_256_GCM_SHA384" :> 49200 @@
    "TLS_ECDHE_RSA_WITH_AES_128_CBC_SHA" :> 49171 @@
    "TLS_ECDHE_RSA_WITH_AES_256_CBC_SHA" :> 49172 @@
    "TLS_ECDHE_RSA_WITH_AES_128_CBC_SHA256" :> 49191 @@
    "TLS_ECDHE_RSA_WITH_AES_256_CBC_SHA384" :> 49192 @@
    "TLS_ECDHE_RSA_WITH_CHACHA20_POLY1305_SHA256" :> 52392 @@
    "TLS_RSA_WITH_AES_128_GCM_SHA256" :> 156 @@
    "TLS_RSA_WITH_AES_256_GCM_SHA384" :> 157 @@
    "TLS_RSA_WITH_AES_128_CBC_SHA" :> 47 @@
    "TLS_RSA_WITH_AES_256_CBC_SHA" :> 53 @@
    "TLS_RSA_WITH_AES_128_CBC_SHA256" :> 60 @@
    "TLS_RSA_WITH_AES_256_CBC_SHA256" :> 61 @@
    "TLS_DHE_RSA_WITH_AES_128_GCM_SHA256" :> 158 @@
    "TLS_DHE_RSA_WITH_AES_256_GCM_SHA384" :> 159 @@
    "TLS_DHE_RSA_WITH_AES_128_CBC_SHA" :> 51 @@
    "TLS_DHE_RSA_WITH_AES_256_CBC_SHA" :> 57 @@
    "TLS_DHE_RSA_WITH_AES_128_CBC_SHA256" :> 103 @@
    "TLS_DHE_RSA_WITH_AES_256_CBC_SHA256" :> 107 @@
    "TLS_DHE_RSA_WITH_CHACHA20_POLY1305_SHA256" :> 52394 @@
    "TLS_RSA_WITH_3DES_EDE_CBC_SHA" :> 10 @@
    "TLS_RSA_WITH_RC4_128_SHA" :> 5 @@ "TLS_RSA_WITH_RC4_128_MD5" :> 4 @@
    "TLS_ECDHE_RSA_WITH_3DES_EDE_CBC_SHA" :> 49170 @@
    "TLS_ECDHE_ECDSA_WITH_3DES_EDE_CBC_SHA" :> 49160 @@
    "TLS_PSK_WITH_AES_128_GCM_SHA256" :> 168 @@
    "TLS_PSK_WITH_AES_256_GCM_SHA384" :> 169 @@
    "TLS_PSK_WITH_AES_128_CBC_SHA256" :> 174 @@
    "TLS_DHE_PSK_WITH_AES_128_GCM_SHA256" :> 170 @@
    "TLS_DHE_PSK_WITH_AES_256_GCM_SHA384" :> 171 @@
    "TLS_ECDHE_PSK_WITH_AES_128_CBC_SHA256" :> 49207 @@
    "TLS_ECDHE_PSK_WITH_AES_256_CBC_SHA384" :> 49208 @@
    "TLS_ECDHE_PSK_WITH_CHACHA20_POLY1305_SHA256" :> 52396 @@
    "TLS_RSA_WITH_ARIA_128_GCM_SHA256" :> 49232 @@
    "TLS_RSA_WITH_ARIA_256_GCM_SHA384" :> 49233 @@
    "TLS_ECDHE_ECDSA_WITH_ARIA_128_GCM_SHA256" :> 49244 @@
    "TLS_ECDHE_ECDSA_WITH_ARIA_256_GCM_SHA384" :> 49245 @@
    "TLS_ECDHE_RSA_WITH_ARIA_128_GCM_SHA256" :> 49248 @@
    "TLS_ECDHE_RSA_WITH_ARIA_256_GCM_SHA384" :> 49249

parseCipherSuiteName(name) ==
    IF name \in DOMAIN JSONCipherMap THEN JSONCipherMap[name] ELSE 0

\* parseSupportedGroup, lines 282-306: the exact names, else the text between
\* the first "(" and the first ")" after it, through strconv.Atoi and the
\* conversion to the 16-bit utls.CurveID; 0 when neither applies.
JSONGroupMap ==
    "X25519 (29)" :> 29 @@ "P-256 (23)" :> 23 @@ "P-384 (24)" :> 24 @@
    "P-521 (25)" :> 25

parseSupportedGroup(name) ==
    LET open == IndexOf(name, "(")
        close == IndexOf(SubSeq(name, open, Len(name)), ")")
        id == Atoi(TrimSpace(SubSeq(name, open + 1, open + close - 2)))
    IN IF name \in DOMAIN JSONGroupMap THEN JSONGroupMap[name]
       ELSE IF open # 0 /\ close # 0 /\ id.ok THEN id.value % 65536
       ELSE 0

\* parsePointFormat, lines 309-316: an optional "0x", then a hex byte; 255
\* marks an invalid one.
parsePointFormat(pf) ==
    LET digits == IF HasPrefix(pf, "0x") THEN SubSeq(pf, 3, Len(pf)) ELSE pf
    IN IF ParseUintHex(digits, 8).ok THEN ParseUintHex(digits, 8).value ELSE 255

\* parseSignatureAlgorithm, lines 319-337, with the utls scheme values.
JSONSigAlgMap ==
    "ecdsa_secp256r1_sha256" :> 1027 @@ "ecdsa_secp384r1_sha384" :> 1283 @@
    "ecdsa_secp521r1_sha512" :> 1539 @@ "rsa_pss_rsae_sha256" :> 2052 @@
    "rsa_pss_rsae_sha384" :> 2053 @@ "rsa_pss_rsae_sha512" :> 2054 @@
    "rsa_pkcs1_sha256" :> 1025 @@ "rsa_pkcs1_sha384" :> 1281 @@
    "rsa_pkcs1_sha512" :> 1537 @@ "rsa_pkcs1_sha1" :> 513

parseSignatureAlgorithm(name) ==
    IF name \in DOMAIN JSONSigAlgMap THEN JSONSigAlgMap[name] ELSE 0

\* parseTLSVersion, lines 340-352.
JSONVersionMap ==
    "TLS 1.3" :> 772 @@ "TLS 1.2" :> 771 @@ "TLS 1.1" :> 770 @@
    "TLS 1.0" :> 769

parseTLSVersion(ver) ==
    IF ver \in DOMAIN JSONVersionMap THEN JSONVersionMap[ver] ELSE 0

-----------------------------------------------------------------------------
(* ja3/parser.go *)

CipherMap ==
    "TLS_AES_128_GCM_SHA256" :> 4865 @@ "TLS_AES_256_GCM_SHA384" :> 4866 @@
    "TLS_CHACHA20_POLY1305_SHA256" :> 4867 @@
    "TLS_ECDHE_ECDSA_WITH_AES_128_GCM_SHA256" :> 49195 @@
    "TLS_ECDHE_RSA_WITH_AES_128_GCM_SHA256" :> 49199 @@
    "TLS_ECDHE_ECDSA_WITH_AES_256_GCM_SHA384" :> 49196 @@
    "TLS_ECDHE_RSA_WITH_AES_256_GCM_SHA384" :> 49200 @@
    "TLS_ECDHE_ECDSA_WITH_CHACHA20_POLY1305_SHA256" :> 52393 @@
    "TLS_ECDHE_RSA_WITH_CHACHA20_POLY1305_SHA256" :> 52392 @@
    "TLS_ECDHE_RSA_WITH_AES_128_CBC_SHA" :> 49171 @@
    "TLS_ECDHE_RSA_WITH_AES_256_CBC_SHA" :> 49172 @@
    "TLS_RSA_WITH_AES_128_GCM_SHA256" :> 156 @@
    "TLS_RSA_WITH_AES_256_GCM_SHA384" :> 157 @@
    "TLS_RSA_WITH_AES_128_CBC_SHA" :> 47 @@
    "TLS_RSA_WITH_AES_256_CBC_SHA" :> 53 @@
    "TLS_ECDHE_ECDSA_WITH_AES_128_CBC_SHA" :> 49161 @@
    "TLS_ECDHE_ECDSA_WITH_AES_256_CBC_SHA" :> 49162

\* A plausible slip in copying the table: two neighbouring ids swapped.
ParseCipherNameSwapped(name) ==
    IF name \in DOMAIN CipherMap
    THEN [ok |-> TRUE, id |-> IF name = "TLS_ECDHE_RSA_WITH_AES_256_CBC_SHA" THEN 49171
                              ELSE IF name = "TLS_ECDHE_RSA_WITH_AES_128_CBC_SHA" THEN 49172
                              ELSE CipherMap[name]]
    ELSE [ok |-> FALSE]

\* ParseCipherName, lines 135-161: an error for an unknown name.
ParseCipherName(name) ==
    IF name \in DOMAIN CipherMap THEN [ok |-> TRUE, id |-> CipherMap[name]]
    ELSE [ok |-> FALSE]

\* ParseSupportedGroup, lines 164-194: a "(" after the first character and
\* the first ")" after it enclose a 16-bit decimal; else the trimmed name is
\* looked up.
GroupMap ==
    "X25519" :> 29 @@ "P-256" :> 23 @@ "P-384" :> 24 @@ "P-521" :> 25 @@
    "secp256r1" :> 23 @@ "secp384r1" :> 24 @@ "secp521r1" :> 25 @@
    "x25519" :> 29

ParseSupportedGroup(name) ==
    LET open == IndexOf(name, "(")
        close == IndexOf(name, ")")
        num == ParseUint(TrimSpace(SubSeq(name, open + 1, close - 1)), 16)
    IN IF open > 1 /\ close > open /\ num.ok THEN [ok |-> TRUE, id |-> num.value]
       ELSE IF TrimSpace(name) \in DOMAIN GroupMap
       THEN [ok |-> TRUE, id |-> GroupMap[TrimSpace(name)]]
       ELSE [ok |-> FALSE]

\* ParseSignatureAlgorithm, lines 197-219.
SigAlgMap ==
    "rsa_pkcs1_sha256" :> 1025 @@ "rsa_pkcs1_sha384" :> 1281 @@
    "rsa_pkcs1_sha512" :> 1537 @@ "ecdsa_secp256r1_sha256" :> 1027 @@
    "ecdsa_secp384r1_sha384" :> 1283 @@ "ecdsa_secp521r1_sha512" :> 1539 @@
    "rsa_pss_rsae_sha256" :> 2052 @@ "rsa_pss_rsae_sha384" :> 2053 @@
    "rsa_pss_rsae_sha512" :> 2054 @@ "ed25519" :> 2055 @@
    "rsa_pss_pss_sha256" :> 2057 @@ "rsa_pss_pss_sha384" :> 2058 @@
    "rsa_pss_pss_sha512" :> 2059

ParseSignatureAlgorithm(name) ==
    IF name \in DOMAIN SigAlgMap THEN [ok |-> TRUE, id |-> SigAlgMap[name]]
    ELSE [ok |-> FALSE]

\* ParseTLSVersion, lines 222-242: the names, else a 16-bit decimal.
VersionMap ==
    "TLS 1.0" :> 769 @@ "TLS 1.1" :> 770 @@ "TLS 1.2" :> 771 @@
    "TLS 1.3" :> 772 @@ "SSL 3.0" :> 768

ParseTLSVersion(version) ==
    IF version \in DOMAIN VersionMap THEN [ok |-> TRUE, id |-> VersionMap[version]]
    ELSE IF ParseUint(version, 16).ok THEN [ok |-> TRUE, id |-> ParseUint(version, 16).value]
    ELSE [ok |-> FALSE]

-----------------------------------------------------------------------------
(* ja3/ja4.go *)

\* parseTLSVersionString, lines 347-367: the first of "1.3", "1.2", "1.1",
\* "1.0" the upper-cased, trimmed name contains, else a "0X" hex value.
parseTLSVersionString(version) ==
    LET v == TrimSpace(ToUpper(version))
        hex == ParseUintHex(SubSeq(v, 3, Len(v)), 16)
    IN CASE StrContains(v, "1.3") -> [ok |-> TRUE, id |-> 772]
         [] StrContains(v, "1.2") -> [ok |-> TRUE, id |-> 771]
         [] StrContains(v, "1.1") -> [ok |-> TRUE, id |-> 770]
         [] StrContains(v, "1.0") -> [ok |-> TRUE, id |-> 769]
         [] HasPrefix(v, "0X") /\ hex.ok -> [ok |-> TRUE, id |-> hex.value]
         [] OTHER -> [ok |-> FALSE]

\* parseCipherSuiteString, lines 370-397: upper-cased and trimmed, a "0X" hex
\* value first, else the short table; 0 for anything else.
CommonCiphers ==
    "TLS_AES_128_GCM_SHA256" :> 4865 @@ "TLS_AES_256_GCM_SHA384" :> 4866 @@
    "TLS_CHACHA20_POLY1305_SHA256" :> 4867 @@
    "TLS_ECDHE_RSA_WITH_AES_128_GCM_SHA256" :> 49199 @@
    "TLS_ECDHE_RSA_WITH_AES_256_GCM_SHA384" :> 49200 @@
    "TLS_ECDHE_ECDSA_WITH_AES_128_GCM_SHA256" :> 49195 @@
    "TLS_ECDHE_ECDSA_WITH_AES_256_GCM_SHA384" :> 49196

parseCipherSuiteString(name) ==
    LET n == TrimSpace(ToUpper(name))
        hex == ParseUintHex(SubSeq(n, 3, Len(n)), 16)
    IN IF HasPrefix(n, "0X") /\ hex.ok THEN hex.value
       ELSE IF n \in DOMAIN CommonCiphers THEN CommonCiphers[n]
       ELSE 0

\* extensionNameToID, lines 400-426: lower-cased and trimmed; 0 for an
\* unknown name, the same value as server_name.
ExtensionMap ==
    "server_name" :> 0 @@ "max_fragment_length" :> 1 @@
    "status_request" :> 5 @@ "supported_groups" :> 10 @@
    "ec_point_formats" :> 11 @@ "signature_algorithms" :> 13 @@
    "application_layer_protocol_negotiation" :> 16 @@
    "signed_certificate_timestamp" :> 18 @@ "padding" :> 21 @@
    "extended_master_secret" :> 23 @@ "session_ticket" :> 35 @@
    "supported_versions" :> 43 @@ "psk_key_exchange_modes" :> 45 @@
    "key_share" :> 51 @@ "renegotiation_info" :> 65281

extensionNameToID(name) ==
    LET n == ToLower(TrimSpace(name))
    IN IF n \in DOMAIN ExtensionMap THEN ExtensionMap[n] ELSE 0
=============================================================================
