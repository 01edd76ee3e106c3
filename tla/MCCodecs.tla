------------------------------ MODULE MCCodecs ------------------------------
(***************************************************************************)
(* Model-checking driver for the pure codecs: the GREASE helpers, the JA3  *)
(* parser and builder, JA4 generation and parsing, and the profile        *)
(* catalog.  Each state holds one input, drawn from the small sets below; *)
(* the invariants compare what the code computes on it with the reference *)
(* definitions of spec sections 3 and 4.  A call starts from the idle     *)
(* state and returns to it, so the run visits each input once.            *)
(***************************************************************************)
EXTENDS Naturals, Sequences, FiniteSets, SequencesExt, TLC,
        GoStrings, Grease, JA3Codec, JA4, Profiles, WireTables, JSONBuilder,
        Http2Config, FileSpec

CONSTANTS GreaseSample,   \* values GREASE sequences are drawn from
          MaxGreaseLen,   \* longest value sequence
          MaxPositions,   \* most GREASE positions
          JA3Strings,     \* JA3 strings given to ParseJA3
          ServerNames,    \* server names for the builder and JA4
          TLSVersions,    \* JA4Data.TLSVersion values
          CipherLists,    \* JA4Data.CipherSuites values
          ExtensionLists, \* JA4Data.Extensions values
          JA4Strings,     \* strings given to ParseJA4String
          ProfileNames,   \* names looked up in the catalog
          WireNames,      \* cipher, group, scheme and version names
          JSONObjects,    \* extension objects of a JSON descriptor
          MaxJSONExts,    \* longest extension array
          H2Names,        \* HTTP/2 profile names, known and unknown
          MaxH2Configures,\* ConfigureHTTP2Transport calls on one transport
          FileObjects,    \* extension objects of a ClientHelloSpecFile
          MaxFileExts     \* longest extension array of a file

VARIABLE input

SeqsUpTo(S, n) == UNION {[1..k -> S] : k \in 0..n}

GreaseSeqs == SeqsUpTo(GreaseSample, MaxGreaseLen)

\* JA4Data given directly, and JA4Data that ConvertJA3ToJA4 (ja4.go 169-179)
\* makes from every JA3 that parses.
JA4Inputs ==
    [IsQUIC : BOOLEAN, TLSVersion : TLSVersions, ServerName : ServerNames,
     CipherSuites : CipherLists, Extensions : ExtensionLists, ALPNProtocols : {<<>>}]
    \cup {ConvertJA3ToJA4(ParseJA3(s).data, sn, FALSE) :
            s \in {s \in JA3Strings : ParseJA3(s).ok}, sn \in ServerNames}

Init == input = [kind |-> "start"]

InjectStep ==
    \E v \in GreaseSeqs, p \in SeqsUpTo(0..MaxGreaseLen + MaxPositions, MaxPositions) :
        input' = [kind |-> "inject", values |-> v, positions |-> p]

NormalizeStep ==
    \E v, w \in GreaseSeqs : input' = [kind |-> "normalize", v |-> v, w |-> w]

ParseJA3Step ==
    \E s \in JA3Strings : input' = [kind |-> "ja3", s |-> s]

BuildStep ==
    \E s \in JA3Strings, sn \in ServerNames :
        /\ ParseJA3(s).ok
        /\ input' = [kind |-> "build", data |-> ParseJA3(s).data, serverName |-> sn]

GenerateJA4Step ==
    \E d \in JA4Inputs : input' = [kind |-> "ja4", data |-> d]

ParseJA4Step ==
    \E s \in JA4Strings : input' = [kind |-> "ja4parse", s |-> s]

ProfileStep ==
    \E n \in ProfileNames : input' = [kind |-> "profile", name |-> n]

NameStep ==
    \E n \in WireNames : input' = [kind |-> "name", name |-> n]

\* A descriptor: one cipher list with a known and an unknown name, and any
\* array of extension objects.
JSONBuildStep ==
    \E exts \in SeqsUpTo(JSONObjects, MaxJSONExts) :
        input' = [kind |-> "json",
                  ch |-> [ciphers |-> <<"TLS_AES_128_GCM_SHA256", "TLS_UNKNOWN">>,
                          extensions |-> exts]]

\* The HTTP/2 configurator.  An "h2" input is one transport: the profile its
\* constructor named (base), the overrides it was given (over, each <<>> or
\* <<v>>), the initial AllowHTTP, and the profiles configured on it since.
NoOverrides == [MaxHeaderListSize |-> <<>>, ReadIdleTimeout |-> <<>>, PingTimeout |-> <<>>]

H2Transport(r, base, over, allow) ==
    IF r.ok THEN [kind |-> "h2", t |-> r.t, base |-> base, over |-> over,
                  allow |-> allow, later |-> <<>>]
    ELSE [kind |-> "h2err", name |-> base]

H2TransportConfigs ==
    [nil : BOOLEAN, ProfileName : H2Names \cup {""},
     MaxHeaderListSize : {<<>>, <<65536>>}, ReadIdleTimeout : {<<>>, <<5>>},
     PingTimeout : {<<>>, <<7>>}, DisableCompression : {FALSE}, AllowHTTP : BOOLEAN]

H2ClientConfigs ==
    [nil : BOOLEAN, BrowserProfile : H2Names \cup {""}, HTTP2Profile : H2Names \cup {""},
     ReadIdleTimeout : {0, 5}, RequestTimeout : {0, 20}]

GetHTTP2TransportStep ==
    \E n \in H2Names : input' = H2Transport(GetHTTP2Transport(n), n, NoOverrides, FALSE)

NewHTTP2TransportStep ==
    \E c \in H2TransportConfigs :
        LET name == IF c.nil THEN "" ELSE c.ProfileName
            over == IF c.nil THEN NoOverrides
                    ELSE [MaxHeaderListSize |-> c.MaxHeaderListSize,
                          ReadIdleTimeout |-> c.ReadIdleTimeout, PingTimeout |-> c.PingTimeout]
        IN input' = H2Transport(NewHTTP2Transport(c), name, over, ~c.nil /\ c.AllowHTTP)

NewHTTP2ClientStep ==
    \E c \in H2ClientConfigs :
        LET name == CASE c.nil -> ""
                      [] c.HTTP2Profile = "" -> c.BrowserProfile
                      [] OTHER -> c.HTTP2Profile
            over == [NoOverrides EXCEPT !.ReadIdleTimeout =
                        IF c.ReadIdleTimeout > 0 THEN <<c.ReadIdleTimeout>> ELSE <<>>]
        IN input' = H2Transport(NewHTTP2Client(c), name, over, FALSE)

\* ConfigureHTTP2Transport again on a transport already built.
ConfigureHTTP2TransportStep ==
    /\ input.kind = "h2"
    /\ Len(input.later) < MaxH2Configures
    /\ \E n \in H2Names :
          input' = [input EXCEPT !.t = ConfigureHTTP2Transport(input.t, n).t,
                                 !.later = Append(@, n)]

H2ReportStep ==
    \E n \in H2Names : input' = [kind |-> "h2report", name |-> n]

\* BuildClientHelloSpecFromFile on a file with one known cipher.
FileBuildStep ==
    \E exts \in SeqsUpTo(FileObjects, MaxFileExts), sn \in {"", "example.com"} :
        input' = [kind |-> "file", serverName |-> sn,
                  file |-> [ciphers |-> <<"TLS_AES_128_GCM_SHA256">>,
                            tlsVersionRecord |-> "", extensions |-> exts]]

\* The caller is done with the result.
Return ==
    /\ input.kind # "start"
    /\ input' = [kind |-> "start"]

Call ==
    /\ input.kind = "start"
    /\ \/ InjectStep \/ NormalizeStep \/ ParseJA3Step \/ BuildStep
       \/ GenerateJA4Step \/ ParseJA4Step \/ ProfileStep \/ NameStep
       \/ JSONBuildStep \/ GetHTTP2TransportStep \/ NewHTTP2TransportStep
       \/ NewHTTP2ClientStep \/ H2ReportStep \/ FileBuildStep

Next == Call \/ ConfigureHTTP2TransportStep \/ Return

Spec == Init /\ [][Next]_input

-----------------------------------------------------------------------------
(***************************************************************************)
(* Values for the constants, substituted in the .cfg files.                *)
(***************************************************************************)
ConstJA3Strings ==
    {"771,4865-4866,0-10-11-2570-17513,29-23,0",
     "771,65535,65281-0-21-16-13,29,0-1-2",
     "771,,,,", ",,,,", "0771,4865,,,",
     "771,4865,0,29,256", "65536,,,,", "771,4865--4866,,,",
     "771,-4865,,,", "771,4865 ,,,", "a,b,c,d,e",
     "771,4865,0,29", "771,4865,0,29,0,1", ""}

ConstServerNames ==
    {"", "example.com", "192.168.1.1", "2001:db8::1", "cafe", "localhost",
     "fe80::1%eth0"}

\* An empty list, the four ciphers of scenario S6, and 300 ciphers (the clamp).
ConstCipherLists ==
    {<<>>, <<4865, 4866, 4867, 49199>>, [i \in 1..300 |-> 4865]}

ConstExtensionLists ==
    {<<>>, <<0, 16>>, <<51, 10, 0>>, <<2570, 13, 10, 16>>, <<43, 43, 13>>}

ConstJA4Strings ==
    {"t13d1516h2_8daaf6152771_e5627efa2ab1", "t13d0404_8daaf6152771_e5627efa2ab1",
     "t13d040_8daaf6152771_e5627efa2ab1", "t13d04_8daaf6152771_e5627efa2ab1",
     "ts3d0404_8daaf6152771_e5627efa2ab1", "x13d0404_8daaf6152771_e5627efa2ab1",
     "t13x0404_8daaf6152771_e5627efa2ab1", "t13d0404_8daaf615_e5627efa2ab1",
     "t13d0404__", "a_b", ""}

\* File extension objects: SNI, groups, a directly emitted extension, key
\* share, ALPN and padding, with the payload fields the builder reads.
ConstFileObjects ==
    LET obj(n, g, p, pad) == [name |-> n, groups |-> g, points |-> <<>>, sigalgs |-> <<>>,
                              versions |-> <<>>, protocols |-> p, padding |-> pad]
    IN {obj("server_name", <<>>, <<>>, 0),
        obj("supported_groups", <<"X25519">>, <<>>, 0),
        obj("session_ticket", <<>>, <<>>, 0),
        obj("key_share", <<>>, <<>>, 0),
        obj("application_layer_protocol_negotiation", <<>>, <<"h2">>, 0),
        obj("padding", <<>>, <<>>, 517)}

\* The catalog's HTTP/2 names, one in another case, and an unknown one.
ConstH2Names == {"chrome_120", "firefox_120", "safari_17", "go_http", "okhttp_android",
                 "Chrome_120", "opera_100"}

ConstProfileNames == {"chrome_modern", "python_requests", "safari_ios_17", "opera"}

\* Extension objects as fingerprint reflectors name them, with the fields
\* the builder reads: a present and an empty server name, groups with a
\* recognised and a GREASE name, zero and positive padding, a GREASE
\* extension, BoringSSL's renegotiation name, and a name containing another
\* case's keyword.
ConstJSONObjects ==
    LET obj(n, sn, g, p) == [name |-> n, serverName |-> sn, groups |-> g, padding |-> p]
    IN {obj("server_name (0)", "example.com", <<>>, 0),
        obj("server_name (0)", "", <<>>, 0),
        obj("supported_groups (10)", "", <<"GREASE (0x3a3a)", "X25519 (29)">>, 0),
        obj("supported_groups (10)", "", <<"GREASE (0x3a3a)">>, 0),
        obj("key_share (51)", "", <<>>, 0),
        obj("padding (21)", "", <<>>, 0),
        obj("padding (21)", "", <<>>, 517),
        obj("TLS_GREASE (0x3a3a)", "", <<>>, 0),
        obj("extensionRenegotiationInfo (boringssl) (65281)", "", <<>>, 0),
        obj("signature_algorithms_cert (50)", "", <<>>, 0)}

\* Every name of every table, and spellings the normalisations treat apart.
ConstWireNames ==
    UNION {DOMAIN JSONCipherMap, DOMAIN CipherMap, DOMAIN CommonCiphers,
           DOMAIN JSONGroupMap, DOMAIN GroupMap, DOMAIN JSONSigAlgMap,
           DOMAIN SigAlgMap, DOMAIN JSONVersionMap, DOMAIN VersionMap}
    \cup {" tls_aes_128_gcm_sha256 ", "0x1301", "0XC02F", "x25519 (29)",
          "X25519 ( 29 )", "P-256", "(29)", ")x(29)", "GREASE (0x0a0a)",
          "X25519 (70000)", "Foo (-1)", "0x0303", "771", "TLS 1.10", "tls 1.2",
          "0x1g", ""}

-----------------------------------------------------------------------------
(***************************************************************************)
(* References from the spec.                                               *)
(***************************************************************************)

\* Spec section 6: a JA3 is five comma-separated fields, each a dash-joined
\* list of decimals; the first four u16, the fifth u8; a field may be empty.
DecimalToken(t, bits) ==
    t # "" /\ CharsOf(t) \subseteq CharsOf(DecimalDigits) /\ DecimalValue(t) < 2^bits

FieldOK(f, bits) == f = "" \/ \A t \in Range(Split(f, "-")) : DecimalToken(t, bits)

WellFormedJA3(s) ==
    LET f == Split(s, ",")
    IN /\ Len(f) = 5
       /\ f[1] = "" \/ DecimalToken(f[1], 16)
       /\ \A k \in 2..4 : FieldOK(f[k], 16)
       /\ FieldOK(f[5], 8)

\* The strings serialize produces: no leading zeros and a version present.
CanonicalJA3(s) ==
    LET f == Split(s, ",")
        noLeadingZero(t) == t = "0" \/ Ch(t, 1) # "0"
        tokens == UNION {Range(Split(f[k], "-")) : k \in {k \in 1..5 : f[k] # ""}}
    IN WellFormedJA3(s) /\ f[1] # "" /\ \A t \in tokens : noLeadingZero(t)

\* Spec section 4.3, step 3, read directly.
SpecSNIType(name) ==
    LET chars == CharsOf(name)
    IN IF \/ name = ""
          \/ chars \subseteq CharsOf("0123456789.")
          \/ ":" \in chars /\ chars \subseteq CharsOf("0123456789abcdefABCDEF:")
       THEN "i" ELSE "d"

\* min(n, 0xff) as two lowercase hex digits.
SpecCount(n) == LET c == IF n < 255 THEN n ELSE 255
                IN Ch(HexDigits, (c \div 16) + 1) \o Ch(HexDigits, (c % 16) + 1)

-----------------------------------------------------------------------------
(***************************************************************************)
(* Properties.                                                             *)
(***************************************************************************)

\* InjectGREASE (grease.go 61-90) never loses or reorders a value, and for
\* distinct positions inside the result it puts the k-th GREASE value at the
\* k-th requested index and the values, in order, everywhere else, so that
\* GetGREASEPositions and CountGREASE (93-112) recover the positions.
InjectGREASESound ==
    input.kind = "inject" =>
        LET out == InjectGREASE(input.values, input.positions)
        IN /\ FilterGREASE(out) = FilterGREASE(input.values)
           /\ InjectInRange(input.values, input.positions)
                => out = RefInject(input.values, Range(input.positions))
           /\ InjectInRange(input.values, input.positions) /\ ~HasGREASE(input.values)
                => /\ GetGREASEPositions(out) = SortSeq(input.positions, <)
                   /\ CountGREASE(out) = Len(input.positions)

\* NormalizeWithGREASE (grease.go 126-140) maps two slices to the same
\* result exactly when they differ only in which GREASE value fills a slot,
\* so fingerprints compared after it ignore GREASE randomisation only.
NormalizeIdentifiesGreaseVariants ==
    input.kind = "normalize" =>
        (NormalizeWithGREASE(input.v) = NormalizeWithGREASE(input.w)
            <=> SameUpToGREASE(input.v, input.w))

\* ParseJA3 (parser.go 51-117) accepts exactly the well-formed JA3 strings
\* of spec section 6, and on a canonical string it is the inverse of
\* serialize: the round-trip law of spec section 4.2.
JA3ParseMatchesGrammar ==
    input.kind = "ja3" =>
        /\ ParseJA3(input.s).ok <=> WellFormedJA3(input.s)
        /\ CanonicalJA3(input.s) => SerializeJA3(ParseJA3(input.s).data) = input.s

\* BuildClientHelloSpecFromJA3 (part_001 13-37, 192-264) keeps the JA3's
\* versions and ciphers and emits one extension per listed id, in the
\* listed order, a GREASE id as a Generic one (spec section 3, testable
\* property 4).
JA3BuildKeepsExtensionOrder ==
    input.kind = "build" =>
        LET spec == BuildClientHelloSpecFromJA3(input.data, input.serverName)
            exts == spec.Extensions
        IN /\ spec.TLSVersMin = input.data.Version /\ spec.TLSVersMax = input.data.Version
           /\ spec.CipherSuites = input.data.CipherSuites
           /\ Len(exts) = Len(input.data.Extensions)
           /\ \A i \in DOMAIN exts :
                 /\ exts[i].id = input.data.Extensions[i]
                 /\ IsGREASE(exts[i].id) => exts[i].type = "Generic"

\* GenerateJA4 (ja4.go 71-117) fills part a as spec section 4.3 says: the
\* protocol, the version tag, the SNI kind of step 3, and the cipher and
\* extension counts clamped at 0xff in two lowercase hex digits.
JA4PartAMatchesSpec ==
    input.kind = "ja4" =>
        LET fp == GenerateJA4(input.data)
        IN /\ fp.Protocol = IF input.data.IsQUIC THEN "q" ELSE "t"
           /\ fp.SNI = SpecSNIType(input.data.ServerName)
           /\ fp.CipherCount = SpecCount(Len(input.data.CipherSuites))
           /\ fp.ExtensionCount = SpecCount(Len(input.data.Extensions))

\* The extension hash of GenerateJA4 (ja4.go 259-293) is the same for every
\* order of the same extensions (testable property 3), and both hashes are
\* 12 characters.
JA4ExtensionHashOrderFree ==
    input.kind = "ja4" =>
        LET e == input.data.Extensions
            fp == GenerateJA4(input.data)
        IN /\ Len(fp.CipherHash) = 12 /\ Len(fp.ExtensionHash) = 12
           /\ \A p \in Permutations(DOMAIN e) :
                 GenerateExtensionHash([i \in DOMAIN e |-> e[p[i]]]) = fp.ExtensionHash

\* Every catalog profile's JA3 (profiles.go 13-191, via GetBrowserJA3)
\* parses and re-serializes byte-identically (testable property 1), and its
\* JA4 string passes ParseJA4String; an unknown name yields "".
CatalogFingerprintsParse ==
    input.kind = "profile" =>
        IF input.name \in ListBrowserProfiles
        THEN /\ ParseJA3(GetBrowserJA3(input.name)).ok
             /\ SerializeJA3(ParseJA3(GetBrowserJA3(input.name)).data)
                    = GetBrowserJA3(input.name)
             /\ ParseJA4String(GetBrowserJA4(input.name)).status = "ok"
        ELSE GetBrowserJA3(input.name) = "" /\ ~GetBrowserProfile(input.name).ok

\* Spec section 4.1 has one closed table per kind of name.  The code keeps
\* three: json_parser.go 205-352, ja3/parser.go 135-242 and ja3/ja4.go
\* 347-397.  Whenever two of them both recognise a name, after their own
\* trimming, case folding, "(id)" extraction and numeric fallbacks, they
\* give it the same id, so a descriptor does not change meaning with the
\* path that reads it.
WireTablesAgree ==
    input.kind = "name" =>
        LET n == input.name
            known(id) == [ok |-> id # 0, id |-> id]
            agree(a, b) == a.ok /\ b.ok => a.id = b.id
        IN /\ agree(known(parseCipherSuiteName(n)), ParseCipherName(n))
           /\ agree(known(parseCipherSuiteName(n)), known(parseCipherSuiteString(n)))
           /\ agree(ParseCipherName(n), known(parseCipherSuiteString(n)))
           /\ agree(known(parseSupportedGroup(n)), ParseSupportedGroup(n))
           /\ agree(known(parseSignatureAlgorithm(n)), ParseSignatureAlgorithm(n))
           /\ agree(known(parseTLSVersion(n)), ParseTLSVersion(n))
           /\ agree(known(parseTLSVersion(n)), parseTLSVersionString(n))
           /\ agree(ParseTLSVersion(n), parseTLSVersionString(n))

\* BuildClientHelloSpecFromJSON (json_parser.go 87-202) emits extensions in
\* the order of the descriptor's array (spec section 4.5 step 3), and a
\* key_share only after a supported_groups that carried a group the table
\* recognises, which the KeyShareExtension needs.
JSONBuildKeepsOrder ==
    input.kind = "json" =>
        LET exts == input.ch.extensions
            out == BuildClientHelloSpecFromJSON(input.ch).Extensions
            recognised(e) == \E i \in DOMAIN e.groups : parseSupportedGroup(e.groups[i]) # 0
        IN /\ \A i, j \in DOMAIN out : i < j => out[i].src < out[j].src
           /\ \A i \in DOMAIN out :
                 out[i].type = "KeyShare" =>
                     \E j \in 1..i - 1 : out[j].type = "SupportedCurves"
                                       /\ recognised(exts[out[j].src])

(***************************************************************************)
(* What spec section 4.8 and the override options say a transport holds:  *)
(* each knob has the value last written to it.  Its writers, in call      *)
(* order, are the constructor's profile, the constructor's overrides, and  *)
(* every profile configured since; a profile writes MaxHeaderListSize and  *)
(* strict mode only when it has settings 6 and 3, and always the idle     *)
(* timeout and AllowHTTP = FALSE.  With no writer a knob keeps the         *)
(* constructor's initial value.                                            *)
(***************************************************************************)
(* What spec section 4.8 says a transport holds once a profile is applied *)
(* to it: setting 6 copied into MaxHeaderListSize, strict mode on when     *)
(* setting 3 is present and non-zero, the idle timeout of the WINDOW_UPDATE *)
(* tier, and AllowHTTP false; and (configuration table, section 6) an      *)
(* explicit override of a knob replaces the profile's value.               *)
(***************************************************************************)
IdleTier(w) == CASE w > 10000000 -> 30 [] w > 1000000 -> 15 [] OTHER -> 10

\* The reconfigurations that took effect: one naming an unknown profile
\* returns its error and leaves the transport alone.
Applied(tr) == SelectSeq(tr.later, LAMBDA n : GetHTTP2Profile(n).ok)

\* The profile applied last: the constructor's, or the last reconfiguration.
LastProfile(tr) == IF Applied(tr) = <<>> THEN tr.base ELSE Last(Applied(tr))

\* The constructor's override of knob k, if one was given and no profile has
\* been applied since.
Overridden(tr, k) == Applied(tr) = <<>> /\ tr.over[k] # <<>>

\* A transport from GetHTTP2Transport, NewHTTP2Transport or NewHTTP2Client
\* (part_002 15-189), possibly reconfigured with ConfigureHTTP2Transport,
\* holds what spec 4.8 says of the profile applied last, where an override
\* given to the constructor wins over its own profile; a fresh transport
\* keeps the zero value of every knob neither the profile nor an override
\* sets.  A constructor fails exactly when it names an unknown profile.
H2KnobsFollowProfile ==
    /\ input.kind = "h2" =>
         LET tr == input
             knob(k, v) == IF Overridden(tr, k) THEN tr.over[k][1] ELSE v
         IN /\ tr.t.PingTimeout = IF tr.over.PingTimeout = <<>> THEN 0
                                  ELSE tr.over.PingTimeout[1]
            /\ LastProfile(tr) = "" =>
                 /\ tr.t.AllowHTTP = tr.allow
                 /\ tr.t.ReadIdleTimeout = knob("ReadIdleTimeout", 0)
                 /\ tr.t.MaxHeaderListSize = knob("MaxHeaderListSize", 0)
                 /\ ~tr.t.StrictMaxConcurrentStreams
            /\ LastProfile(tr) # "" =>
                 LET p == GetHTTP2Profile(LastProfile(tr)).profile
                     s == p.Settings
                 IN /\ ~tr.t.AllowHTTP
                    /\ tr.t.ReadIdleTimeout = knob("ReadIdleTimeout", IdleTier(p.WindowUpdate))
                    /\ 6 \in DOMAIN s =>
                         tr.t.MaxHeaderListSize = knob("MaxHeaderListSize", s[6])
                    /\ (3 \in DOMAIN s /\ s[3] # 0) => tr.t.StrictMaxConcurrentStreams
                    /\ Applied(tr) = <<>> /\ 6 \notin DOMAIN s =>
                         tr.t.MaxHeaderListSize = knob("MaxHeaderListSize", 0)
                    /\ Applied(tr) = <<>> /\ 3 \notin DOMAIN s =>
                         ~tr.t.StrictMaxConcurrentStreams
    /\ input.kind = "h2err" => ~GetHTTP2Profile(input.name).ok

\* For every profile, ValidateHTTP2Config and GetConfigurableSettings
\* (part_002 192-256) describe what ConfigureHTTP2Transport does to a fresh
\* transport: each SETTINGS entry of the profile is either honoured by a
\* knob or warned about, never both and never neither; the reported
\* configurable values are the ones applied; no warning repeats.
H2ReportsAgree ==
    input.kind = "h2report" =>
        LET n == input.name
            c == ConfigureHTTP2Transport(NewTransport, n)
            v == ValidateHTTP2Config(n)
            g == GetConfigurableSettings(n)
            s == GetHTTP2Profile(n).profile.Settings
            tag == 1 :> "HEADER_TABLE_SIZE" @@ 2 :> "ENABLE_PUSH"
                   @@ 4 :> "INITIAL_WINDOW_SIZE" @@ 5 :> "MAX_FRAME_SIZE"
            warned(k) == k \in DOMAIN tag /\ \E i \in DOMAIN v.warnings : v.warnings[i] = tag[k]
            honoured(k) ==
                CASE k = 6 -> c.t.MaxHeaderListSize = s[6]
                  [] k = 3 -> c.t.StrictMaxConcurrentStreams = (s[3] # 0)
                  [] k = 2 -> s[2] = 0
                  [] OTHER -> FALSE
        IN /\ v.ok = c.ok /\ g.ok = c.ok
           /\ c.ok =>
                 /\ \A k \in DOMAIN s : honoured(k) # warned(k)
                 /\ g.MaxHeaderListSize = IF 6 \in DOMAIN s THEN <<c.t.MaxHeaderListSize>> ELSE <<>>
                 /\ g.StrictMaxConcurrentStreams = c.t.StrictMaxConcurrentStreams
                 /\ \A i, j \in DOMAIN v.warnings : i # j => v.warnings[i] # v.warnings[j]

-----------------------------------------------------------------------------
(***************************************************************************)
(* Properties the code is found to violate.                                *)
(***************************************************************************)

\* ParseJA4String (ja4.go 120-166) returns a fingerprint or an error for
\* every string; it never panics.
JA4ParseNeverPanics ==
    input.kind = "ja4parse" => ParseJA4String(input.s).status # "panic"

\* BuildClientHelloSpecFromFile (part_001 40-189), the dialer's fallback for
\* the clientHelloSpecFile source, emits extensions in the order of the
\* file's extension array, as spec section 4.5 step 3 says of a descriptor.
FileBuildKeepsOrder ==
    input.kind = "file" =>
        LET out == BuildClientHelloSpecFromFile(input.file, input.serverName).Extensions
        IN \A i, j \in DOMAIN out : i < j => out[i].src < out[j].src

\* What GenerateJA4 produces, String() formats and ParseJA4String reads back
\* as the same fields (the round trip of the JA4 tests).
JA4RoundTrip ==
    input.kind = "ja4" =>
        LET fp == GenerateJA4(input.data)
            back == ParseJA4String(JA4String(fp))
        IN back.status = "ok" /\ back.fp = fp
=============================================================================
