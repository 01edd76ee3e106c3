------------------------------ MODULE JA3Codec ------------------------------
(***************************************************************************)
(* The JA3 codec of internal/util/ja3/parser.go and the JA3 path of the    *)
(* ClientHello builder (src/unnamed/part_001, package ja3).  A JA3 is a    *)
(* TLA+ string, split and parsed as the code does; a built extension is    *)
(* the utls type the builder picks for it, with the id it carries.         *)
(***************************************************************************)
EXTENDS Naturals, Sequences, SequencesExt, GoStrings

\* The JA3Data value.
JA3Data(version, ciphers, exts, groups, points) ==
    [Version |-> version, CipherSuites |-> ciphers, Extensions |-> exts,
     SupportedGroups |-> groups, EllipticCurvePoint |-> points]

\* A plausible slip in a list field: the empty-field guard is left out, so
\* strings.Split("", "-") = [""] reaches ParseUint and fails.
ParseListNoEmptyCheck(part, bits) ==
    LET tokens == Split(part, "-")
        parsed == [i \in DOMAIN tokens |-> ParseUint(tokens[i], bits)]
    IN IF \A i \in DOMAIN parsed : parsed[i].ok
       THEN [ok |-> TRUE, values |-> [i \in DOMAIN parsed |-> parsed[i].value]]
       ELSE [ok |-> FALSE]

(***************************************************************************)
(* One list field of ParseJA3 (the four blocks of lines 68-114): an empty  *)
(* field is an empty list; otherwise every "-"-separated token must parse  *)
(* as a bits-wide decimal, and the first that does not fails the parse.    *)
(***************************************************************************)
ParseList(part, bits) ==
    IF part = "" THEN [ok |-> TRUE, values |-> <<>>]
    ELSE LET tokens == Split(part, "-")
             parsed == [i \in DOMAIN tokens |-> ParseUint(tokens[i], bits)]
         IN IF \A i \in DOMAIN parsed : parsed[i].ok
            THEN [ok |-> TRUE, values |-> [i \in DOMAIN parsed |-> parsed[i].value]]
            ELSE [ok |-> FALSE]

\* ParseJA3, lines 51-117.  An empty version field leaves Version 0.
ParseJA3(ja3) ==
    LET parts == Split(ja3, ",")
        version == IF parts[1] = "" THEN [ok |-> TRUE, value |-> 0]
                   ELSE ParseUint(parts[1], 16)
        lists == <<ParseList(parts[2], 16), ParseList(parts[3], 16),
                   ParseList(parts[4], 16), ParseList(parts[5], 8)>>
    IN IF Len(parts) # 5 THEN [ok |-> FALSE]
       ELSE IF ~version.ok \/ \E k \in 1..4 : ~lists[k].ok THEN [ok |-> FALSE]
       ELSE [ok |-> TRUE,
             data |-> JA3Data(version.value, lists[1].values, lists[2].values,
                              lists[3].values, lists[4].values)]

-----------------------------------------------------------------------------
(***************************************************************************)
(* buildExtension, part_001 lines 192-264: the typed utls extension for a  *)
(* recognised id.  Ids 0, 10 and 11 are typed only when their data is     *)
(* there (a server name, groups, point formats); without it, and for any  *)
(* other id, the switch falls through to GenericExtension{Id: extID}.      *)
(***************************************************************************)
TypedExtension ==
    [e \in {0, 5, 10, 11, 13, 16, 18, 21, 23, 35, 43, 45, 51, 65281} |->
        CASE e = 0 -> "SNI" [] e = 5 -> "StatusRequest"
          [] e = 10 -> "SupportedCurves" [] e = 11 -> "SupportedPoints"
          [] e = 13 -> "SignatureAlgorithms" [] e = 16 -> "ALPN"
          [] e = 18 -> "SCT" [] e = 21 -> "UtlsPadding"
          [] e = 23 -> "ExtendedMasterSecret" [] e = 35 -> "SessionTicket"
          [] e = 43 -> "SupportedVersions" [] e = 45 -> "PSKKeyExchangeModes"
          [] e = 51 -> "KeyShare" [] e = 65281 -> "RenegotiationInfo"]

MissingData(extID, data, serverName) ==
    \/ extID = 0 /\ serverName = ""
    \/ extID = 10 /\ data.SupportedGroups = <<>>
    \/ extID = 11 /\ data.EllipticCurvePoint = <<>>

\* A plausible slip: unrecognised ids return nil instead of a generic one.
BuildExtensionNilForUnknown(extID, data, serverName) ==
    IF extID \notin DOMAIN TypedExtension \/ MissingData(extID, data, serverName)
    THEN [type |-> "nil", id |-> extID]
    ELSE [type |-> TypedExtension[extID], id |-> extID]

BuildExtension(extID, data, serverName) ==
    IF extID \notin DOMAIN TypedExtension \/ MissingData(extID, data, serverName)
    THEN [type |-> "Generic", id |-> extID]
    ELSE [type |-> TypedExtension[extID], id |-> extID]

\* BuildClientHelloSpecFromJA3, part_001 lines 13-37: every extension id in
\* order, a nil result skipped.
BuildClientHelloSpecFromJA3(data, serverName) ==
    LET built == [i \in DOMAIN data.Extensions |->
                     BuildExtension(data.Extensions[i], data, serverName)]
    IN [TLSVersMin |-> data.Version, TLSVersMax |-> data.Version,
        CipherSuites |-> data.CipherSuites,
        Extensions |-> SelectSeq(built, LAMBDA x : x.type # "nil")]

-----------------------------------------------------------------------------
(***************************************************************************)
(* serialize of spec section 4.2, which the code lacks: the canonical      *)
(* string "v,c1-c2-...,e1-...,g1-...,p1-...", used as the reference the    *)
(* parser is checked against.                                              *)
(***************************************************************************)
SerializeList(xs) == Join([i \in DOMAIN xs |-> Itoa(xs[i])], "-")

SerializeJA3(d) ==
    Join(<<Itoa(d.Version), SerializeList(d.CipherSuites), SerializeList(d.Extensions),
           SerializeList(d.SupportedGroups), SerializeList(d.EllipticCurvePoint)>>, ",")
=============================================================================
