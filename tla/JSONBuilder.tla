----------------------------- MODULE JSONBuilder ----------------------------
(***************************************************************************)
(* BuildClientHelloSpecFromJSON of internal/util/fingerprint/             *)
(* json_parser.go: ciphers by name, then one pass over the descriptor's    *)
(* extension objects, each dispatched on the first keyword its name        *)
(* contains.  An extension object is its name and the payload fields the  *)
(* control flow reads (server_name, supported_groups, padding length); an  *)
(* emitted extension is its utls type and the index of the object it came *)
(* from.  The payload lists of the other types are left out.               *)
(***************************************************************************)
EXTENDS Integers, Sequences, SequencesExt, GoStrings, WireTables

\* The cases of the switch at lines 109-195, in order.
Keywords ==
    <<"server_name", "supported_groups", "ec_point_formats",
      "application_layer_protocol_negotiation", "signature_algorithms",
      "supported_versions", "key_share", "psk_key_exchange_modes",
      "session_ticket", "status_request", "signed_certificate_timestamp",
      "extended_master_secret", "renegotiation_info", "padding">>

ExtensionType ==
    <<"SNI", "SupportedCurves", "SupportedPoints", "ALPN", "SignatureAlgorithms",
      "SupportedVersions", "KeyShare", "PSKKeyExchangeModes", "SessionTicket",
      "StatusRequest", "SCT", "ExtendedMasterSecret", "RenegotiationInfo",
      "UtlsPadding">>

\* The index of the first case whose keyword the name contains (case 13 also
\* takes "extensionRenegotiationInfo"), 0 when none does.
Dispatch(name) ==
    LET hit(k) == \/ StrContains(name, Keywords[k])
                  \/ k = 13 /\ StrContains(name, "extensionRenegotiationInfo")
        hits == {k \in 1..Len(Keywords) : hit(k)}
    IN IF hits = {} THEN 0 ELSE Min(hits)

\* Whether the case appends an extension: SNI needs a server name, key_share
\* needs a curve collected before it, padding a positive length.
Emits(k, ext, curves) ==
    CASE k = 0 -> FALSE
      [] k = 1 -> ext.serverName # ""
      [] k = 7 -> curves # <<>>
      [] k = 14 -> ext.padding > 0
      [] OTHER -> TRUE

\* The recognised group ids of a supported_groups object (lines 117-121).
Curves(ext) ==
    SelectSeq([i \in DOMAIN ext.groups |-> parseSupportedGroup(ext.groups[i])],
              LAMBDA id : id # 0)

\* The loop of lines 108-196; curves accumulate across objects.
RECURSIVE ExtensionLoop(_, _, _, _)
ExtensionLoop(exts, i, curves, out) ==
    IF i > Len(exts) THEN out
    ELSE LET k == Dispatch(exts[i].name)
             curves2 == IF k = 2 THEN curves \o Curves(exts[i]) ELSE curves
         IN ExtensionLoop(exts, i + 1, curves2,
                          IF Emits(k, exts[i], curves2)
                          THEN Append(out, [type |-> ExtensionType[k], src |-> i])
                          ELSE out)

\* A plausible restructuring slip: supported_groups collected and appended
\* after the loop, as BuildClientHelloSpecFromFile does.
BuildClientHelloSpecFromJSONCurvesLast(ch) ==
    LET out == ExtensionLoop(ch.extensions, 1, <<>>, <<>>)
        isCurves(e) == e.type = "SupportedCurves"
    IN [TLSVersMin |-> 769, TLSVersMax |-> 772,
        CipherSuites |-> SelectSeq([i \in DOMAIN ch.ciphers |->
                                      parseCipherSuiteName(ch.ciphers[i])],
                                   LAMBDA id : id # 0),
        Extensions |-> SelectSeq(out, LAMBDA e : ~isCurves(e))
                          \o SelectSeq(out, isCurves),
        CompressionMethods |-> <<0>>]

\* BuildClientHelloSpecFromJSON, lines 87-202.
BuildClientHelloSpecFromJSON(ch) ==
    [TLSVersMin |-> 769, TLSVersMax |-> 772,
     CipherSuites |-> SelectSeq([i \in DOMAIN ch.ciphers |->
                                   parseCipherSuiteName(ch.ciphers[i])],
                                LAMBDA id : id # 0),
     Extensions |-> ExtensionLoop(ch.extensions, 1, <<>>, <<>>),
     CompressionMethods |-> <<0>>]
=============================================================================
