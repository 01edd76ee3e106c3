------------------------------ MODULE FileSpec ------------------------------
(***************************************************************************)
(* BuildClientHelloSpecFromFile (src/unnamed/part_001, package ja3): the   *)
(* ClientHello built from a ClientHelloSpecFile, the dialer's fallback     *)
(* when ParseClientHelloJSON fails.  Some extension objects are emitted    *)
(* where they stand; the payload-carrying ones are collected during the    *)
(* pass and appended after it.  An emitted extension is its utls type and  *)
(* the index of the first object it came from.                             *)
(***************************************************************************)
EXTENDS Integers, Sequences, SequencesExt, GoStrings, WireTables

\* The switch of lines 77-155, in order, and what each case does:
\* "emit" appends where it stands, "collect" gathers a payload, "skip" nothing.
FileCases ==
    << [kw |-> "server_name", act |-> "emit", type |-> "SNI"],
       [kw |-> "supported_groups", act |-> "collect", type |-> "SupportedCurves"],
       [kw |-> "ec_point_formats", act |-> "collect", type |-> "SupportedPoints"],
       [kw |-> "signature_algorithms", act |-> "collect", type |-> "SignatureAlgorithms"],
       [kw |-> "application_layer_protocol_negotiation", act |-> "collect", type |-> "ALPN"],
       [kw |-> "supported_versions", act |-> "collect", type |-> "SupportedVersions"],
       [kw |-> "key_share", act |-> "skip", type |-> "KeyShare"],
       [kw |-> "padding", act |-> "emit", type |-> "UtlsPadding"],
       [kw |-> "session_ticket", act |-> "emit", type |-> "SessionTicket"],
       [kw |-> "extended_master_secret", act |-> "emit", type |-> "ExtendedMasterSecret"],
       [kw |-> "status_request", act |-> "emit", type |-> "StatusRequest"],
       [kw |-> "psk_key_exchange_modes", act |-> "emit", type |-> "PSKKeyExchangeModes"],
       [kw |-> "signed_certificate_timestamp", act |-> "emit", type |-> "SCT"],
       [kw |-> "renegotiation_info", act |-> "emit", type |-> "RenegotiationInfo"] >>

\* The first case whose keyword the name contains, 0 when none does.
FileCase(name) ==
    LET hits == {k \in 1..Len(FileCases) : StrContains(name, FileCases[k].kw)}
    IN IF hits = {} THEN 0 ELSE Min(hits)

\* Lines 93-103: "0x" trimmed and, on two characters, Sscanf "%02x": a
\* leading space is skipped within the width, then the longest hex prefix
\* is read; when no digit is read the point stays 0, and it is appended
\* all the same.
ParsePoint(s) ==
    LET t == IF HasPrefix(s, "0x") THEN SubSeq(s, 3, Len(s)) ELSE s
        d == IF Ch(t, 1) = " " THEN SubSeq(t, 2, 2) ELSE t
        scan(u) == ParseUintHex(u, 8)
        v == IF scan(d).ok THEN scan(d).value
             ELSE IF scan(Ch(d, 1)).ok THEN scan(Ch(d, 1)).value ELSE 0
    IN IF Len(t) # 2 THEN <<>> ELSE <<v>>

\* What an object adds to its case's collected list (lines 85-122).
Gathered(k, ext) ==
    LET ok(rs) == SelectSeq(rs, LAMBDA r : r.ok)
    IN CASE FileCases[k].type = "SupportedCurves" ->
              Len(ok([i \in DOMAIN ext.groups |-> ParseSupportedGroup(ext.groups[i])]))
         [] FileCases[k].type = "SupportedPoints" ->
              Len(FlattenSeq([i \in DOMAIN ext.points |-> ParsePoint(ext.points[i])]))
         [] FileCases[k].type = "SignatureAlgorithms" ->
              Len(ok([i \in DOMAIN ext.sigalgs |-> ParseSignatureAlgorithm(ext.sigalgs[i])]))
         [] FileCases[k].type = "SupportedVersions" ->
              Len(ok([i \in DOMAIN ext.versions |-> ParseTLSVersion(ext.versions[i])]))
         [] OTHER -> 0

\* The direct emissions of the pass (lines 76-155): SNI needs the dial's
\* server name, padding a positive length.
Direct(exts, serverName) ==
    LET emits(i) ==
            LET k == FileCase(exts[i].name)
            IN /\ k # 0 /\ FileCases[k].act = "emit"
               /\ FileCases[k].type = "SNI" => serverName # ""
               /\ FileCases[k].type = "UtlsPadding" => exts[i].padding > 0
        idx == SelectSeq([i \in DOMAIN exts |-> i], emits)
    IN [j \in DOMAIN idx |-> [type |-> FileCases[FileCase(exts[idx[j]].name)].type,
                              src |-> idx[j]]]

\* Lines 157-186: each non-empty collected list appended after the pass, in
\* a fixed order.  ALPN keeps the protocols of the last ALPN object only.
Collected(exts) ==
    LET contributes(t, i) ==
            LET k == FileCase(exts[i].name)
            IN k # 0 /\ FileCases[k].type = t
               /\ IF t = "ALPN" THEN exts[i].protocols # <<>> ELSE Gathered(k, exts[i]) > 0
        srcs(t) == {i \in DOMAIN exts : contributes(t, i)}
        lastALPN == {i \in DOMAIN exts : LET k == FileCase(exts[i].name)
                                          IN k # 0 /\ FileCases[k].type = "ALPN"}
        present(t) == IF t = "ALPN"
                      THEN lastALPN # {} /\ exts[Max(lastALPN)].protocols # <<>>
                      ELSE srcs(t) # {}
        order == <<"SupportedCurves", "SupportedPoints", "SignatureAlgorithms",
                   "SupportedVersions", "ALPN">>
        kept == SelectSeq(order, present)
    IN [j \in DOMAIN kept |->
          [type |-> kept[j],
           src |-> IF kept[j] = "ALPN" THEN Max(lastALPN) ELSE Min(srcs(kept[j]))]]

\* BuildClientHelloSpecFromFile, lines 40-189.
BuildClientHelloSpecFromFile(file, serverName) ==
    LET ciphers == [i \in DOMAIN file.ciphers |-> ParseCipherName(file.ciphers[i])]
        version == ParseTLSVersion(file.tlsVersionRecord)
        v == IF file.tlsVersionRecord # "" /\ version.ok THEN version.id ELSE 0
    IN [TLSVersMin |-> v, TLSVersMax |-> v,
        CipherSuites |-> [i \in DOMAIN SelectSeq(ciphers, LAMBDA r : r.ok) |->
                             SelectSeq(ciphers, LAMBDA r : r.ok)[i].id],
        Extensions |-> Direct(file.extensions, serverName) \o Collected(file.extensions)]
=============================================================================
