----------------------------- MODULE Http2Config ----------------------------
(***************************************************************************)
(* The HTTP/2 transport configurator of src/unnamed/part_002: a profile's  *)
(* observable knobs applied to a mutable http2.Transport, the two         *)
(* constructors and the client built on them, and the reports of what can *)
(* and cannot be honoured.  A transport is the record of the knobs the     *)
(* code touches; TLS configuration and the http.Client beyond its timeout  *)
(* are left out.  Durations are whole seconds.                             *)
(***************************************************************************)
EXTENDS Integers, Sequences, TLC

\* HTTP2ProfilesDB (http2_config_test.go 503-739), in the fields the
\* configurator reads: the SETTINGS map, the initial WINDOW_UPDATE, whether
\* Priority is non-nil, and the pseudo-header order.  Name, Fingerprint and
\* HeaderTableSize are not read by it.  SETTINGS ids are those of RFC 9113:
\* 1 HEADER_TABLE_SIZE, 2 ENABLE_PUSH, 3 MAX_CONCURRENT_STREAMS,
\* 4 INITIAL_WINDOW_SIZE, 5 MAX_FRAME_SIZE, 6 MAX_HEADER_LIST_SIZE.
\* The 26 entries share six distinct values.
H2Profile(settings, window, priority, order) ==
    [Settings |-> settings, WindowUpdate |-> window, Priority |-> priority,
     PseudoHeaderOrder |-> order]

ChromeH2 == H2Profile(1 :> 65536 @@ 2 :> 0 @@ 3 :> 100 @@ 4 :> 6291456 @@ 6 :> 262144,
                      15663105, TRUE, "m,a,s,p")
FirefoxH2 == H2Profile(1 :> 65536 @@ 2 :> 0 @@ 4 :> 131072 @@ 5 :> 16384,
                       12517377, TRUE, "m,p,a,s")
SafariH2 == H2Profile(2 :> 0 @@ 3 :> 100 @@ 4 :> 6291456 @@ 6 :> 262144,
                      15663105, TRUE, "m,a,s,p")

HTTP2ProfilesDB ==
    [n \in {"chrome_120", "chrome_108", "edge_120", "android_chrome",
            "brave_browser", "samsung_internet", "opera_gx", "vivaldi",
            "yandex_browser", "uc_browser", "whale_browser", "edge_mobile",
            "opera_mobile", "duckduckgo_browser", "ecosia_browser",
            "maxthon_browser"} |-> ChromeH2]
    @@ [n \in {"firefox_120", "firefox_102", "firefox_android", "tor_browser"}
          |-> FirefoxH2]
    @@ [n \in {"safari_17", "safari_ios_17", "safari_ipad"} |-> SafariH2]
    @@ ("curl_latest" :> H2Profile(2 :> 0 @@ 3 :> 100 @@ 4 :> 1048576,
                                   1048576, FALSE, "m,a,s,p"))
    @@ ("go_http" :> H2Profile(3 :> 100 @@ 4 :> 1048576 @@ 6 :> 262144,
                               1048576, FALSE, "m,a,s,p"))
    @@ ("okhttp_android" :> H2Profile(1 :> 65536 @@ 2 :> 1 @@ 3 :> 1000 @@ 4 :> 6291456,
                                      10485760, FALSE, "m,a,s,p"))

\* GetHTTP2Profile, lines 826-829: an exact map lookup, no case folding.
GetHTTP2Profile(name) ==
    IF name \in DOMAIN HTTP2ProfilesDB
    THEN [ok |-> TRUE, profile |-> HTTP2ProfilesDB[name]]
    ELSE [ok |-> FALSE]

\* The zero http2.Transport, in the fields the configurator touches.
NewTransport ==
    [MaxHeaderListSize |-> 0, StrictMaxConcurrentStreams |-> FALSE,
     ReadIdleTimeout |-> 0, PingTimeout |-> 0, AllowHTTP |-> FALSE,
     DisableCompression |-> FALSE]

\* Lines 36-42: the idle timeout tier of the initial WINDOW_UPDATE.
IdleTimeoutFor(windowUpdate) ==
    CASE windowUpdate > 10000000 -> 30
      [] windowUpdate > 1000000  -> 15
      [] OTHER                   -> 10

\* ConfigureHTTP2Transport, lines 15-58: a setting the profile lacks leaves
\* the transport's knob as it was.
ConfigureHTTP2Transport(t, name) ==
    LET r == GetHTTP2Profile(name)
        s == r.profile.Settings
    IN IF ~r.ok THEN [ok |-> FALSE, t |-> t]
       ELSE [ok |-> TRUE,
             t |-> [t EXCEPT
                     !.MaxHeaderListSize = IF 6 \in DOMAIN s THEN s[6] ELSE @,
                     !.StrictMaxConcurrentStreams = IF 3 \in DOMAIN s THEN s[3] > 0 ELSE @,
                     !.ReadIdleTimeout = IdleTimeoutFor(r.profile.WindowUpdate),
                     !.AllowHTTP = FALSE]]

\* GetHTTP2Transport, lines 61-71.
GetHTTP2Transport(name) ==
    LET c == ConfigureHTTP2Transport(NewTransport, name)
    IN IF c.ok THEN c ELSE [ok |-> FALSE]

\* An optional override (a Go pointer): <<>> for nil, <<v>> otherwise.
Override(v, o) == IF o = <<>> THEN v ELSE o[1]

\* Lines 90-92: a nil config is the zero config.
ConfigOrZero(config) ==
    IF config.nil
    THEN [config EXCEPT !.ProfileName = "", !.MaxHeaderListSize = <<>>,
                        !.ReadIdleTimeout = <<>>, !.PingTimeout = <<>>,
                        !.DisableCompression = FALSE, !.AllowHTTP = FALSE]
    ELSE config

\* Lines 100-105: the profile applied when one is named.
WithProfile(t, cfg) ==
    IF cfg.ProfileName # "" THEN ConfigureHTTP2Transport(t, cfg.ProfileName)
    ELSE [ok |-> TRUE, t |-> t]

\* Lines 107-116: the non-nil overrides.
WithOverrides(t, cfg) ==
    [t EXCEPT !.MaxHeaderListSize = Override(@, cfg.MaxHeaderListSize),
              !.ReadIdleTimeout = Override(@, cfg.ReadIdleTimeout),
              !.PingTimeout = Override(@, cfg.PingTimeout)]

\* Lines 94-98: the fresh transport.
Fresh(cfg) == [NewTransport EXCEPT !.DisableCompression = cfg.DisableCompression,
                                   !.AllowHTTP = cfg.AllowHTTP]

\* A plausible slip in NewHTTP2Transport: the overrides are written into the
\* fresh transport before the profile is applied, so the profile wins.
NewHTTP2TransportOverridesFirst(config) ==
    LET cfg == ConfigOrZero(config)
        c == WithProfile(WithOverrides(Fresh(cfg), cfg), cfg)
    IN IF ~c.ok THEN [ok |-> FALSE] ELSE c

\* NewHTTP2Transport, lines 89-119: profile first, then the overrides.
NewHTTP2Transport(config) ==
    LET cfg == ConfigOrZero(config)
        c == WithProfile(Fresh(cfg), cfg)
    IN IF ~c.ok THEN [ok |-> FALSE] ELSE [ok |-> TRUE, t |-> WithOverrides(c.t, cfg)]

\* NewHTTP2Client, lines 157-189: the HTTP/2 profile defaults to the browser
\* profile; a positive ReadIdleTimeout replaces the heuristic one.
NewHTTP2Client(config) ==
    LET name == IF config.HTTP2Profile = "" THEN config.BrowserProfile ELSE config.HTTP2Profile
        g == GetHTTP2Transport(name)
    IN IF config.nil \/ ~g.ok THEN [ok |-> FALSE]
       ELSE [ok |-> TRUE,
             t |-> IF config.ReadIdleTimeout > 0
                   THEN [g.t EXCEPT !.ReadIdleTimeout = config.ReadIdleTimeout]
                   ELSE g.t,
             Timeout |-> IF config.RequestTimeout > 0 THEN config.RequestTimeout ELSE 0]

\* A plausible slip in ValidateHTTP2Config: the MAX_FRAME_SIZE check is lost.
H2ChecksNoFrameSize(p) ==
    LET s == p.Settings
    IN << <<"HEADER_TABLE_SIZE", 1 \in DOMAIN s>>,
          <<"ENABLE_PUSH", 2 \in DOMAIN s /\ s[2] # 0>>,
          <<"INITIAL_WINDOW_SIZE", 4 \in DOMAIN s>>,
          <<"WINDOW_UPDATE", p.WindowUpdate # 0 /\ p.WindowUpdate # 65535>>,
          <<"PSEUDO_HEADER_ORDER", p.PseudoHeaderOrder # "" /\ p.PseudoHeaderOrder # "m,a,s,p">>,
          <<"PRIORITY", p.Priority>> >>

\* Lines 200-227: the checks of ValidateHTTP2Config, each a warning and
\* whether it fires, in order.
H2Checks(p) ==
    LET s == p.Settings
    IN << <<"HEADER_TABLE_SIZE", 1 \in DOMAIN s>>,
          <<"ENABLE_PUSH", 2 \in DOMAIN s /\ s[2] # 0>>,
          <<"INITIAL_WINDOW_SIZE", 4 \in DOMAIN s>>,
          <<"MAX_FRAME_SIZE", 5 \in DOMAIN s>>,
          <<"WINDOW_UPDATE", p.WindowUpdate # 0 /\ p.WindowUpdate # 65535>>,
          <<"PSEUDO_HEADER_ORDER", p.PseudoHeaderOrder # "" /\ p.PseudoHeaderOrder # "m,a,s,p">>,
          <<"PRIORITY", p.Priority>> >>

\* ValidateHTTP2Config, lines 192-230: one warning per unhonoured setting.
ValidateHTTP2Config(name) ==
    LET r == GetHTTP2Profile(name)
        fired == SelectSeq(H2Checks(r.profile), LAMBDA c : c[2])
    IN IF ~r.ok THEN [ok |-> FALSE]
       ELSE [ok |-> TRUE, warnings |-> [i \in DOMAIN fired |-> fired[i][1]]]

\* GetConfigurableSettings, lines 233-256: a missing setting reads as 0.
GetConfigurableSettings(name) ==
    LET r == GetHTTP2Profile(name)
        s == r.profile.Settings
    IN IF ~r.ok THEN [ok |-> FALSE]
       ELSE [ok |-> TRUE,
             MaxHeaderListSize |-> IF 6 \in DOMAIN s THEN <<s[6]>> ELSE <<>>,
             StrictMaxConcurrentStreams |-> (IF 3 \in DOMAIN s THEN s[3] ELSE 0) > 0]
=============================================================================
