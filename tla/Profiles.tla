------------------------------ MODULE Profiles ------------------------------
(***************************************************************************)
(* The browser profile catalog of internal/util/fingerprint/profiles.go:  *)
(* BrowserProfiles keyed by name, with the JA3 and JA4 strings of each    *)
(* entry (Name and UserAgent are display text and left out), and the      *)
(* getters that look a name up in it.                                     *)
(***************************************************************************)
EXTENDS Naturals, Sequences, TLC

\* BrowserProfiles, lines 13-191.
BrowserProfiles ==
    "chrome_modern" :> [JA3 |-> "771,4865-4866-4867-49195-49199-49196-49200-52393-52392-49171-49172-156-157-47-53,0-23-65281-10-11-35-16-5-13-18-51-45-43-27-21,29-23-24,0",
                        JA4 |-> "t13d1715h2_8daaf6152771_02713d6af862"] @@
    "chrome_108" :> [JA3 |-> "771,4865-4866-4867-49195-49199-49196-49200-52393-52392-49171-49172-156-157-47-53,0-23-65281-10-11-35-16-5-13-18-51-45-43-27-17513-21,29-23-24,0",
                     JA4 |-> "t13d1516h2_8daaf6152771_e5627efa2ab1"] @@
    "firefox_latest" :> [JA3 |-> "771,4865-4867-4866-49195-49199-52393-52392-49196-49200-49162-49161-49171-49172-156-157-47-53,0-23-65281-10-11-35-16-5-51-43-13-45-28-21,29-23-24-25-256-257,0",
                         JA4 |-> "t13d1517h2_5b57614c22b0_3d5424432c57"] @@
    "firefox_102" :> [JA3 |-> "771,4865-4867-4866-49195-49199-52393-52392-49196-49200-49162-49161-49171-49172-156-157-47-53,0-23-65281-10-11-35-16-5-51-43-13-45-28-21,29-23-24-25,0",
                      JA4 |-> "t13d1515h2_5b57614c22b0_cd85d2d88918"] @@
    "safari_17" :> [JA3 |-> "771,4865-4866-4867-49196-49195-52393-49200-49199-52392-49162-49161-49172-49171-157-156-53-47-49160-49170-10,0-23-65281-10-11-16-5-13-18-51-45-43-27-21,29-23-24-25,0",
                    JA4 |-> "t13d1714h2_9e7b989ebec8_4e5db9f566cb"] @@
    "safari_ios_17" :> [JA3 |-> "771,4865-4866-4867-49196-49195-52393-49200-49199-52392-49162-49161-49172-49171-157-156-53-47,0-23-65281-10-11-16-5-13,29-23-24-25,0",
                        JA4 |-> "t13d1312h2_9e7b989ebec8_37e0c9b7f7e5"] @@
    "edge_latest" :> [JA3 |-> "771,4865-4866-4867-49195-49199-49196-49200-52393-52392-49171-49172-156-157-47-53,0-23-65281-10-11-35-16-5-13-18-51-45-43-27-21,29-23-24,0",
                      JA4 |-> "t13d1715h2_8daaf6152771_02713d6af862"] @@
    "android_chrome" :> [JA3 |-> "771,4865-4866-4867-49195-49199-49196-49200-52393-52392-49171-49172-156-157-47-53,0-23-65281-10-11-35-16-5-13-51-45-43-27-21,29-23-24,0",
                         JA4 |-> "t13d1614h2_8daaf6152771_a7f0724e1fa9"] @@
    "okhttp_android" :> [JA3 |-> "771,4865-4866-4867-49195-49199-49196-49200-52393-52392-49171-49172-156-157-47-53,0-23-65281-10-11-35-16-5-13,29-23-24,0",
                         JA4 |-> "t13d1413h2_8daaf6152771_224e4e1f2d0a"] @@
    "chrome_98" :> [JA3 |-> "771,4865-4866-4867-49195-49199-49196-49200-52393-52392-49171-49172-156-157-47-53,0-23-65281-10-11-35-16-5-13-18-51-45-43-27,29-23-24,0",
                    JA4 |-> "t13d1615h2_8daaf6152771_b0da82dd1658"] @@
    "firefox_91" :> [JA3 |-> "771,4865-4867-4866-49195-49199-52393-52392-49196-49200-49162-49161-49171-49172-156-157-47-53,0-23-65281-10-11-35-16-5-51-43-13-45-28,29-23-24-25,0",
                     JA4 |-> "t13d1514h2_5b57614c22b0_e7c285222651"] @@
    "curl_latest" :> [JA3 |-> "771,4865-4866-4867-49195-49199-49196-49200-52393-52392-49171-49172-156-157-47-53,0-23-65281-10-11-35-16-5-13,29-23-24,0",
                      JA4 |-> "t13d1413h2_8daaf6152771_2a623c22973b"] @@
    "python_requests" :> [JA3 |-> "771,4866-4867-4865-49200-49196-49192-49188-49172-49162-159-107-57-52393-52392-52394-65413-196-136-129-157-61-53-132-49199-49195-49191-49187-49171-49161-158-103-51-190-69-156-60-47-186-65-49169-49159-5-4-49170-49160-22-10-255,11-10-35-22-23-13-43-45-51,29-23-30-25-24,0-1-2",
                          JA4 |-> "t13d3222h2_bca230a689ed_a4ad957c2b9b"] @@
    "go_http" :> [JA3 |-> "771,4865-4866-4867-49195-49199-49196-49200-52393-52392-49171-49172-156-157-47-53,0-23-65281-10-11-35-16-5-13,29-23-24,0",
                  JA4 |-> "t13d1413h2_8daaf6152771_3b786b34c4ab"] @@
    "brave_browser" :> [JA3 |-> "771,4865-4866-4867-49195-49199-49196-49200-52393-52392-49171-49172-156-157-47-53,0-23-65281-10-11-35-16-5-13-18-51-45-43-27-21,29-23-24,0",
                        JA4 |-> "t13d1715h2_8daaf6152771_02713d6af862"] @@
    "samsung_internet" :> [JA3 |-> "771,4865-4866-4867-49195-49199-49196-49200-52393-52392-49171-49172-156-157-47-53,0-23-65281-10-11-35-16-5-13-51-45-43-27-21,29-23-24,0",
                           JA4 |-> "t13d1614h2_8daaf6152771_e1a4b2c5d3f6"] @@
    "firefox_android" :> [JA3 |-> "771,4865-4867-4866-49195-49199-52393-52392-49196-49200-49162-49161-49171-49172-156-157-47-53,0-23-65281-10-11-35-16-5-51-43-13-45-28-21,29-23-24-25,0",
                          JA4 |-> "t13d1515h2_5b57614c22b0_8f7e6d5c4b3a"] @@
    "safari_ipad" :> [JA3 |-> "771,4865-4866-4867-49196-49195-52393-49200-49199-52392-49162-49161-49172-49171-157-156-53-47,0-23-65281-10-11-16-5-13,29-23-24-25,0",
                      JA4 |-> "t13d1312h2_9e7b989ebec8_2a1b3c4d5e6f"] @@
    "opera_gx" :> [JA3 |-> "771,4865-4866-4867-49195-49199-49196-49200-52393-52392-49171-49172-156-157-47-53,0-23-65281-10-11-35-16-5-13-18-51-45-43-27-21,29-23-24,0",
                   JA4 |-> "t13d1715h2_8daaf6152771_f2e3d4c5b6a7"] @@
    "vivaldi" :> [JA3 |-> "771,4865-4866-4867-49195-49199-49196-49200-52393-52392-49171-49172-156-157-47-53,0-23-65281-10-11-35-16-5-13-18-51-45-43-27-21,29-23-24,0",
                  JA4 |-> "t13d1715h2_8daaf6152771_a9b8c7d6e5f4"] @@
    "tor_browser" :> [JA3 |-> "771,4865-4867-4866-49195-49199-52393-52392-49196-49200-49162-49161-49171-49172-156-157-47-53,0-23-65281-10-11-35-16-5-51-43-13-45-28-21,29-23-24-25,0",
                      JA4 |-> "t13d1515h2_5b57614c22b0_1f2e3d4c5b6a"] @@
    "yandex_browser" :> [JA3 |-> "771,4865-4866-4867-49195-49199-49196-49200-52393-52392-49171-49172-156-157-47-53,0-23-65281-10-11-35-16-5-13-18-51-45-43-27-21,29-23-24,0",
                         JA4 |-> "t13d1715h2_8daaf6152771_c1d2e3f4a5b6"] @@
    "uc_browser" :> [JA3 |-> "771,4865-4866-4867-49195-49199-49196-49200-52393-52392-49171-49172-156-157-47-53,0-23-65281-10-11-35-16-5-13,29-23-24,0",
                     JA4 |-> "t13d1413h2_8daaf6152771_7a8b9c0d1e2f"] @@
    "whale_browser" :> [JA3 |-> "771,4865-4866-4867-49195-49199-49196-49200-52393-52392-49171-49172-156-157-47-53,0-23-65281-10-11-35-16-5-13-18-51-45-43-27-21,29-23-24,0",
                        JA4 |-> "t13d1715h2_8daaf6152771_3d4e5f6a7b8c"] @@
    "edge_mobile" :> [JA3 |-> "771,4865-4866-4867-49195-49199-49196-49200-52393-52392-49171-49172-156-157-47-53,0-23-65281-10-11-35-16-5-13-51-45-43-27-21,29-23-24,0",
                      JA4 |-> "t13d1614h2_8daaf6152771_9e8f7d6c5b4a"] @@
    "opera_mobile" :> [JA3 |-> "771,4865-4866-4867-49195-49199-49196-49200-52393-52392-49171-49172-156-157-47-53,0-23-65281-10-11-35-16-5-13-51-45-43-27-21,29-23-24,0",
                       JA4 |-> "t13d1614h2_8daaf6152771_5f6e7d8c9b0a"] @@
    "duckduckgo_browser" :> [JA3 |-> "771,4865-4866-4867-49195-49199-49196-49200-52393-52392-49171-49172-156-157-47-53,0-23-65281-10-11-35-16-5-13,29-23-24,0",
                             JA4 |-> "t13d1413h2_8daaf6152771_b0c1d2e3f4a5"] @@
    "ecosia_browser" :> [JA3 |-> "771,4865-4866-4867-49195-49199-49196-49200-52393-52392-49171-49172-156-157-47-53,0-23-65281-10-11-35-16-5-13-18-51-45-43-27-21,29-23-24,0",
                         JA4 |-> "t13d1715h2_8daaf6152771_6e7f8a9b0c1d"] @@
    "maxthon_browser" :> [JA3 |-> "771,4865-4866-4867-49195-49199-49196-49200-52393-52392-49171-49172-156-157-47-53,0-23-65281-10-11-35-16-5-13,29-23-24,0",
                          JA4 |-> "t13d1413h2_8daaf6152771_4d5e6f7a8b9c"]

\* GetBrowserProfile, lines 194-197: the entry and whether it exists.
GetBrowserProfile(name) ==
    IF name \in DOMAIN BrowserProfiles
    THEN [profile |-> BrowserProfiles[name], ok |-> TRUE]
    ELSE [ok |-> FALSE]

\* A plausible copy-paste slip among the getters: GetBrowserJA3 returns the
\* entry's JA4.
GetBrowserJA3ReturnsJA4(name) ==
    IF name \in DOMAIN BrowserProfiles THEN BrowserProfiles[name].JA4 ELSE ""

\* GetBrowserJA3 and GetBrowserJA4, lines 200-213: "" for an unknown name.
GetBrowserJA3(name) ==
    IF name \in DOMAIN BrowserProfiles THEN BrowserProfiles[name].JA3 ELSE ""

GetBrowserJA4(name) ==
    IF name \in DOMAIN BrowserProfiles THEN BrowserProfiles[name].JA4 ELSE ""

\* ListBrowserProfiles, lines 224-230, as the set of names (map order is
\* unspecified in Go).
ListBrowserProfiles == DOMAIN BrowserProfiles
=============================================================================
