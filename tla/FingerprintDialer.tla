-------------------------- MODULE FingerprintDialer --------------------------
(***************************************************************************)
(* DialTLSWithFingerprint and UpgradeConnWithFingerprint of                *)
(* internal/util/fingerprint: the deadline precheck, the raw connection,   *)
(* the choice of ClientHello source (JSON file > JA3 > browser profile >   *)
(* HelloChrome_Auto), the file path through ParseClientHelloJSON with the  *)
(* global spec cache and the fallback loader, ApplyPreset and the          *)
(* handshake.  Several goroutines dial at once while another process       *)
(* rewrites the ClientHello JSON file.                                     *)
(*                                                                         *)
(* The global cache has the default configuration (TTL 0, 1000 entries),   *)
(* which never evicts the few keys here; SpecCache shows that such a       *)
(* cache behaves as an atomic map, so it is a map here: the file's mtime   *)
(* second (the only part of the file key that varies) to a spec.           *)
(***************************************************************************)
EXTENDS Naturals, FiniteSets, GoStrings

CONSTANTS
    Callers,          \* goroutines calling Dial/Upgrade
    Configs,          \* the TLSDialerConfigs callers use
    Contents,         \* well-formed JSON contents the file can hold
    InitialFiles,     \* what the file holds at start (Contents, Absent)
    Catalog,          \* names of BrowserProfiles (profiles.go)
    AtomicWrites,     \* the writer replaces the file in one step
    SameSecondWrites, \* the writer may rewrite it twice in a second
    MaxTime,          \* bound on the clock, in seconds
    MaxCalls,         \* bound on the calls of each goroutine
    MaxWrites,        \* bound on the rewrites of the file
    NoDeadline, Torn, Absent, NoKey, NoSpec

\* A ClientHelloSpec, by the builder that made it and what it was built
\* from: BuildClientHelloSpecFromJSON ("json") or BuildClientHelloSpecFromFile
\* ("file") of a file content, BuildClientHelloSpecFromJA3 ("ja3") of a JA3
\* string or of a catalog profile's JA3.
Specs == [builder : {"json", "file"}, from : Contents]
         \cup [builder : {"ja3"}, from : {"ja3"} \cup Catalog]

HelloIDs == {"HelloCustom", "HelloChrome_Auto", "HelloFirefox_Auto",
             "HelloSafari_Auto", "HelloEdge_Auto", "HelloIOS_Auto",
             "HelloAndroid_11_OkHttp"}

VARIABLES
    file,     \* what the ClientHello JSON file holds: a content, Torn, Absent
    mtime,    \* its modification time, in whole seconds
    writes,   \* rewrites so far
    cache,    \* cache[s]: the spec cached under the key of mtime second s
    now,      \* the clock, in seconds
    pc,       \* pc[t]: where goroutine t is
    op,       \* op[t]: "dial" or "upgrade"
    cfg,      \* cfg[t]: the TLSDialerConfig of t's call
    key,      \* key[t]: the cache key t computed, or NoKey
    spec,     \* spec[t]: customSpec
    hello,    \* hello[t]: clientHelloID
    conn,     \* conn[t]: the raw connection: "none", "open", "closed"
    outcome,  \* outcome[t]: how t's last call returned
    calls,    \* calls[t]: calls t has made
    held      \* ghost: held[t], the contents the file had during t's call

vars == <<file, mtime, writes, cache, now, pc, op, cfg, key, spec, hello,
          conn, outcome, calls, held>>
callerVars == <<pc, op, cfg, key, spec, hello, conn, outcome, calls, held>>

JsonSpec(c) == [builder |-> "json", from |-> c]
FileSpec(c) == [builder |-> "file", from |-> c]
JA3Spec(j) == [builder |-> "ja3", from |-> j]

\* ja3.GetUTLSClientHelloID: an exact switch on the lowercased name giving
\* the built-in uTLS profile of a family, and HelloChrome_Auto otherwise.
GetUTLSClientHelloID(profile) ==
    LET p == ToLower(profile) IN
    CASE p \in {"chrome", "chrome_auto"}   -> "HelloChrome_Auto"
      [] p \in {"firefox", "firefox_auto"} -> "HelloFirefox_Auto"
      [] p \in {"safari", "safari_auto"}   -> "HelloSafari_Auto"
      [] p \in {"edge", "edge_auto"}       -> "HelloEdge_Auto"
      [] p \in {"ios", "ios_auto"}         -> "HelloIOS_Auto"
      [] p \in {"android", "android_auto"} -> "HelloAndroid_11_OkHttp"
      [] OTHER                             -> "HelloChrome_Auto"

\* ctx.Deadline() is set and time.Until(deadline) <= 0.
DeadlinePassed(d) == d # NoDeadline /\ d <= now

\* Return from the call with an error; Dial closes the raw connection it
\* opened (rawConn.Close()), Upgrade leaves the caller's connection alone.
Fail(t) ==
    /\ outcome' = [outcome EXCEPT ![t] = "error"]
    /\ conn' = IF op[t] = "dial" /\ conn[t] = "open"
               THEN [conn EXCEPT ![t] = "closed"] ELSE conn
    /\ pc' = [pc EXCEPT ![t] = "idle"]

Goto(t, p) == pc' = [pc EXCEPT ![t] = p]

Init ==
    /\ file \in InitialFiles
    /\ mtime = 0
    /\ writes = 0
    /\ cache = [s \in 0..MaxTime |-> NoSpec]
    /\ now = 0
    /\ pc = [t \in Callers |-> "idle"]
    /\ op = [t \in Callers |-> "dial"]
    /\ cfg = [t \in Callers |-> CHOOSE c \in Configs : TRUE]
    /\ key = [t \in Callers |-> NoKey]
    /\ spec = [t \in Callers |-> NoSpec]
    /\ hello = [t \in Callers |-> "HelloCustom"]
    /\ conn = [t \in Callers |-> "none"]
    /\ outcome = [t \in Callers |-> "none"]
    /\ calls = [t \in Callers |-> 0]
    /\ held = [t \in Callers |-> {}]

\* A new call of goroutine t with config c; its ghost history starts with
\* what the file holds now.
StartCall(t, o, c) ==
    /\ pc[t] = "idle" /\ calls[t] < MaxCalls
    /\ op' = [op EXCEPT ![t] = o]
    /\ cfg' = [cfg EXCEPT ![t] = c]
    /\ calls' = [calls EXCEPT ![t] = @ + 1]
    /\ key' = [key EXCEPT ![t] = NoKey]
    /\ spec' = [spec EXCEPT ![t] = NoSpec]
    /\ held' = [held EXCEPT ![t] = {file}]

(***************************************************************************)
(* DialTLSWithFingerprint, lines 889-899: the deadline precheck returns    *)
(* context.DeadlineExceeded before any I/O.                                *)
(***************************************************************************)
BeginDial(t, c) ==
    /\ StartCall(t, "dial", c)
    /\ conn' = [conn EXCEPT ![t] = "none"]
    /\ \/ /\ DeadlinePassed(c.deadline)
          /\ outcome' = [outcome EXCEPT ![t] = "timeout"]
          /\ Goto(t, "idle")
       \/ /\ ~DeadlinePassed(c.deadline)
          /\ outcome' = [outcome EXCEPT ![t] = "none"]
          /\ Goto(t, "connect")
    /\ UNCHANGED <<file, mtime, writes, cache, now, hello>>

(***************************************************************************)
(* Lines 901-914: DialContext, which fails by itself or once the deadline  *)
(* has passed, then SetDeadline on the new connection (which cannot fail   *)
(* on a connection just dialed).                                           *)
(***************************************************************************)
Connect(t) ==
    /\ pc[t] = "connect"
    /\ \/ /\ outcome' = [outcome EXCEPT ![t] = "error"]
          /\ Goto(t, "idle")
          /\ UNCHANGED conn
       \/ /\ ~DeadlinePassed(cfg[t].deadline)
          /\ conn' = [conn EXCEPT ![t] = "open"]
          /\ Goto(t, "select")
          /\ UNCHANGED outcome
    /\ UNCHANGED <<file, mtime, writes, cache, now, op, cfg, key, spec, hello,
                   calls, held>>

(***************************************************************************)
(* UpgradeConnWithFingerprint, lines 1031-1045, on the caller's open       *)
(* connection: the same precheck, then SetDeadline, whose error (a closed  *)
(* connection, say) ends the call without closing rawConn.                 *)
(***************************************************************************)
BeginUpgrade(t, c) ==
    /\ StartCall(t, "upgrade", c)
    /\ conn' = [conn EXCEPT ![t] = "open"]
    /\ \/ /\ DeadlinePassed(c.deadline)
          /\ outcome' = [outcome EXCEPT ![t] = "timeout"]
          /\ Goto(t, "idle")
       \/ /\ c.deadline # NoDeadline /\ ~DeadlinePassed(c.deadline)
          /\ outcome' = [outcome EXCEPT ![t] = "error"]
          /\ Goto(t, "idle")
       \/ /\ ~DeadlinePassed(c.deadline)
          /\ outcome' = [outcome EXCEPT ![t] = "none"]
          /\ Goto(t, "select")
    /\ UNCHANGED <<file, mtime, writes, cache, now, hello>>

(***************************************************************************)
(* Lines 929-987: the ClientHello source by precedence.  A JSON file goes  *)
(* on to ParseClientHelloJSON; a JA3 string, or the JA3 of a catalog       *)
(* profile, is parsed and built; any other profile name is mapped by       *)
(* GetUTLSClientHelloID; no source at all is HelloChrome_Auto.             *)
(***************************************************************************)
Select(t) ==
    /\ pc[t] = "select"
    /\ LET c == cfg[t] IN
       \/ /\ c.file
          /\ hello' = [hello EXCEPT ![t] = "HelloCustom"]
          /\ Goto(t, "stat")
          /\ UNCHANGED <<spec, conn, outcome>>
       \/ /\ ~c.file /\ c.ja3 = "malformed"
          /\ Fail(t)
          /\ UNCHANGED <<spec, hello>>
       \/ /\ ~c.file /\ c.ja3 = "valid"
          /\ spec' = [spec EXCEPT ![t] = JA3Spec("ja3")]
          /\ hello' = [hello EXCEPT ![t] = "HelloCustom"]
          /\ Goto(t, "apply")
          /\ UNCHANGED <<conn, outcome>>
       \/ /\ ~c.file /\ c.ja3 = "" /\ c.profile \in Catalog
          /\ spec' = [spec EXCEPT ![t] = JA3Spec(c.profile)]
          /\ hello' = [hello EXCEPT ![t] = "HelloCustom"]
          /\ Goto(t, "apply")
          /\ UNCHANGED <<conn, outcome>>
       \/ /\ ~c.file /\ c.ja3 = "" /\ c.profile \notin Catalog \cup {""}
          /\ hello' = [hello EXCEPT ![t] = GetUTLSClientHelloID(c.profile)]
          /\ Goto(t, "apply")
          /\ UNCHANGED <<spec, conn, outcome>>
       \/ /\ ~c.file /\ c.ja3 = "" /\ c.profile = ""
          /\ hello' = [hello EXCEPT ![t] = "HelloChrome_Auto"]
          /\ Goto(t, "apply")
          /\ UNCHANGED <<spec, conn, outcome>>
    /\ UNCHANGED <<file, mtime, writes, cache, now, op, cfg, key, calls, held>>

\* Bug: a file key without the modification time.
StatPathOnly(t) ==
    /\ pc[t] = "stat"
    /\ \/ /\ file = Absent
          /\ key' = [key EXCEPT ![t] = NoKey]
          /\ Goto(t, "read")
       \/ /\ file # Absent
          /\ key' = [key EXCEPT ![t] = 0]
          /\ Goto(t, "get")
    /\ UNCHANGED <<file, mtime, writes, cache, now, op, cfg, spec, hello,
                   conn, outcome, calls, held>>

(***************************************************************************)
(* ParseClientHelloJSON, lines 49-50, and CacheKeyForFile: os.Stat, and    *)
(* the key "file:<path>:<ModTime().Unix()>"; no key if Stat fails.         *)
(***************************************************************************)
Stat(t) ==
    /\ pc[t] = "stat"
    /\ \/ /\ file = Absent
          /\ key' = [key EXCEPT ![t] = NoKey]
          /\ Goto(t, "read")
       \/ /\ file # Absent
          /\ key' = [key EXCEPT ![t] = mtime]
          /\ Goto(t, "get")
    /\ UNCHANGED <<file, mtime, writes, cache, now, op, cfg, spec, hello,
                   conn, outcome, calls, held>>

\* Lines 51-57: a hit in the global cache is the spec.
CacheGet(t) ==
    /\ pc[t] = "get"
    /\ \/ /\ cache[key[t]] # NoSpec
          /\ spec' = [spec EXCEPT ![t] = cache[key[t]]]
          /\ Goto(t, "apply")
       \/ /\ cache[key[t]] = NoSpec
          /\ Goto(t, "read")
          /\ UNCHANGED spec
    /\ UNCHANGED <<file, mtime, writes, cache, now, op, cfg, key, hello,
                   conn, outcome, calls, held>>

(***************************************************************************)
(* Lines 59-73: os.ReadFile, json.Unmarshal and                            *)
(* BuildClientHelloSpecFromJSON, which never fails.  A missing or          *)
(* half-written file is an error, and the dialer falls back (line 936).    *)
(***************************************************************************)
ReadFile(t) ==
    /\ pc[t] = "read"
    /\ \/ /\ file \in Contents
          /\ spec' = [spec EXCEPT ![t] = JsonSpec(file)]
          /\ Goto(t, IF key[t] # NoKey THEN "store" ELSE "apply")
       \/ /\ file \notin Contents
          /\ Goto(t, "reload")
          /\ UNCHANGED spec
    /\ UNCHANGED <<file, mtime, writes, cache, now, op, cfg, key, hello,
                   conn, outcome, calls, held>>

\* Lines 75-81: cache.Set under the key computed before the read.
CacheStore(t) ==
    /\ pc[t] = "store"
    /\ cache' = [cache EXCEPT ![key[t]] = spec[t]]
    /\ Goto(t, "apply")
    /\ UNCHANGED <<file, mtime, writes, now, op, cfg, key, spec, hello,
                   conn, outcome, calls, held>>

\* Bug: the fallback returns its error without closing the connection.
ReloadNoClose(t) ==
    /\ pc[t] = "reload"
    /\ \/ /\ file \in Contents
          /\ spec' = [spec EXCEPT ![t] = FileSpec(file)]
          /\ Goto(t, "apply")
          /\ UNCHANGED <<conn, outcome>>
       \/ /\ file \notin Contents
          /\ outcome' = [outcome EXCEPT ![t] = "error"]
          /\ Goto(t, "idle")
          /\ UNCHANGED <<spec, conn>>
    /\ UNCHANGED <<file, mtime, writes, cache, now, op, cfg, key, hello,
                   calls, held>>

\* Bug: the fallback's spec is stored in the cache as well.
ReloadCached(t) ==
    /\ pc[t] = "reload"
    /\ \/ /\ file \in Contents
          /\ spec' = [spec EXCEPT ![t] = FileSpec(file)]
          /\ Goto(t, IF key[t] # NoKey THEN "store" ELSE "apply")
          /\ UNCHANGED <<conn, outcome>>
       \/ /\ file \notin Contents
          /\ Fail(t)
          /\ UNCHANGED spec
    /\ UNCHANGED <<file, mtime, writes, cache, now, op, cfg, key, hello,
                   calls, held>>

(***************************************************************************)
(* Lines 936-948: the fallback reads the file again with                   *)
(* LoadClientHelloSpecFromFile and builds with BuildClientHelloSpecFromFile;*)
(* if that read fails too the dial closes the connection.                  *)
(***************************************************************************)
Reload(t) ==
    /\ pc[t] = "reload"
    /\ \/ /\ file \in Contents
          /\ spec' = [spec EXCEPT ![t] = FileSpec(file)]
          /\ Goto(t, "apply")
          /\ UNCHANGED <<conn, outcome>>
       \/ /\ file \notin Contents
          /\ Fail(t)
          /\ UNCHANGED spec
    /\ UNCHANGED <<file, mtime, writes, cache, now, op, cfg, key, hello,
                   calls, held>>

\* Lines 989-998: UClient, and ApplyPreset of a custom spec, which may fail.
Apply(t) ==
    /\ pc[t] = "apply"
    /\ \/ /\ Goto(t, "handshake")
          /\ UNCHANGED <<conn, outcome>>
       \/ /\ spec[t] # NoSpec
          /\ Fail(t)
    /\ UNCHANGED <<file, mtime, writes, cache, now, op, cfg, key, spec, hello,
                   calls, held>>

\* Lines 1000-1006: HandshakeContext succeeds only before the deadline.
Handshake(t) ==
    /\ pc[t] = "handshake"
    /\ \/ /\ ~DeadlinePassed(cfg[t].deadline)
          /\ outcome' = [outcome EXCEPT ![t] = "ok"]
          /\ Goto(t, "idle")
          /\ UNCHANGED conn
       \/ Fail(t)
    /\ UNCHANGED <<file, mtime, writes, cache, now, op, cfg, key, spec, hello,
                   calls, held>>

(***************************************************************************)
(* The process that rewrites the ClientHello JSON file.  os.WriteFile      *)
(* truncates the file and then writes it, so a reader in between finds a  *)
(* file that is not JSON; a rename replaces it in one step.  Both steps    *)
(* set the mtime.                                                          *)
(***************************************************************************)
Observed(f) == [t \in Callers |-> IF pc[t] = "idle" THEN held[t]
                                  ELSE held[t] \cup {f}]

MayWrite == writes < MaxWrites /\ (SameSecondWrites \/ mtime < now)

TruncateFile ==
    /\ ~AtomicWrites /\ MayWrite /\ file # Torn
    /\ file' = Torn
    /\ mtime' = now
    /\ writes' = writes + 1
    /\ held' = Observed(Torn)
    /\ UNCHANGED <<cache, now, pc, op, cfg, key, spec, hello, conn, outcome,
                   calls>>

FillFile(c) ==
    /\ file = Torn
    /\ file' = c
    /\ mtime' = now
    /\ held' = Observed(c)
    /\ UNCHANGED <<writes, cache, now, pc, op, cfg, key, spec, hello, conn,
                   outcome, calls>>

ReplaceFile(c) ==
    /\ AtomicWrites /\ MayWrite /\ c # file
    /\ file' = c
    /\ mtime' = now
    /\ writes' = writes + 1
    /\ held' = Observed(c)
    /\ UNCHANGED <<cache, now, pc, op, cfg, key, spec, hello, conn, outcome,
                   calls>>

Tick ==
    /\ now < MaxTime
    /\ now' = now + 1
    /\ UNCHANGED <<file, mtime, writes, cache, callerVars>>

\* Every goroutine has made its calls and returned.
Done ==
    /\ \A t \in Callers : pc[t] = "idle" /\ calls[t] = MaxCalls
    /\ UNCHANGED vars

Next ==
    \/ \E t \in Callers :
         \/ \E c \in Configs : BeginDial(t, c) \/ BeginUpgrade(t, c)
         \/ Connect(t) \/ Select(t) \/ Stat(t) \/ CacheGet(t)
         \/ ReadFile(t) \/ CacheStore(t) \/ Reload(t) \/ Apply(t)
         \/ Handshake(t)
    \/ TruncateFile
    \/ \E c \in Contents : FillFile(c) \/ ReplaceFile(c)
    \/ Tick
    \/ Done

Spec == Init /\ [][Next]_vars

-----------------------------------------------------------------------------
(***************************************************************************)
(* Properties.                                                             *)
(***************************************************************************)
Pcs == {"idle", "connect", "select", "stat", "get", "read", "store",
        "reload", "apply", "handshake"}

\* Family words of the registry's fallback mapping (spec 4.4).
FamilyWords == {"chrome", "firefox", "safari", "edge", "ios", "android"}

Returned(t) == pc[t] = "idle" /\ outcome[t] # "none"

\* Types; and the cache only ever holds what BuildClientHelloSpecFromJSON
\* built, never a spec of the fallback loader.
TypeOK ==
    /\ file \in Contents \cup {Torn, Absent}
    /\ mtime \in 0..MaxTime /\ now \in 0..MaxTime
    /\ writes \in 0..MaxWrites
    /\ cache \in [0..MaxTime -> {JsonSpec(c) : c \in Contents} \cup {NoSpec}]
    /\ pc \in [Callers -> Pcs]
    /\ op \in [Callers -> {"dial", "upgrade"}]
    /\ cfg \in [Callers -> Configs]
    /\ key \in [Callers -> 0..MaxTime \cup {NoKey}]
    /\ spec \in [Callers -> Specs \cup {NoSpec}]
    /\ hello \in [Callers -> HelloIDs]
    /\ conn \in [Callers -> {"none", "open", "closed"}]
    /\ outcome \in [Callers -> {"none", "ok", "error", "timeout"}]
    /\ calls \in [Callers -> 0..MaxCalls]
    /\ held \in [Callers -> SUBSET (Contents \cup {Torn, Absent})]

\* Who owns the raw connection when a call returns (spec 4.7, step 6):
\* a dial that fails at any stage after DialContext has closed the
\* connection it opened, a successful dial hands it to the TLS connection
\* open, and an upgrade never closes the caller's connection.
RawConnOwnership ==
    \A t \in Callers : Returned(t) =>
        (conn[t] = "open" <=> (op[t] = "upgrade" \/ outcome[t] = "ok"))

\* A handshake from the JSON file uses what BuildClientHelloSpecFromJSON
\* makes of a content the file held at some moment during the call (spec
\* 8.7: a changed file is not served from the cache), whatever the cache,
\* the fallback loader and the writer did meanwhile.
FileSpecFresh ==
    \A t \in Callers : Returned(t) /\ outcome[t] = "ok" /\ cfg[t].file =>
        spec[t] \in {JsonSpec(c) : c \in held[t] \cap Contents}

\* A browser profile that is neither in the catalog nor a family word is
\* an UnknownProfile error (spec 4.5, failure modes), not a handshake
\* under some other browser's fingerprint.
UnknownProfileRejected ==
    \A t \in Callers :
        (Returned(t) /\ outcome[t] = "ok" /\ ~cfg[t].file /\ cfg[t].ja3 = "")
            => cfg[t].profile \in Catalog \cup FamilyWords \cup {""}
=============================================================================
