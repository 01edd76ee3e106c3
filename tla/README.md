# TLA+ models of the fingerprint engine

These modules model the TLS fingerprint engine in
`src/internal/util/fingerprint`, `src/internal/util/ja3` and
`src/unnamed/part_001` and `part_002`, and check the models with TLC. They cover two kinds
of code. The concurrent parts are the spec cache and the dialer. The pure
codecs are GREASE, JA3, JA4, the profile catalog, the name tables, the JSON and file-format builders, and the HTTP/2
transport configurator. `PROJECT.json` lists the components, runs, mutants, the
definition-to-source map, findings and hazards.

## The system and how its parts interact

- **Spec cache** (`LRUCache`, `http2_config_test.go` 1180-1326). A
  hashicorp LRU behind an `RWMutex`, with an optional TTL and three atomic
  counters (hits, misses, evictions).
  - `Get` checks the TTL under the read lock. It then *releases* the read
    lock and takes the write lock to remove an expired entry (1245-1249).
  - `ResetMetrics` stores zero into the three counters one after another,
    with no lock.
  - `GetGlobalCache` builds one process-wide cache with the default config:
    TTL 0 and 1000 entries.
- **Dialer** (`DialTLSWithFingerprint` 889-1007 and
  `UpgradeConnWithFingerprint` 1031-1131).
  1. A deadline precheck.
  2. A TCP dial. `Upgrade` uses the caller's connection instead.
  3. The ClientHello source, by precedence: a JSON file, then a JA3 string,
     then a browser profile (the catalog's JA3, or else
     `GetUTLSClientHelloID`), then `HelloChrome_Auto`.
  4. `ApplyPreset`.
  5. The handshake.

  A file goes through `ParseClientHelloJSON` (`json_parser.go` 47-84). That
  function keys the global cache on `CacheKeyForFile`: the path plus the
  mtime in whole seconds. On a miss it reads and parses the file and stores
  the result. If that fails, the dialer re-reads the file with the
  custom-format loader (`ja3.LoadClientHelloSpecFromFile`) and builds it
  with `BuildClientHelloSpecFromFile`.
- **HTTP/2 configurator** (`part_002`). It applies an HTTP/2 profile's
  configurable knobs to an `http2.Transport`: `MaxHeaderListSize`, strict
  stream limits, the idle timeout and `AllowHTTP`. It also reports the
  SETTINGS that Go's HTTP/2 client cannot honour.
- **Pure codecs.** Each spec source feeds one of them:
  - a JA3 string goes through `ParseJA3` (`ja3/parser.go`), then
    `BuildClientHelloSpecFromJA3` and `buildExtension` (`part_001`);
  - a JSON descriptor goes through `BuildClientHelloSpecFromJSON`
    (`json_parser.go` 87-202), which looks names up in that file's tables;
  - a profile name is looked up in the catalog (`profiles.go`).

  Related code:
  - JA4 (`ja3/ja4.go`) is computed from JA3 data, or from a spec file
    through a third set of name tables.
  - The GREASE helpers (`grease.go`) inject, filter and normalise RFC 8701
    values.

## Modules

| module | models | state | actions |
|---|---|---|---|
| `SpecCache` | `LRUCache` | `recency` (LRU list), `entry`, per-goroutine `pc`/`key`/`seen`/`result`, counters, clock | `GetLookup`, `GetRemove`, `GetCount` (the three critical sections of `Get`), `Set`, `Clear`, `ResetHits`/`ResetMisses`/`ResetEvictions`, `Tick` |
| `AbstractSpecCache` | what spec §4.6 promises: an atomic LRU map | `content`, `order`, `now`, `reply` | `Hit`, `Expire`, `NotFound`, `Store`, `Purge`, `Advance` |
| `FingerprintDialer` | dial/upgrade, `ParseClientHelloJSON`, a file writer | file, mtime, the cache (mtime second → spec), per-caller `pc`/`cfg`/`key`/`spec`/`hello`/`conn`/`outcome` | `BeginDial`, `Connect`, `BeginUpgrade`, `Select`, `Stat`, `CacheGet`, `ReadFile`, `CacheStore`, `Reload`, `Apply`, `Handshake`; writer `TruncateFile`/`FillFile`/`ReplaceFile`; `Tick`, `Done` |
| `MCSpecCache`, `MCFingerprintDialer` | model-checking instances | | config sets such as `AllSources`, `FileOnly`, `ProfilesOnly` |
| `GoStrings` | the Go standard-library string functions the codecs call (`strings.Split`, `Join`, `TrimSpace`, `ToLower`, `Contains`, `strconv.ParseUint`, `Atoi`, `%04x`) | operators only | |
| `Grease` | every function of `grease.go` | operators over sequences | `InjectGREASE` is a RECURSIVE copy of its loop |
| `JA3Codec` | `ParseJA3`, `buildExtension`, `BuildClientHelloSpecFromJA3` | operators over TLA+ strings | |
| `JA4` | `GenerateJA4`, `String`, `ParseJA4String`, `ConvertJA3ToJA4`, `formatTLSVersion`, `determineSNIType`, both hashes | operators | |
| `Profiles` | the 29-entry catalog (name to JA3 and JA4) and its lookups | a function | |
| `WireTables` | the name tables of `json_parser.go`, `ja3/parser.go` and `ja3/ja4.go`, with their normalisations | functions and operators | |
| `JSONBuilder` | `BuildClientHelloSpecFromJSON` | operators | its extension loop is RECURSIVE, one object per step |
| `FileSpec` | `BuildClientHelloSpecFromFile` (`part_001` 40-189), the builder for the custom `ClientHelloSpecFile` format | operators | the switch of the loop as a table of cases, each emitting, collecting or skipping |
| `Http2Config` | `ConfigureHTTP2Transport`, `GetHTTP2Transport`, `NewHTTP2Transport`, `NewHTTP2Client`, `ValidateHTTP2Config`, `GetConfigurableSettings` (`part_002`) | a transport is the record of the knobs the code sets | `HTTP2ProfilesDB` with all 26 entries, in the fields the configurator reads (six distinct values), and `GetHTTP2Profile` as its exact lookup |
| `MCCodecs` | the driver for the codecs | `input`: one input or result record | `Call` runs one codec on any input of the bounded sets from the idle state, and `Return` goes back to it. `ConfigureHTTP2TransportStep` reconfigures a transport already built, up to `MaxH2Configures` times |

**Reduction.** Everything a goroutine does while it holds `c.mu` is one step.
The model keeps the points where the code lets go of the lock:
- between the read-locked lookup and the write-locked `Remove` in `Get`;
- between that `Remove` and the counting;
- between the three `Store`s of `ResetMetrics`, which take no lock.

The atomic counters are single steps.

**Refinement.** `SpecCache` implements `AbstractSpecCache` through a mapping,
checked by the `CacheRefinement` property:
- An entry that a goroutine has found expired, and is about to remove, is
  already gone in the abstract map.
- A `Get` still in its removal steps has already answered a miss.

**Codecs.** The codec functions are pure. Each one is an operator, not an
action: a step of `MCCodecs` picks one input, and the invariants compare
what the operators compute on it with a reference definition written from
the spec. Some of the references are `SerializeJA3`, `WellFormedJA3`,
`RefInject` and `SpecSNIType`.
- Strings are TLA+ strings, handled character by character where the code
  does so.
- Integers keep their width where it matters: `ParseUint(s, 16)` rejects
  65536, and `utls.CurveID(Atoi(...))` is taken `% 65536`.
- SHA-256 is out of TLC's reach. Its 12-hex-digit prefix is replaced by a
  polynomial checksum modulo 46337, a prime whose square fits TLC's
  integers. The checksum is equal on equal strings and distinct on the
  strings hashed here. The properties need only that, plus the 12-character
  length.
- An extension built by `buildExtension` or the JSON builder is its utls
  type plus its id or the index of its source object. The payload bytes are
  left out.

**Data abstraction.**
- A spec is a record of the builder that made it and the file contents (or
  JA3) it came from. TLS bytes are left out.
- Keys, specs, goroutines and contents are model values.
- Times are whole seconds up to `MaxTime`.
- The dialer's cache is the global default cache. With TTL 0 and 1000
  entries it never evicts the handful of keys here and never takes the TTL
  path of `Get`, so every call is one `c.mu` critical section and the
  dialer treats it as an atomic map.
- `ghost` variables record what no code variable holds:
  - `removed`: entries the LRU really dropped;
  - `held`: contents the file had during a call.

## Runs

| run | expect | shows |
|---|---|---|
| `cache_sequential` | pass | With one goroutine, TTL 1 and capacity 2 of 3 keys, `Get`, `Set`, `Clear` and `ResetMetrics` refine the abstract atomic map (`CacheRefinement`). |
| `cache_concurrent` | violation | Two goroutines `Get` the same expired key. Both give up the read lock, the first `Remove` takes the entry out, the second finds nothing, and each counts an eviction: `EvictionCountExact` fails with 2 counted for 1 removed. |
| `cache_ttl_lost_entry` | violation | A `Get` of an expired key waits in its unlock window while another goroutine `Set`s a fresh entry under that key; the waiting `Remove` deletes the fresh entry, which the atomic map never does. Capacity is large enough that `Set` never evicts, so this is the only way the run fails. |
| `dial_conn_ownership` | pass | For every config source, including malformed JA3, unknown profiles, an absent or torn file, and expired deadlines, `Dial` closes its connection on every error and `Upgrade` never closes the caller's. A failed `SetDeadline` on the caller's connection is one of the error paths. |
| `dial_file_fresh` | pass | With atomic replacement at most once a second, a file spec always comes from contents the file had during the call, cache hits included. Two goroutines share the global cache. |
| `dial_same_second_stale` | violation | Two rewrites within one second serve the old spec. |
| `dial_torn_fallback` | violation | A torn read falls back to the other builder on re-read contents. |
| `dial_unknown_profile` | violation | An unknown profile dials as Chrome rather than failing with `UnknownProfile`. |
| `codecs` | pass | Eleven invariants, listed below. |
| `ja4_parse_panic` | violation | `ParseJA4String` checks `len(partA) >= 7` but slices `partA[6:8]`, so the 7-character part A `t13d040` panics. |
| `ja4_ssl3_roundtrip` | violation | A JA4 of an SSL 3.0 hello has version tag `s3`, which `formatTLSVersion` emits and spec section 3 lists, but `ParseJA4String` rejects it. |
| `file_build_order` | violation | `BuildClientHelloSpecFromFile` on a file listing `supported_groups` before `padding` emits padding first, because it appends the collected extensions after its loop. Spec section 4.5 step 3 says the order is the array's. |

The `codecs` invariants:
- `InjectGREASESound`: injection never loses or reorders a value. For
  distinct in-range positions it equals `RefInject`, and
  `GetGREASEPositions` and `CountGREASE` recover the positions.
- `NormalizeIdentifiesGreaseVariants`: two slices normalise equally exactly
  when they differ only in which GREASE value fills a slot.
- `JA3ParseMatchesGrammar`: `ParseJA3` accepts exactly the grammar of spec
  section 6, and inverts serialize on canonical strings.
- `JA3BuildKeepsExtensionOrder`: the JA3 builder emits one extension per
  id, in order, and GREASE ids as `Generic`.
- `JA4PartAMatchesSpec`: the protocol, the SNI kind and the counts clamped
  at `ff` follow spec section 4.3.
- `JA4ExtensionHashOrderFree`: the extension hash is the same for every
  permutation of the extensions.
- `CatalogFingerprintsParse`: every catalog JA3 round-trips and every
  catalog JA4 parses.
- `WireTablesAgree`: two tables that both recognise a name give it the
  same id.
- `JSONBuildKeepsOrder`: the JSON builder keeps the descriptor's array
  order, and emits `key_share` only after a recognised group.
- `H2KnobsFollowProfile`: a transport from `GetHTTP2Transport`,
  `NewHTTP2Transport` or `NewHTTP2Client`, reconfigured or not, holds what
  spec section 4.8 says of the profile applied last: setting 6 copied,
  strict mode when setting 3 is non-zero, the idle-timeout tier of the
  WINDOW_UPDATE, and `AllowHTTP` false. A constructor's override wins over
  its own profile. A fresh transport keeps the zero value of every knob
  that neither the profile nor an override sets. An unknown profile name,
  including `Chrome_120` (the lookup is exact), is an error, and a
  reconfiguration with one leaves the transport alone.
- `H2ReportsAgree`: for every profile name, each SETTINGS entry is either
  applied or warned about by `ValidateHTTP2Config`, never both. No warning
  repeats, and `GetConfigurableSettings` reports what
  `ConfigureHTTP2Transport` sets.

Each property of a passing run has a mutant in `PROJECT.json`. A mutant is a
plausible bug in a mapped action, and TLC finds the property violated with
the mutant in place. Examples: `Touch` without unlinking, a hit that does
not move its key to the front, `Reload` leaking the connection, a cache key
of the path alone, or overrides applied before the profile.

## Bounds

- **Cache.** 3 keys with capacity 2, so that `Set` evicts and LRU order
  matters. 2 specs, so that an overwrite is visible.
  - The clock runs to 3 with TTL 1, so entries expire and fresh ones are
    stored after expiry.
  - Counters are capped at 2 per run (`CounterCap`) for new operations.
  - `Resetters` and `Clearers` name the goroutines that call
    `ResetMetrics` and `Clear`. Nothing in the repository calls either, so
    only the sequential run has them; the two concurrent runs use `Get`
    and `Set` alone, the calls the dialer makes. Their 2 keys fit the
    capacity, so that the only removal is `Get`'s TTL `Remove`.
  - `Done` stutters once the counters and the clock are spent.
- **Dialer.** 1-2 goroutines, each making 2 calls, so that a second call
  hits the first call's cache entry.
  - The all-sources run has one goroutine. Two goroutines with every config
    source do not finish within five minutes. The file runs have two
    goroutines.
  - 2 contents.
  - 1-2 writes, so that the file changes under a call.
  - The clock runs to 2-3 seconds.
  - Deadline 1, so that it passes in the middle of a call.

- **Codecs.**
  - GREASE: sequences of up to 3 values from `{1, 0x0a0a, 0x1a1a}`, and up
    to 2 positions in `0..5`. This includes out-of-range and repeated
    positions, and input that already holds GREASE.
  - JA3: 14 strings. The well-formed ones include GREASE ids and empty
    fields. The malformed ones have wrong field counts, non-digits, a
    leading `-`, a trailing blank, empty tokens, a uint16 overflow
    (`65536`) and a uint8 overflow (`256`).
  - JA4: versions `{768, 771, 772, 1}`. The server names include the empty
    name, a domain, IPv4, IPv6, the all-hex word `cafe`, and
    `fe80::1%eth0`. The cipher lists go up to 300 entries, for the clamp.
    The extension lists include 0 and 16.
  - JA4 strings are 11 good and malformed strings.
  - The catalog: 4 names, one of them unknown.
  - Names: every table key plus variant spellings.
  - JSON: descriptor arrays of up to 3 of 10 extension objects.
  - File: extension arrays of up to 2 of 6 objects (SNI, groups, session
    ticket, key share, ALPN, padding), with and without a dial server name.
    Two are enough to put a collected extension before a direct one.
  - HTTP/2: five of the 26 profiles, which between them cover the six
    distinct values (Chrome, Firefox and Safari families, `go_http` with a
    1 MB window and no PRIORITY, `okhttp_android` with push enabled), the
    name `Chrome_120` in another case and the unknown `opera_100`. A
    transport is reconfigured up to twice, so that a profile without a
    setting follows one with it, and an unknown name follows a known one.

Each violation above is found within these bounds in under 40 steps.

## Fairness

No run checks liveness. Every call of the dialer runs straight-line code
between blocking calls, each of which returns once, with a result or an
error; the fallback read at line 938 is read once and its error ends the
call. A call that returns after a bounded number of steps is what the
model's shape already gives, so a liveness property would show nothing
about the code. The cache takes no lock that another step could hold for
ever: each critical section is one step. `Done` in both modules is an
explicit stuttering step once the bounds are spent, so the end of the
bounded behaviour is not reported as a deadlock.

## Not modelled, and the plan for later work

- **`src/internal/util/ja3/dialer.go`** calls `ParseClientHelloJSON` and
  `GetBrowserJA3` from package `ja3`. Those functions live in package
  `fingerprint`, which imports `ja3`, so the file does not compile.
- **`InitGlobalCache`, `ResetMetrics` and `Clear`** have no callers in the
  repository.
  - The race between `GetGlobalCache`'s `once.Do` and `InitGlobalCache` is
    listed as a hazard, not modelled.
  - The unsynchronised `metricsResetAt` write is also listed as a hazard,
    not modelled.
- **Readers of spec files.** `LoadClientHelloSpecFromFile`, `GetJA3FromJSON`
  and `GetJA4FromJSON` only read a file and return its fields.
  `GetJA4FromClientHelloFile` has no caller in the repository.
  `BuildClientHelloSpecFromFile` is modelled in `FileSpec`.
  - Their name tables are in `WireTables`.
  - The hazard list records that `GetJA4FromClientHelloFile` drops
    server_name, because `extensionNameToID` maps it to 0.
- **The JSON builder** ignores `tls_version_record`, and so does
  `JSONBuilder`. The payload lists of ALPN, versions, signature algorithms
  and point formats are left out, because no property distinguishes them.
  Two payload hazards are listed without a property:
  - the `curves` slice shared across `supported_groups` objects;
  - extensions emitted with empty lists.

  Their rule comes from the TLS encoding, not from the spec, so they are
  left as hazards.
- **`GetHTTP2FingerprintInfo`** only formats text. The rest of `part_002`
  from line 253 is tests that dial real servers.
- **Disagreements kept as hazards.** These were met while modelling and
  are listed as hazards rather than runs:
  - `ResetMetrics` concurrent with `Get` can leave a counter triple no
    instant had. The three stores are three steps of `SpecCache`, but
    nothing in the repository calls `ResetMetrics`;
  - the JA3 builder's `Generic(0)` SNI for an empty server name, which spec
    section 4.5 excludes.
