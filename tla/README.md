# TLA+ models of the Find My Device backend (wmf)

This directory holds TLA+ models of the backend's storage engine
(`src/unnamed/part_001`, package `storage`, type `pgStore`) and of its HAWK
request authenticator (`src/src/mozilla.org/wmf/hawk.go`).
The models are checked with TLC. `PROJECT.json` lists every component, run,
mutant, source mapping, finding and hazard.

## 1. Inventory

### Components and their state

| Component | Source | State | Operations |
|---|---|---|---|
| Nonce Store | part_001 700-770 | table `nonce(key, val, time)` | `GetNonce`, `CheckNonce`; `genSig` (md5 checksum) |
| Command Queue | part_001 379-403, 473-505, 652-663 | table `pendingCommands(id, deviceid, type, cmd, time)`; `deviceInfo.lastExchange` via `Touch` | `StoreCommand`, `GetPending`, `PurgeCommands` |
| Position Tracker | part_001 339-376, 539-614 | table `position(id, deviceid, time, lat, lon, alt, acc)` | `SetDeviceLocation`, `PurgePosition`, `GetPositions`, `GcDatabase` |
| Device Registry | part_001 224-337, 405-470, 507-536, 616-650 | tables `deviceInfo`, `userToDeviceMap` | `RegisterDevice`, `GetDeviceInfo`, `GetUserFromDevice`, `GetDevicesForUser` (re-key), `SetAccessToken`, `SetDeviceLock`, `Touch`, `DeleteDevice` |
| Meta | part_001 179-221, 665-694 | table `meta(key, value)` | `Init`, `markDb`, `getMeta`, `setMeta` |
| Hawk Authenticator | hawk.go | fields of a `Hawk` value, filled step by step | `GenNonce`, `AsHeader`, `getFullPath`, `getHostPort`, `genHash`, `GenerateSignature`, `ParseAuthHeader`, `Compare` |
| Store opening, DDL | part_001 83-176 | configuration only | `OpenPostgres`, `applyPostgresUpdates` (not modelled) |
| Browser tests | `static/test/functional/lock.js`, part_000 | none | UI click-through tests (not modelled) |

### How the components interact

The storage components share one thing: the Postgres database. Each request
runs on its own goroutine and calls `pgStore` methods. Those methods issue
SQL statements through the `database/sql` pool, and each statement is its own
autocommit transaction. No method opens a transaction or takes a lock, and
there is no in-process shared state. So the hard behaviour is **how the
statements of concurrent requests interleave**, and **what happens when one
statement of several fails**. Many statement errors are ignored:

* `CheckNonce` ignores errors from its purge and its delete.
* `GetPending` ignores errors from its delete and from `Touch`.
* `SetDeviceLocation` ignores the error from `PurgePosition`.

The handlers outside `src/` (HTTP routes) call the Hawk authenticator on a
request, then the nonce store and the device/command/position operations.
The spec places those handlers out of scope.

### What is hard

* Multi-statement read-then-write sequences with no transaction:
  * `CheckNonce`: select, then delete.
  * `StoreCommand`: update, then insert if zero rows were affected.
  * `GetPending`: select, then delete by id.
  * `SetDeviceLocation`: purge, then insert.
  * `RegisterDevice`: select, then two inserts.
  * `GetDevicesForUser`: re-key update, then select.
  * `DeleteDevice`: four deletes.
* Ignored errors in the middle of those sequences.
* Time: the nonce window (5 minutes) and the position expiry (`defExpry`),
  with strict comparisons at the boundary.
* Ordering: `order by time` with `limit 1`. This appears in `GetPending`
  (oldest first) and `GetPositions` (also ascending, so the oldest row).
* In hawk.go:
  * The header the signer writes must parse back the same way.
  * Fields are filled lazily: a value already set is not recomputed.

### What makes each component correct

* Nonce store: a nonce is accepted only if it was issued, at most once, and
  not after it expired.
* Command queue:
  * There is at most one row per (device, type).
  * A store replaces the payload.
  * A pop hands out the oldest row exactly once.
  * A successful store is never silently lost.
* Position tracker:
  * There is one position row per device.
  * `GetPositions` returns the latest report.
* Device registry:
  * There is one deviceInfo row per device and one mapping per
    (user, device).
  * No device row exists without a mapping.
  * A re-key leaves no mapping under the old id.
  * A deleted device leaves no rows behind.
* Hawk: sign-then-verify succeeds. Changing the body, path or secret makes
  verification fail. A header parses into the fields it was built from.

The hazards in `PROJECT.json` list, at the line where each bites, what can go
wrong and which property covers it.

## 2. Plan

Order (most important behaviour first). Items 1-5 and 8 are done; 6, 7 and 9
are left.

1. **NonceStore** + abstract **NonceSpec**: replay protection.
2. **CommandQueue** + abstract **CommandSpec**: exactly-once command
   delivery.
3. **PositionTracker** + abstract **PositionSpec**: latest-only positions
   and GC.
4. **DeviceRegistry**: register (select, update or insert, insert mapping),
   the re-key of `GetDevicesForUser`, `SetAccessToken`, `SetDeviceLock`,
   `Touch`, `DeleteDevice` (four deletes, stopping at the first error) and
   the join of `GetDeviceInfo`.
5. **HawkAuth**: the header as a sequence of tokens, `AsHeader`,
   `ParseAuthHeader`, the lazy fields of `GenerateSignature`, `getHostPort`,
   `genHash`, `Compare`; a spec-4.1 client and the spec-4.2 verification.
6. **Storage**: compose DeviceRegistry, CommandQueue and PositionTracker over
   one database, so that `DeleteDevice` races `StoreCommand` and
   `SetDeviceLocation`. Property: no rows outlive their device. Also a
   concurrent registry run for `MappedHasInfo` (register racing delete).
7. **Authenticated request**: compose HawkAuth with NonceStore (verify, then
   `CheckNonce`) and check that one signed request is served at most once.
8. **Meta** (done): `Init`, `markDb`, `getMeta` and `setMeta` with the
   table and column names each statement uses, composed with CommandQueue
   in **Store**: a store process that runs `Init` first and may stop and
   restart at any step.
9. Injected failures of statements whose errors the code ignores (see
   section 6): each is a one-step violation once admitted; they go in when
   the run budget allows, one run per ignored error.

## 3. Modules

The storage modules follow the same pattern:

* Its tables are VARIABLES: a set of row records.
* A function `worker` holds, for each concurrent request, where it is in its
  sequence of statements and what it has read.
* Each SQL statement is one action. An action's guard is the worker's
  position, and its disjuncts are the statement's outcomes: success, each
  branch of the code after it, and failure where the constant `Faults`
  admits it. `Faults` only holds statements whose error the code checks.
* The clock `now` stands for `dbNow()` / `now()` / `current_timestamp`.
* History variables record what callers observed (`accepts`, `owed`,
  `out`, `latest`, `lastRead`, `lastReg`, `raced`,
  `lastSet`, `lastGet`, `last`, `purged`);
  the properties are stated over them. No action's guard reads one.

Faulty variants of some definitions (named e.g. `PurgedOlder`,
`KeyedByDevice`) sit just before the definition they vary; no specification
uses them. They are the plausible bugs that show each property can fail.

### NonceStore (abstract: NonceSpec)

| Definition | Code |
|---|---|
| `GetNonce(key, val)` | `GetNonce`: two fresh UUIDs, insert, return `key.genSig` |
| `CheckNonceStart(w, n)` | the purge (`Expired`), then the split on `.` |
| `CheckNonceSelect(w)` | `select val ... limit 1`: error, not found, or found |
| `CheckNonceDelete(w)` | delete (`Consumed`); `SigMatches` |

`NonceSpec` has the set of issued strings and a use count for each; a string
may be consumed only if it was issued and never consumed.
`NonceSpecRefined` checks the store against it, mapping the issued strings
to `issued` and the acceptance counts to `uses`.

### CommandQueue (abstract: CommandSpec)

| Definition | Code |
|---|---|
| `StoreCommandUpdate(w, d, c, t)` | the update; error / rows affected / none |
| `StoreCommandInsert(w)` | the insert after zero affected rows |
| `GetPendingSelect(w, d)` | `order by time limit 1`; error, none (`Touch`), found |
| `GetPendingDelete(w)` | delete by id, `Touch`, return |
| `PurgeCommands(w, d)` | delete all of the device's rows |

`CommandSpec` is a map from (device, type) to (payload, time). `Store`
replaces the entry; `Pop` removes the device's oldest entry and reports it;
`Purge` clears the device's entries.

### PositionTracker

| Definition | Code |
|---|---|
| `SetDeviceLocationPurge(w, d, p)` | `PurgePosition` inside `SetDeviceLocation` |
| `SetDeviceLocationInsert(w)` | prepare + insert; errors end the request |
| `PurgePosition(w, d)` | called on its own |
| `GetPositions(w, d)` | `order by time limit 1` ascending; a failed query panics in the deferred `rows.Close()` and changes nothing, so it is a stutter |
| `GcDatabase(w)` | delete rows older than `Expiry` |

`PositionSpec` keeps at most one position per device: `Report` replaces it,
`Forget` drops it (a purge, or a report whose insert failed), `Expire` drops
exactly those older than the window, and `Read` returns it. `PositionSpecRefined` maps the kept position to the device's row,
except while a `SetDeviceLocation` of the device is between its purge and
its insert: the kept position is then the row that purge deleted, held in
the history variable `purged` (no guard reads it). A report thus takes effect
in one step at its insert. The mapping is checked with one worker; with two,
`pos_concurrent` already shows that two rows can coexist.

### DeviceRegistry

State: `info` (deviceInfo rows: id, device, secret, last seen), `map`
(userToDeviceMap rows), serial row ids, the clock.

| Definition | Code |
|---|---|
| `RegisterDeviceSelect(w, u, d, s)` | the lookup of (user, device) in the map |
| `RegisterDeviceUpdate(w)` | found: update secret and time of the device's rows |
| `RegisterDeviceInsertInfo(w)` | not found: insert deviceInfo |
| `RegisterDeviceInsertMap(w)` | then insert the mapping |
| `GetDevicesForUser(w, u, old)` | the re-key update of the mapping from `old` to `u` |
| `SetAccessToken`, `SetDeviceLock`, `Touch` | one update each; only `lastExchange` (`Refreshed`) matters here |
| `DeleteDevice`, `DeleteDeviceNext` | four deletes in the order of `Tables`, stopping at the first error |
| `GetDeviceInfo(w, d)` | the join of deviceInfo with the mapping; records the secret served |
| `GetUserFromDevice(w, d)` | `limit 1` select of a mapping row with no order; records the user served |

The history variable `raced` holds the workers whose `RegisterDevice` had
selected under a user id that a `GetDevicesForUser` then re-keyed away;
`NoResurrectedMapping` says no such worker inserts a mapping under that id.

### HawkAuth

A string is a sequence of symbols. The fixed text that the code splits or
trims (`Hawk `, quotes, `, `, `=`, `;`, `:`) is spelled out symbol by symbol;
a key, method, host, port, nonce or timestamp is one symbol. SHA-256 and
HMAC-SHA256 are collision-free records, and base64 of a digest is the
digest printed as one symbol followed by its `=` pad. `strings.Split`,
`SplitN`, `Trim`, `TrimRight` and `Replace` are operators that do what the
Go functions do (`SplitOn` is RECURSIVE).

| Definition | Code |
|---|---|
| `getFullPath(req)` | path, `?query`, `#fragment` |
| `getHostPort(req, override)` | split `Host` on `:`; the default port when none or overridden |
| `genHash(req, body)` | content type cut at `;`, body escaped (`\` then newline), SHA-256, base64 |
| `Canonical(h, extra)` | the `marshalStr` of `GenerateSignature` |
| `GenerateSignature(h, req, extra, body, secret)` | fill each empty field (`Lazy`), then HMAC |
| `AsHeader(h, req, id, body, extra, secret)` | sign if unsigned; render with the code's separators |
| `ParseAuthHeader(h, req, auth)` | errors, split on `, `, `SplitN` on `=`, trim quotes, then path/host/port from the request |
| `Compare(h, sig)` | equality after trimming trailing `=` |

The verifying side is not in `src/`: `Verify` follows spec 4.2 (parse, take
the claimed `mac`, recompute with the stored secret of the claimed id and
the claimed `ext`, `Compare`). `ClientFields` / `ClientHeader` are a signer
that follows spec 4.1 and 6. The state is one request in flight (`msg`) and
the outcome of its verification (`last`). Actions: `Sign` (by `AsHeader` or
by the spec client, with the device's secret or another), `Tamper` (the
network changes one field once) and `Receive` (verify).

### Meta and Store

`Meta` models the `meta` table, `Init`, `markDb`, `getMeta` and `setMeta`.
State: `meta` (a set of `[key, value]` rows; the only key is `db.ver`),
`hasTable` (whether `sql/create_db.sql` ran), `proc` (`down`, `serving`,
`panicked`) and two history variables (`lastSet`, `lastGet`).

| Definition | Code |
|---|---|
| `Schema`, `Names(t, cols)` | the table comment: a statement runs only if its table and columns exist |
| `InitDb` | `Init`: the version select; a missing table panics before `createDb` is reached; on "no rows" `markDb(DB_VERSION)`, error dropped, and nil |
| `Started(ver)` | `Init`'s tests: `DB_VERSION` serves, "no rows" goes on, anything else panics |
| `MarkDb(ver)` | `markDb`: update of column `val` (which fails), else insert |
| `SetMetaResult`, `SetMeta(k, v)` | `setMeta`: update, and on no row an insert into `met` (which fails), error returned |
| `GetMeta(k)` | `getMeta`: the value, or "" with a nil error |
| `Stop` | the process stops: a crash, or the exit after a panic |

`Store` extends `CommandQueue` and instantiates `Meta` (`M == INSTANCE
Meta`). The queue's actions are enabled only while `proc = "serving"`, i.e.
after `Init` returned nil. `Restart` stops the process: every request in
flight ends where it was (each worker goes back to idle), and every table
keeps its rows. After that `InitDb` runs again on what is left.

## 4. Runs

Each MC module extends its component module. Devices, users, secrets,
workers, types, payloads and positions are model values in the cfgs.

Each component has one passing run, with requests one at a time and every
statement whose error the code checks failing at will, and one or two
violation runs for a disagreement met while modelling. A violation run
checks one property.

| Run | Expect | States | Shows |
|---|---|---|---|
| nonce_sequential | pass | 13,800 | refines NonceSpec (so no forged checksum and no second accept); no expired accept |
| nonce_replay | violation | | two concurrent checks both accept one nonce |
| cmd_sequential (MCStore) | pass | 165,284 | in a store process that restarts at any step: one row per key, no lost command, refines CommandSpec (oldest first); setMeta reads back |
| cmd_lost_update | violation | | a store's update lands on a row being popped: the command is lost |
| pos_sequential | pass | 57,824 | one row per device; GetPositions returns the latest or nothing; refines PositionSpec, so GcDatabase forgets exactly the positions past the window (`<`, not `<=`), a device's only one included |
| pos_concurrent | violation | | two concurrent reports leave two rows; GetPositions returns the older |
| reg_sequential | pass | 453,265 | every mapping has a deviceInfo row, whatever step fails |
| reg_stale_secret | violation | | re-registering under a second user leaves the old owner and the old secret servable |
| reg_rekey_resurrect | violation | | a registration under an old user id inserts its mapping after the re-key moved that id away |
| hawk_verify | pass | 3,073 | sign then verify succeeds; changed method, path, query or secret refused; payload hash and port resolution are right |
| hawk_body_tamper | violation | | a changed body is accepted |
| hawk_asheader | violation | | a request signed by `AsHeader` never verifies |

`PayloadHashBinds` and `PortResolved` are checked over fixed sets of inputs
(every body of up to two symbols from backslash, newline and `n`; three
content types; four Host headers, both schemes, with and without
`override_port`) and over the request in flight.

### Bounds and why they are enough

**Nonce store:**

* Two keys and two values, so two nonces can be live at once.
* A window of 1 tick and a clock up to 3, so a nonce can be fresh, exactly
  at the window edge (kept: the purge compares strictly), or expired, when a
  check starts.
* Inputs: every issued string, every string with a valid key and a wrong
  checksum, and a malformed string.

**Command queue:**

* One device with two types, so `GetPending` must pick by age across keys.
* Two payloads, so a replaced command differs from the one it replaces.
* Clock up to 2, so enqueue times can differ or tie.
* Three row ids: two stores, a re-store after a pop, a duplicate insert.

**Position tracker:** two devices (so row ids of different devices coexist
and device symmetry applies), two positions, clock 3, expiry 1, three ids.

**Device registry:** two users and two secrets (so a device can move to a
second user with a new secret), one device, clock 2, three rows per table.

**Meta:** the versions `v1` (= `DB_VERSION`) and `v0`, and an initial table
that is missing, empty, or holds either version, so every branch of `Init`
happens. `setMeta` writes either version, over an existing row and over
none.

**Hawk:** one device; its secret and one other; two methods, two paths, a
query or none, a lower-case Host without port and an upper-case one with a
port, both schemes, two content types (none, and one with a `;charset`
suffix), two bodies, two `ext` values. Each of these is a choice the code
branches on or transforms.

**Workers:** two workers reach every pairwise race of these two- to
four-statement sequences.

### Fairness

No liveness property is checked. Nothing in these components must
eventually happen by itself: the nonce purge runs only inside `CheckNonce`,
and `GcDatabase` and every request are triggered from outside `src/`. The
one progress claim the code supports is that a request once started
answers: each of its statements is one step that returns a result or an
error, and no code path waits, locks or retries. Under weak fairness of a
worker's in-flight steps that holds by the shape of every module, so it is
not stated as a property. So no fairness is assumed. Deadlock checking is on in every run: an idle worker
can always start a request, and a verified request is followed by a new one.
The store's `Restart` is an action, not a fairness condition: the process may
stop at any step, and nothing makes it stop or start.

## 5. Findings (see PROJECT.json for each)

* `CheckNonce` selects and then deletes in two statements: two concurrent
  checks of one nonce both accept it.
* `GetPending` selects and then deletes by id: a `StoreCommand` whose update
  lands in between is reported stored, and its command is never delivered.
* `SetDeviceLocation` purges and then inserts: two concurrent reports leave
  two rows, and `GetPositions`, ordering ascending, returns the older one.
* `RegisterDevice` looks up by (user, device): registering a device under a
  second user inserts a second deviceInfo row and a second mapping:
  `GetUserFromDevice` (`limit 1`, no order) may name the old user as the
  owner, and `GetDeviceInfo` may serve the old secret.
* `GetDevicesForUser` re-keys the mappings of an old user id in one update
  outside any transaction: a `RegisterDevice` under the old id that selected
  before it inserts its mapping after it, under the retired id (spec 5 asks
  that re-key and list be one transaction).
* `GenerateSignature` keeps a `Hash` that is already set, which on the
  verifying side is the client's claim: the body is not authenticated.
* `AsHeader` omits two `, ` separators and renders the unset `Extra`: its
  headers never verify.
* `GcDatabase` deletes a device's only position when it is past the window,
  as spec 4.6 says (`pos_sequential` checks exactly this). The comments
  above it still say the latest record is kept "so we always have at least
  one position record"; the statement that did so is commented out.

## 6. Not modelled, and abstractions

* Failures of statements whose error the code ignores (`CheckNonce`'s purge
  and delete, `GetPending`'s delete, `SetDeviceLocation`'s purge) are not
  injected. The hazards in `PROJECT.json` name the property each would
  break.
* `GetPending`'s double pop (two polls of one device select the same row)
  and a second delivery after its ignored delete error need two workers or
  an injected fault; with one worker and an infallible delete no pop repeats,
  so no property about it is checked (hazards record both).
* Which schema versions a start accepts is `Init`'s own test; with the
  marker never written, no property about it says more than that test.
* The meta table's version marker: `markDb` names column `val` and its
  error is dropped, so `db.ver` is never written; no property states when
  it must exist (a hazard records it).
* Two concurrent registrations of one device for one user insert two
  mappings, and the re-key can give the new id two mappings of a device:
  both are hazards; the run budget went to the re-key race instead.
* The store process is composed with the command queue only; composing it
  with the registry multiplies a 453,265-state space by the meta states.
* The device list of `GetDevicesForUser` changes no state and no property
  is about it, so it is not an action.
* Plan items 6, 7 and 9 each need runs of their own: 6 and 9 would show
  further failures of the same kind (a delete racing an insert into another
  table, an ignored error), and 7 composes the Hawk model, whose run already
  takes over a minute, with the nonce store. The project keeps twelve runs,
  each a distinct finding or a passing component, so these stay hazards.
* With the run and hazard budgets full, the remaining uncovered hazards
  either need a violation run of their own (the ones above) or are out of
  TLC's reach: the float32 conversions and the config keys of the registry,
  and the panics on a nil `rows`, which the model shows only as an aborted
  request. Every component the code changes state in is modelled, so no
  further module would model code that is not modelled already.
* `OpenPostgres`, `applyPostgresUpdates` and `Close` are process
  startup and DDL tooling; the spec puts them out of scope.
* The browser functional tests are out of scope.
* Logging and metrics calls change no state the code reads.
* `Touch` is folded into the `GetPending` step before it.
* A failed `GetNonce` insert is a stutter: it returns an error and changes
  nothing.
* Hawk: `GenNonce` and the clock give fixed values; URL decoding, IPv6 Host
  literals and the scheme the route handlers pass in are not modelled (each
  is a hazard). The spec client uses the server's `override_port` setting.
* Data: UUIDs, payloads and positions are model values; md5, SHA-256 and
  HMAC are collision free; float32 rounding of positions is not represented.
* Row ids are serial and bounded. Once the bound is reached, an insert takes
  the insert's error path.
