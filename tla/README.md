# Verification of the MyCodex relay

TLA+ models of the relay server and its command line, model-checked with TLC on
small instances and proved with TLAPS for all values of the constants.
`PROJECT.json` lists the components, the runs, the mutants, the source lines
behind every definition, the hazards and the theorems.

## The system

The relay connects a *host* (a desktop program) with *devices* (phones) of the
same *tenant*. It keeps its state in one SQLite database behind a single
connection, its live sessions in memory, and its keys and configuration in files.

| Part | Source (under `src/internal`) | What it does | Modules |
|---|---|---|---|
| Pairing | `pairing/service.go` | invites, claims, approval, device bindings, revocation | `Pairing`, `Invitation` |
| HTTP handlers | `relay/pairing_handlers.go`, `relay/auth_handlers.go` | read, consume a ticket, run an operation | `Relay`, `Tickets` |
| Authentication | `auth/service.go` | challenge, proof, single-use ticket of one scope | `Auth`, `Tickets` |
| Rate limit | `relay/auth_handlers.go` | challenges per source and minute | `Limiter` |
| Sessions | `relay/server.go` | WebSocket handlers, session tables, routing, drain | `Sessions` |
| Process | `relay/server.go`, `cli/app.go` | listeners, shutdown, timeout, close of the store | `Lifecycle` |
| Frames | `protocol/envelope.go` | parsing, direction rules, read limit | `Frames` |
| Tenants, enrolment | `tenant/service.go`, `host/service.go` | creates, disables and re-keys tenants; fixes the identity of a host | `Directory` |
| Tenant commands | `cli/app.go`, `cli/local_commands.go` | the commands that make secrets and print them | `TenantCommands` |
| Identity file | `security/relay_identity.go` | loads or creates the signing key | `Identity` |
| Store | `store/store.go`, `store/schema.go` | opens, backs up and migrates the database | `Migration`, `Startup` |
| Setup | `security/certificate.go`, `config/config.go`, `cli/` | `local init`, `configure`, `serve` on their files | `Setup` |

How they interact: a host enrols (`Directory`), opens an invite, and approves one
of the claims that devices submit (`Pairing`), which creates the row of the
device. Host and device prove their keys and receive tickets (`Auth`, limited by
`Limiter`); a ticket is consumed by one request (`Relay`) or one WebSocket. A
WebSocket registers in the tables if the device row is active (`Sessions`),
revoking the device changes the row and the tables under one lock, and a signal or
a failing listener drains all of it (`Lifecycle`). Before that, `serve` opens and
migrates the store and loads its identity (`Startup`), from files that other
commands wrote (`Setup`).

The modules are composed where the parts meet. `Relay` extends `Pairing` and
instantiates `Tickets`; `Auth` implements `Tickets`, `Pairing` implements
`Invitation`, `Relay` implements `Pairing`, `Lifecycle` extends `Sessions`,
`Startup` composes `Identity` and `Migration`, and `TenantCommands` extends
`Directory`. Elsewhere a module holds the part of another one's state that
it reads (`row` in `Sessions`, `bound` in `Auth`) and lets it change the way the
other part changes it.

## Modules and code

**Pairing.** `invites`, `claims` and `devices` are the tables. Every operation is
one transaction on the only connection and so one action; `CreateInvite` is two
(`CreateInviteCheck`, `CreateInviteInsert`). Each operation reads the time before
it gets the connection, hence `now \in Nows`, up to `MaxLag` behind the clock.
Operations start with `expirePending`, which is part of the action; one that
fails rolls everything back and is a stuttering step. Key pairs, headers and
ciphertexts are opaque values. An invite id can arrive padded with white space.

**Invitation** is what `Pairing` promises: an invite is opened once and then
closed or won by one claim, for good.

**Relay.** A host's request is received, authorised and carried out in separate
steps. An approval or rejection reads the device id of the claim first
(`ClaimDeviceID`), then `authorizeTicket` consumes a ticket for a scope with that
device, then the operation runs. Other requests, tenant commands and restarts come
in between, and a ticket stays consumed if the operation fails. Requests of devices
carry the token of their claim instead of a ticket.

**Tickets** is what authentication promises: a ticket has one scope, authorises one
request, and only while its subject is active.

**Auth.** No operation uses a transaction, so a step is one statement. A crash or
a failing insert may come between any two. Signatures are external: a request
carries a challenge the relay issued, and the key it was signed with.

**Limiter.** `allowChallenge` runs under a lock but reads the clock before it.
`allowed` is the history of what was let through: for each source the window, the
place in the window, and the time.

**Sessions.** `hosts` and `devices` are the tables under `s.mu`; `pc` says where
the handler of a socket is, with one step per critical section, read, write or
close. `frame` is what `validateSenderFrame` let through; `routeFrame` is two
steps (`LookUpTarget`, `WriteRaw`) because it writes after it has released the
lock. `closers` holds the goroutines of `closeSessions`. Close codes are left
out. Ids are sequences of characters, so that `deviceKey` is the concatenation
that the code computes.

**Lifecycle** adds the `serve` goroutine of each listener, `beginShutdown`,
`http.Server.Shutdown` (external: it waits for requests, but not for connections
that `websocket.Accept` took over), the timeout, `serveBoth`, and the close of the
store after `Serve` has returned.

**Frames** computes what `Sessions` takes as given: whether a message is cut off by
the read limit, refused by a parser, refused by `validateSenderFrame`, or routed.
A message is known by how often each field occurs, by the fields that are compared,
and by its length; the checks of single fields are one Boolean (`form`).

**Directory.** `EnrollHost` is three steps: the tenant secret, the tenant's flag,
and the transaction. `ensure-tenant` lists and creates in two.
**TenantCommands** are the commands as processes that write first and print
afterwards; only a hash is stored, so what is not printed is lost. `pairOK` says
whether `localInfoFromConfig` succeeds, and may change at any time
(`PairChanges`): `local ensure-tenant` calls it before it writes and again before
it prints, `info --json` only before it prints. `shaken` are the running
`local ensure-tenant` in whose run the pair stopped loading.

**Identity.** Read, generate, write to a temporary file, sync, rename, listen. A
power loss can undo a rename that was not flushed and tear a file that was never
synced. **Migration** is `store.Open`: look for the old schema, look for a backup,
copy, drop and create. **Startup** puts the two in the order of `runServe`; only a
relay that serves writes rows.

**Setup.** Every step is one call to the file system, which may fail, and a process
may be killed between two. That includes `os.Remove` on the error paths, whose
error the code discards, and `Close` on a certificate that is already valid on the
disk; `mishaps` records kills and failures of these two kinds. A key and a
certificate are known by the generation that made them.

Storage errors are early returns that leave no trace, and are stuttering steps,
except where they leave something behind (`Auth`, `Relay`, `Identity`,
`Migration`, `Setup`).

## Runs

| Run | Instance | Shows |
|---|---|---|
| `pairing_race` | 1 invite, 3 claims, 2 devices, clock to 3, lag 1 | `PendingClaimHasOpenInvite`, `OneWinner`, `SettledStaysSettled`, `ApprovedInTime`, `ImplementsInvitation` |
| `pairing_rebind` | 2 hosts with equal ids, 2 invites, 2 claims, 1 device, 3 keys, 2 binding versions, padded ids | `DevicesMatchApprovals`, `DeviceChangesAreAuthorised`, `OneScopePerStep` |
| `pairing_padded` | 1 invite, 1 claim, padded ids | violation, see Findings |
| `relay` | 2 requests, 3 tickets, 2 claims of 2 devices, the purposes that change rows | `EffectsAreAuthorised`, `DisabledRunsDry`, `ImplementsPairing` |
| `sessions` | 2 connections of a host, 1 of a device, 2 routes | `RegisteredIsActive`, `EvictedIsClosing`, `EvictionIsFinal`, `DeviceHearsOneHost`, `FramesStayOnKey`, `EvictionsComplete` |
| `sessions_slash` | 1 connection of a host, 1 of a device, 2 routes with slashes in their ids | violation, see Findings |
| `lifecycle` | 2 listeners with a request each, 1 WebSocket | `CleanStopIsQuiet`, `StoreOutlivesHandlers`, `ErrorsSurface`, `StopsInTheEnd` |
| `auth` | 2 requests, 2 challenges, 2 tickets, a host and a device scope, lifetime 1, lag 1, clock to 3 | `GrantsAreEarned`, `GrantedInTime`, `ImplementsTickets` |
| `commands`, files | 2 processes, 2 generations, every kind of listener flag but one | `SavedConfigStarts`, `ReportedIsPresented`, `NoHalfPairLeft` |
| `commands`, tables | 2 commands, 2 tenants, 2 secrets, 2 enrolments with different identities | `CommandsTypeOK`, `StoredSecretIsKnown`, `ConfirmedIsStored`, `EnrolmentsRunDry` |
| `admission`, challenges | 2 sources for 1 place, limit 2, window 3, lag 1, clock to 10 | `TableBounded`, `BurstBound` |
| `admission`, messages | quotas of -1, 0, 1, 2, the maximum and one more; messages of each type at the bounds of each | `RoutedIsSpoken`, `LimitAdmitsFrames` |
| `frames_quota` | the same messages under a quota of -1 | violation, see Findings |
| `startup` | 3 processes, 3 keys, an old or a new database | `StartupTypeOK`, `NeverTorn`, `IdentityIsStable`, `LegacyIsKept`, `CurrentRowsSurvive` |

`commands` and `admission` each check two parts that share no variable. Every
behaviour is one of either part (`part` in `MCCommands` and `MCAdmission`), so the
state space is the sum of the two and not their product.

Each property has a mutant in `PROJECT.json`: a plausible bug in a definition that
makes the property fail under the same configuration.

**Why the bounds are enough.** A race needs two actors and, where a third can
interfere, a bystander: three claims for one invite, two connections that replace
each other and a peer, two relays that create the identity and one that reads it.
Two commands at a time meet in every order, and each may run again after the other,
so that a reader follows two writers; two generations allow a pair to be removed and
made anew, two secrets a creation and a rotation. In the runs about time the clock passes what the property is about: the expiry of an
invite (`pairing_race`), two lifetimes and the lag (`auth`), three windows
(`admission`). `relay` keeps the clock at zero, because `pairing_race` is about expiry
and `ImplementsPairing` carries it over. `MaxLag = 1` gives fresh and stale
readings. `commands` leaves out the padded host, see Exceptions. Symmetry is used in
safety runs only, over ids that the specification only compares. What the small
instances cannot show, the theorems do.

**Fairness.** `sessions` assumes weak fairness of every handler step that does not
wait for its remote end, of the goroutines of `closeSessions`, and of the one that
waits for the wait group. Go runs every goroutine that is not blocked, writes have a
timeout, and a close of the library ends by itself. `lifecycle` assumes only that
the `serve` goroutines run and that their timeout expires in the end, and nothing of
handlers: `StopsInTheEnd` holds even if all of them hang. Nothing is assumed of
remote ends, of revocation, or of a shutdown being asked for. `lifecycle` runs
without the deadlock check, because the process ends.

## Theorems

All theorems hold for every number of ids, processes, sockets, messages and time
units. They rest on the `ASSUME`s of the modules, which say that `Null` (or
`Absent`) is not a row, that bounds are numbers, and that some sets are finite;
every other hypothesis is part of the statement. The invariants below were model-checked
before they were proved.

### Pairing (`PairingProofs`, `InvitationProofs`)

- `PairingTypeCorrect`, `InviteHasOneWinner`, `DevicesAlwaysMatch`. `OneWinner` is
  inductive with `TypeOK` because it says that an invite is consumed *exactly* when
  it has a winner: a second approval would need a pending invite. Every step is
  either *quiet* (it approves and consumes nothing, `StepKinds`) or an approval,
  whose effect `ApprovalFacts` states once. An approval adds a binding larger than
  all earlier ones, a quiet step at most revokes.
- `SettledRowsStay`, `EveryApprovalIsInTime`, `EveryDeviceChangeIsAuthorised`,
  `EveryStepIsIsolated` are action properties, from `TypeOK` and what each
  operation does to a single row.
- `PendingClaimsAreBacked`: a pending claim has an invite with the *same expiry*
  that is pending, or that was cancelled by a padded id. The expiry is the
  strengthening: the sweep takes the invite and the claim in the same step.
  `EveryPendingClaimHasOpenInvite` follows if hosts send ids without padding.
- `PairingImplementsInvitation`: the refinement, step by step; the sweep is `Close`,
  an approval `Win`, and no claim wins twice.

### Handlers (`RelayProofs`)

- `RelayImplementsPairing`: every handler step is a step of `Pairing` or leaves its
  tables alone. `RelayPairsSafely` transfers `OneWinner` and
  `DevicesMatchApprovals`.
- `RelayTypeCorrect` includes `RequestsOK`: what a request read before it was
  authorised (the device of its claim) is still true when it acts, because a claim
  never changes its host or device.
- `RelayIsAuthorised`: in each scope every effect, and every request about to have
  one, has a spent ticket of its own (`Covered`). `authorizeTicket` gives a request
  the ticket it spends, an operation hands it on to its effect, and all else moves
  none.
- `RelayRunsDry`: the action property about disabled tenants.

### Authentication (`AuthProofs`)

`AuthCorrect` is the invariant: a request between its statements has a challenge
that it found valid, one request at most is about to insert a ticket for a
challenge, no ticket has that challenge yet, and the history counts consumed
tickets. From it `EveryTicketIsEarned`, `EveryGrantIsEarned`, `EveryGrantIsInTime`
and the refinement `AuthImplementsTickets`.

### Sessions (`SessionsProofs`)

- `SessionsCorrect`: the invariant of the tables, the handlers, the stale targets
  and the wait group. From it `EveryEntryIsLive`, `EveryEvictedIsClosing`,
  `EveryDeviceHearsOneHost`, `TheDrainIsSound` and `EveryFrameStaysOnKey`: a frame
  goes from a host to a device, or back, whose routes have the same `deviceKey`. For
  a single talker per device the invariant counts those about to write as well
  (`Talkers`).
- `EveryEvictionIsFinal`, an action property: only a registration adds an entry, and
  a handler registers once (`NoneComesBack`); what `routeFrame` finds, it finds for a
  session that is current (`LookedUp`).

### Process (`LifecycleProofs`)

`TheProcessKeepsSessions` carries the theorems about the sessions over to a process.
`LifecycleTypeCorrect`, `TheStoreOutlivesHandlers`, `EveryErrorSurfaces`, from an
invariant about the stage of each `serve` call: a call that has returned was late,
or its connections are closed and the drain is done. `EveryCleanStopIsQuiet` follows
with `HandlersOK`: a handler past authentication came through a listener, and its
connection is open only between `Accept` and its last step. The closed listeners
then account for the handlers before `Accept`, the drain for the registered ones.

### Start, frames and the challenge limit (`ComponentProofs`)

- Start: `TheFileIsNeverTorn` (`DiskInv`: a file is synced before it is renamed) and
  `OneIdentity` (`Alone`: while a lone process creates a key there is no file).
  `StartupKeepsIdentity` carries them over to processes that open the store first.
  `StartupTypeCorrect`.
- `LegacyIsAlwaysKept` (`BackupInv`: tables are dropped only after a backup file was
  found, and only one process writes that file) and `CurrentRowsAlwaysSurvive`
  (`SchemaInv`: a process that migrates alone has found a schema that nobody else
  drops).
- Frames: `FramesTypeCorrect`, `EveryLimitAdmitsFrames` (for every quota, by
  arithmetic on the encoded length) and `EveryRoutedIsSpoken` (the parser's count
  of keys is exact because a set of that size in a set of that size is the set).
- Limiter: `TheTableIsBounded`, by cardinality: the loop only deletes, and a source
  is added only if there is room. `EveryBurstIsBounded`: every passage has a window
  and a place in it, of which no two are the same; a window starts at most `MaxLag`
  before the last passage of the one before it; so passages with a whole window
  between them are `Window - MaxLag` apart, and a shorter span has places in two
  windows only, which map one to one into `1 .. 2 * Limit`.

### Commands (`CommandProofs`)

- `SetupTypeCorrect`, `EveryReportIsPresented`, `NoHalfPairIsLeft`: the process that
  created the key file owns the pair until it is done (`PairInv`, `LeftInv`).
  `EverySavedConfigStarts`, if no host is padded: whoever is about to save has
  validated, and a valid pair stays unless its `Close` fails (`ConfigInv`).
- `TenantsTypeCorrect`, `EveryConfirmedIsStored`, `EveryStoredSecretIsKnown`: a
  command that made a secret knows its tenant until it has printed, and a
  `local ensure-tenant` past its first look is shaken if the pair does not load
  (`CommandsInv`). `EveryEnrolmentRunsDry`: the action property about tenants that
  are disabled during an enrolment.

### What is only model-checked

- `EvictionsComplete` and `StopsInTheEnd` are liveness under fairness, which the
  prover does not handle.
- `CancelledInviteSettles`, `FramesStayOnRoute` and `QuotaIsMinimum` are the
  properties that the code violates.

Every other property of the runs is also a theorem.

## Findings

- `pairing_padded`: `CancelInvite` trims the id for the invite and not for the claims
  (`pairing/service.go:677`). A padded id leaves the claims of a cancelled invite
  pending until they expire, against
  `TestCancelInviteAtomicallyCancelsPendingClaims`.
- `sessions_slash`: `deviceKey` joins ids with slashes (`relay/server.go:497`), and no
  check excludes a slash from an id. Two routes can have one key, and a frame of one
  reaches the other, against `docs/protocol/pairing-v1.md:60`. What holds for all
  ids is `FramesStayOnKey`.
- `frames_quota`: a negative `maxMessageBytes` counts as the maximum
  (`protocol/envelope.go:61`), while `docs/protocol/relay-v1.md:42` defines the quota
  as the minimum of the two.

## Exceptions

Some properties state an exception where the code gives no guarantee. Except for
the clean stop, no document promises one:

- Two `ensure-tenant` commands at once create two tenants; both secrets are printed.
- Two relays that start at once, or a power loss that undoes the rename, may leave
  clients with an identity that is no longer on disk (`orderly` in
  `IdentityIsStable`).
- A backup that was cut short is taken for the backup by the next start
  (`LegacyIsKept`), and two processes that migrate at the same time may lose what
  the earlier wrote (`raced` in `CurrentRowsSurvive`).
- `info --ensure-tenant --json` creates before it reads the TLS pair, and may fail to
  print the secret; so may `local ensure-tenant`, if the pair stops loading between
  its two looks (`withheld` in `StoredSecretIsKnown`).
- A handler that `websocket.Accept` has returned to and that has not called
  `beginWebSocket` outlives a clean stop, with its connection open
  (`CleanStopIsQuiet`), although `docker/README.md:112` says that WebSockets are
  closed before the database. It is refused when it registers and does not touch
  the closed store (`StoreOutlivesHandlers`).
- A `Remove` that fails on an error path, or a kill, leaves half a pair, which every
  later `local init` refuses (`NoHalfPairLeft`). A `Close` that fails on a
  certificate removes a pair that another command may have validated
  (`SavedConfigStarts`, `ReportedIsPresented`).
- A loopback host with blanks around it passes the validation and is saved as it
  is (`SavedConfigStarts`; the instance and the theorem exclude it).

## Not modelled

Cryptography, encodings, the text of JSON, canonical byte layouts, logging and the
plain text of command output. `session.Registry` and `UpdateLastSeen`, which nothing
calls. WebSocket close codes. A command that is killed between writing a
secret and printing it. The disk under `Setup` losing writes with the power.
