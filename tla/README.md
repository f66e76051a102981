# plamotrack: TLA+ models and proofs

plamotrack keeps a modeller's collection: orders of kits, tools, paints and
upgrades, what arrived, what is in stock, what is being built.  A FastAPI server
over PostgreSQL serves a browser application, an MCP endpoint for assistants and
whole-collection import and export.  One person owns an instance.

This directory specifies the parts of it where the hard behaviour is, checks
them with TLC on small instances and proves the properties that matter most for
every size of instance.  `PROJECT.json` lists the runs, the theorems, the
hazards, and for each definition the lines of source it stands for.

    tlc -workers 2 -config MCCollection.cfg MCCollection  # a run
    tlapm CollectionProofs.tla                            # the proofs of a module

Paths below are relative to `src/backend/app` unless they say otherwise.

## Inventory

| Component | State | Operations | What is hard |
|---|---|---|---|
| Orders and the stock ledger (`services/orders.py`) | orders, lines, kits, item counts | create, edit, ship, receive, undo an order; retailers | one request walks many lines and may refuse at any; `received_at` is the only record that stock was applied; rows go missing under references without a foreign key |
| Kits (`services/kits.py`) | kits, their status, clocks and build dates | create, edit, delete | an order edit may delete kits, but none that work was put into |
| Catalog (`services/catalog.py`) | four tables of counted items | create, edit, adjust, delete | floor and ceiling of the count; deletion under live references |
| Upgrades (`services/upgrades.py`) | applications of an upgrade to a kit | apply, withdraw (restored or destroyed) | the same count moves for orders and applications |
| Dates (`orders.py`, `kits.py`, `services/order_stage.py`) | ship and receipt dates, per-kit status clock, build dates | mark, receive, correct both dates, move by hand | corrections have to find the kits an event moved, by a shared date |
| Recorded conversions (`orders.py`, `services/instance_settings.py`) | amount and currency per line, the instance's currency | state, correct, clear; change the setting | configuration must not rewrite records |
| Write gate and snapshots (`services/write_gate.py`, `services/read_snapshot.py`, `db.py`) | one advisory lock, a transaction per request | take the gate, read, write, commit | decisions made from rows read earlier; table locks beside the gate |
| Import and export (`services/portability/`) | none of its own; a plan and its hash travel with the client | preview, apply (merge or replace all), export | approval of a plan whose state has moved; TRUNCATE beside snapshots; the planner's rules for partial sheets |
| Owner, setup, sessions (`services/auth.py`, `services/oidc.py`, `auth/`) | owner row, credential, sessions, provider logins; the setup token in the process | claim, sign in and out, restart in another mode, recover from the host | state split between database and process; a network call between two transactions |
| MCP OAuth grants (`auth/mcp_oauth.py`, `auth/mcp_oauth_state.py`) | grant records, codes, token pairs, in an encrypted store; the provider's session behind each | exchange, refresh, refresh behind a request, revoke; the host's rebind | four actors rewrite one record, two of them across a network call; the store's write is an upsert |
| MCP clients and protocol requests (`auth/mcp_oauth.py`) | client records, registration windows, spent assertion ids | register, keep, expire; authenticate; judge a form | three statements and no lock; documents that change between two looks; two parsers of one form |
| The provider's client (`services/oidc.py`) | two cached documents and the lock they are fetched under | discover, fetch keys, exchange, verify, revoke | a lock held across the network; rotation |
| Personal access tokens (`services/tokens.py`) | tokens | mint, revoke, expire, resolve | used after they were revoked |
| Budgets (`auth/budget.py`) | failure ladders in a bounded table, two token buckets | admit, fail, reset, evict | an outcome counted after an await; a bound that forgets; whole seconds |
| Audit (`services/audit.py`) | audit rows, the refusals only counted, the retention task | record, roll the window, prune | a count carried from window to window; a loop that must survive a failure |
| Ingress, routing, policy (`ingress.py`, `auth/prerouting.py`, `auth/registry.py`, `auth/dependency.py`, `auth/resolver.py`) | none | admit or refuse one request | four judges of one request, each with its own look at it |
| MCP tools, routers, schemas | none | adapters | what they refuse appears in guards here |
| Browser application (`src/frontend/src`) | the import in flight, the sign-out in flight, the session shown, drafts | send, leave, come back, sign out | answers that come after the page or the session ended |
| Deployment, migrations | none | | not modelled |

The components meet in the database.  Every mutating service opens one
transaction, takes the write gate as its first statement, reads, decides, writes
and commits; exports and the summary read several tables in a snapshot and take
no gate.  The OAuth state lives in a store of its own that commits each
statement by itself, so its transitions are serialised by advisory locks
on a second connection.  The process remembers only the setup token, the
budgets, the caches of the provider's documents, the spent assertion ids, the
count of refusals not yet written and the requests in flight.

## Modules

| Module | What it models |
|---|---|
| `Collection` | The tables orders, lines, kits, counts and applications under the services that change them |
| `MCCollection` | Its instance, with symmetry on row ids |
| `CollectionProofs` | Its theorems: types, stock, kits on lines, what a commit spares |
| `SumLemmas` | Sums over finite sets, for the proofs that count |
| `Timeline`, `MCTimeline`, `TimelineProofs` | Order dates, kit status clocks and build dates; `MCTimeline` runs it, `PriceSnapshot` and `Tab`, and the proofs are about what it runs |
| `PriceSnapshot` | The conversion a line records and the instance's currency |
| `CollectionJobs` | What one request does to a coarse collection, as a function of the state it read |
| `SerialCollection` | The promise: requests take effect one at a time, each from the state at its instant |
| `WriteGate`, `MCWriteGate`, `WriteGateProofs` | Requests as PostgreSQL runs them: gate, snapshots, statements, table locks, crashes; implements `SerialCollection` |
| `ImportPlan`, `MCImportPlan`, `ImportProofs` | The planner: what a file does to a collection in each mode, as operators, and its application |
| `Intake` | An archive read back after it was damaged, and the manifest it is reconciled with |
| `OwnerAccess`, `MCOwnerAccess`, `OwnerAccessProofs` | Claiming, signing in, restarting in another mode, recovery |
| `Provider` | The provider's client: discovery, keys, their lock; its proofs are in `OwnerAccessProofs` |
| `Throttle`, `MCLogin` | Ladders, buckets and what a refused caller is told; `MCLogin` runs it and `Provider`; its proofs are in `OwnerAccessProofs` |
| `Grants`, `OAuthProofs` | MCP OAuth grants of an owner, from login to revocation; the proofs are about the next two modules too |
| `ClientRecords`, `ClientAssertions`, `Forms`, `MCClients` | Registered clients and their bounds; a client's authentication; the gate in front of the SDK |
| `Pipeline` | A request's way to its handler, with sessions and access tokens |
| `AuditLog`, `MCPipeline`, `PipelineProofs` | The refusal budget, its recorder and the retention loop; `MCPipeline` runs it and `Pipeline`, and the proofs are about both |
| `Tab` | A browser tab: imports, sign-out and the gate, beside other tabs; its proofs are in `TimelineProofs` |

`WriteGate` and `SerialCollection` both extend `CollectionJobs`; `WriteGate`
instantiates `SerialCollection` as the specification it implements.  `Collection`,
`Timeline` and `PriceSnapshot` are three views of the same services, split by the
state that no property relates: counts and rows, dates, currencies.

`MCTimeline`, `MCLogin`, `MCPipeline`, `MCClients` and `MCImportPlan` put modules
that share no state into one run.  A constant of the behaviour, `moving`,
says which of them moves while the others rest, so the run explores each alone
and their sum of states, not the product.  Where liveness is checked the fairness
of each is stated under its `moving`.

A definition named "Mutant of X" states a plausible mistake in X.  No
specification uses it; `PROJECT.json` names the property that catches it.

### Collection and the code

The gate makes services sequential (that is `WriteGate`'s theorem), so a service
that touches one row is one action.  The order services walk a list of lines
and any line may refuse the whole request: they are `Begin...`, one action per
line and `Commit` or `Abort`, and `saved` is the database as everyone else sees
it.  Every property about stored data is therefore about `saved`.

| Action | Service |
|---|---|
| `CreateKit`, `UpdateKit`, `DeleteKit` | `kits.py` |
| `CreateItem`, `AdjustStock`, `UpdateItem`, `DeleteItem` | `catalog.py` |
| `ApplyUpgrade`, `Withdraw` | `upgrades.py` |
| `BeginCreate`, `AddKitLine`, `AddStockLine` | `create_order`, `_add_line`, `spawn_kits` |
| `BeginUpdate`, `EditKitLine`, `EditStockLine`, `RetargetLine`, `RemoveLine` | `update_order`, `_update_line`, `_remove_line` |
| `BeginReceive`, `ReceiveLine` | `receive_order` |
| `BeginDelete`, `DeleteLine`, `DropOrder` | `delete_order` |
| `Commit`, `Abort` | the commit, and `session_scope`'s rollback |

`applied` and `counted` are history: what each line put into stock, and what
each item's count owes to anything else.  Abstracted: names, prices and the order
in which kits are deleted; tools, consumables and display items are one
kind because they count alike.  `Init` allows the database of an old release
in which one line points at an item that was deleted (#63).

### Timeline and the code

One action per service (`create_order`, `receive_order`, `mark_order_shipped`, ...),
because nothing here refuses halfway.  Dates people give are past days; instants
the server takes are 1, 2, ... and no two are equal, but a day can equal a
day.  `history` records what moved each kit last.

### WriteGate and the code

A request is received (`Arrive`), takes its turn at the gate, reads its tables one
statement at a time (`ReadTable`), decides from what it read (`Decide`, with the
decision itself in `CollectionJobs!Allowed` and `Outcome`), writes and commits.
An import adds a preview without the gate and an approval by its
owner.  An export or a summary pins a REPEATABLE READ snapshot at its first
statement.  Replacing imports lock their tables by TRUNCATE.  What PostgreSQL
does is marked external in the map: advisory locks are granted in order and go
with the transaction; `Visible` says what a statement sees, TRUNCATE's exception
to snapshots included; of two requests that wait for each other one is aborted.

### OwnerAccess and the code

The tables outlive the process, the setup token and the requests in flight do
not.  A request whose parts are separate transactions is one action per part:
`SetupMatch` / `ClaimInstance` / `ConsumeToken` for a setup, `ConsumeLogin` /
`Bind` or `SignInAtProvider` / `ConsumeToken` for a provider's callback.
`Start` is the lifespan of `main.py`, before anything is served.  Recovery runs
on the host and needs no running API.  An expired row and a revoked or
used one are alike here.

### Grants and the code

The store commits each statement, so each statement is a step.  A transition
(`_one_transition`) waits for its grant's or its code's advisory lock, reads the
record again, may ask the provider (`asked`) and writes what came back.  The
provider rotates a login's refresh token at each refresh and honours only the
latest; it may refuse, be out of reach, or answer and have the answer lost, after
which nobody holds what is current and the login is `lost`.  The host's rebind
(`RebindList`, locks one by one, `RebindRead` of records and pending codes,
`RebindDelete`, `RebindCommit`, then revocations
at the provider) may die at each step; `Crash` ends the process with every
request in flight and frees its locks.  Ids and tokens are never used twice, so
an instance runs out of them: deadlock is not checked there.

A transition holds one database connection for its lock and needs a second for the
store; that the pool has it is assumed.

The rebind locks the grants it lists and no others, and reads pending codes without
a lock.  Its docstring calls what follows the concurrent-issuance window
(`services/oidc.py`, `_purge_mcp_grants`), and `EndedForGood` and `CurrentPair` say
where it begins:

- a grant that is issued after the listing is deleted all the same, and a refresh that
  holds its lock by then may write the record back after the commit (`Overtaken`).  Of
  the other grants deleted none returns, listed or not;
- a pending code the rebind has read may be exchanged and its grant refreshed before
  the DELETE; the token handed over for revocation is then one the provider has
  rotated away (`late`).  Every other code's token is current.

TLC finds either at once where its exception is taken out of the property.

While an exchange mints its pair the
record exists and its code is not yet deleted: the comment in the code
documents that window, and a crash in it leaves a login whose tokens nobody has.

### ImportPlan, Intake and the code

A collection is five tables, a file five sheets, each a function from ids to
rows; `IsCollection` and `IsFile` say which are possible (a sheet may leave out
columns and leave cells blank; what is no value of its column is refused before
planning).  `Plan(stored, file, mode)` is the
planner: matching (by id, by name, by a line's fingerprint), remapping of ids,
classification, the checks of `invariants.py`, then the reconciliation of
kits with the quantities a file writes: which kits a line will hold,
which of them work was put into, how many to spawn, which to give up.
`Victims` are the choices of which kits to give up and `Births` of which ids the
spawned ones get, which the code leaves to the order of rows and to `uuid4`;
`Applied` is `apply_import` with its cascades.  Between imports orders are received
and kits built.  `Starts` also holds collections that older releases could leave:
a line with a kit too many, a line whose item is gone.

`Intake` takes the zip apart: members under one path, directories, names and
headers, the expansion budget, manifests.  `damage` bounds what
happens to an archive between export and import.  It does not look
into cells.  An edit that keeps row counts, a manifest without a usable `tables`
block and two equally long tables under each other's names with their headers
swapped are not detected by the code, which is tolerant there by design, and not
promised by the property.

A merge that changes the quantity of a catalog line on a received order is
accepted and leaves the stock as it was: the archive is taken to carry both
(`docs/import-export.md`, `tests/test_order_invariants.py:2249`), so
`ReceiptsAccounted` says only that something was or was not counted.

An import applies no stock, whatever it says of receipts.  A catalog line
that comes with its received order is therefore not `applied` but `brought`: its
units are on hand as far as the catalog's sheets in the same archive say so, and
where they are missing (a merge or add_only of orders alone) the item is a stub with
nothing on hand.  `ReceiptsAccounted` promises of such a line only that no receipt
here applies it a second time, and no import brings it in by a way that skips its
stock, as a row that joins or receives a stored order would.

### Provider, Throttle and the code

`Provider`'s calls are coroutines that interleave where they await the lock or the
network.  `metadata()` looks again once it has the lock and `keys()` does not:
taking the keys another call has just fetched would refuse a token signed by a
key published since.  Tokens of retired keys verify while the
document is cached, which no property forbids.

In `Throttle` time is whole seconds.  A login looks its ladder up, draws from a bucket,
verifies across an await and counts its outcome on the ladder it looked
up, which may have left the table meanwhile: the failure is then counted
on an orphan.  `streak` is the history each address should be judged by.
`MaxStreak` bounds it; in the code `1.0 * 2 ** (n - 1)` overflows a float after
1024 failures in a row, an hour apart at most, which is out of every instance's
reach.

### Clients, forms and the code

`ClientRecords`: a registration culls expired rows, counts and writes in three
awaits.  Registrations at once may all count before any writes, so the
documented "the physical size never exceeds the live cap"
(`auth/mcp_oauth.py`) is checked with an allowance of one less than run at
once.  The quota is counted in fixed windows, an hour from an address's first
registration; two windows' registrations may fall into one hour, which
`QuotaHolds` does not deny.  `keep` reads and writes in two statements and may re-create a record that
expired in between; a crash between issuing a grant and keeping its client
leaves a linked client with an unlinked lifetime; a refusal for lack of room
spends the address's quota.

`ClientAssertions`: the document is resolved once, from FastMCP's document cache or
from its host; its hosted keys are fetched and
the assertion's id is spent at the admission.  A document that may be stored admits
after its host has withdrawn it, for as long as the cache keeps it; when it is too old
is the clock's choice, and `BoundedCache` may forget it before (`Evict`).  One served with
no-store admits only requests it was served to while they ran.  A fetch may end after
the document has changed again, and stores what it brought.  An assertion may name
one endpoint as its audience or both, and both spend from one set of ids.  The set is
process memory, so a restart forgets it.  A hosted key that was withdrawn
verifies until the verifier's cache is fetched again.

`Forms`: one request to `/authorize`, `/token` or `/revoke` with up to four fields;
fields that are dropped leave the others their places, as none of the code looks at
the order between two fields;
`client_id` stands for the fields every endpoint knows, "crowded" for
more fields than MAX_FORM_FIELDS.  Without a client_id `/token` and `/revoke` answer as
the authenticator does, before anything else is asked.  What the SDK does with a form is external.
`/authorize` may answer `temporarily_unavailable` before the resource is judged.

### Pipeline, AuditLog and the code

`Pipeline` gives a request what it presents (host, origin, method, path, bearer,
cookie, body) and walks it through `ingress.py`'s guard, the gate before
routing, the router, the dependency and, on the MCP mount, the verifier
and the tool's scope.  Twelve declarations stand for the registry's shapes.  Away from
the mount POST stands for the unsafe methods a route declares, and PUT for one it
does not; OPTIONS is safe and undeclared but at the protocol's routes.

The mount is three paths: the transport, one protocol route and a path the child does
not have.  FastMCP's guard refuses a foreign origin whatever the verb
(`ChildGuardRefuses`; it reads no Referer); `RouteBinding` answers an undeclared verb
with 405 and its Allow (`RefuseVerb`); an unknown path, and a protocol route in local
mode, is the child's own 404 (`NotInChild`).  These come before a bearer is
required (a presented one may have been verified, and a leak reported, by then), so
they say to anyone which verbs the transport has: `TellsNothing` asks of them that they
are one answer for every caller, and on every other path that is not public that a caller
without a credential reads one answer.

`asked.may` is the history the properties
judge by: what the credential gave when the request came.  The principal is
resolved before the handler runs, so a credential revoked in between still acts
once; the property allows it.  A wrong password is 403, a throttled one 429.  A sign-in is its password's and no session's: a page
of another site that knows it may begin a session, whatever became of the
cookie's; an instance with a second session shows it, and the theorem allows for it.  The session's CSRF token is part of what a page
of another site cannot send.

`AuditLog`: refusals are rows while the window's budget lasts and a count
afterwards, written with a later refusal.  A window's first
refusal is always admitted, so the count taken with it is never added to
one still pending.  The retention loop is a task of the lifespan; a pass may fail,
and a stop cancels it wherever it is.

### Tab and the code

One tab with its module state (`importRun.ts`, `signOut.ts`), the import section's
draft, preview and outcome, the gate's session, CSRF token and React Query cache,
against a server with two sessions and other tabs that may sign in or out.
Requests may lose their answers; sessions end on their own.

A failed sign-out is said only in the session it was made in (`Said`).  The condition
matters with a third session: a refusal can be kept while the tab signs out of that
session after all and into another, where it is not shown.

Some things the model makes plain and no property forbids: a reload
forgets the run (the page asks first), so an import retried after a lost answer
may add twice; a sign-out overtaken by another tab's sign-in
keeps the caches, since the server says somebody is signed in; an
outcome already painted stays drawn when the gate goes from one session
to the next without unmounting; `AuthGate`'s comment that it "clears the React
Query cache on a state change" is true of the password form and of Sign
out only; between a logout's answer and the session being read again a
second import can be sent, and the server refuses it.

## Runs

| Run | Instance | Asks |
|---|---|---|
| `collection` | 2 orders, 2 lines, 2 kits, 2 tools, an upgrade, 1 application; quantities, counts and fan-out to 2; 5 rows beside the orders | is every count explained, does every line have its kits, is undo never blocked, is work kept |
| `updates_and_tab` | `Timeline`: 1 order, 2 kits, 2 dates; `PriceSnapshot`: 2 lines, 2 currencies; `Tab`: 2 sessions, 2 imports | do clocks and dates follow events; does a record keep its currency; does an import stay with its session, does a sign-out settle |
| `timeline_receipt` | `Timeline` | (violated) is a corrected receipt exact |
| `prices_stamp` | `PriceSnapshot` | (violated) is an unlabelled amount stamped |
| `gate` | 2 requests of 8 kinds, 2 orders | is every execution serial, is an approved import applied as shown, is everyone answered |
| `replace_export` | 2 requests of 3 kinds, 1 order | (violated) is an archive one instant beside a replacement |
| `owner_access` | 3 sessions, 2 logins, 2 requests, 2 passwords, 2 identities | who is let in, and is the owner ever locked out |
| `grants` | 2 grants, 1 code, 2 token pairs, 2 requests, 2 identities, 2 rotations | does an ended grant stay ended, is a stored token current, who authorized it, does the rebind get its locks |
| `import` | `ImportPlan`: 2 imports of any of 305 files onto 5 collections; `Intake`: 2 tables, 2 rows, 2 damages | is an own archive harmless, does an import do what it planned, are counts and references kept, is lost data noticed |
| `login` | `Throttle`: an owner and two others, 2 addresses, a table of 2; `Provider`: 2 calls, rotating keys | is a wait honest, does the owner get through, do logins follow the keys, is every call answered |
| `pipeline` | `Pipeline`: 1 request at a time of every shape and 4 verbs, 2 tokens, a session; `AuditLog`: 2 refusals per address and 3 per window, 2 recorders | what may a request do and learn; is a refusal ever lost; does retention go on |
| `clients` | `ClientRecords`: 3 clients, 2 registrations at once, cap 1, quota 2; `ClientAssertions`: 2 requests, 2 endpoints, 1 id in 2 assertions, 3 documents of which one is no-store; `Forms`: up to 4 fields | do the bounds hold, is a client admitted once and by one document, is a form judged as it is acted on |

The bounds let the interesting cases meet.  With two lines an order's two lines
may share an item, or one line of another order moves the count the first
needs, to its ceiling and its floor; with two kits a line grows, shrinks and
loses the one that is not progressed.  `FewRows` lets TLC check but not leave a
state of more than five rows beside the orders: two lines with a kit each and an
upgrade in stock, or two tool lines, both their stock rows and one row more, and
whatever one step makes of them.  The ticks of `Timeline`'s clock are enough for entry,
shipment, receipt, a move by hand and both corrections in any order.  Two requests
give the gate a holder and a waiter, or a writer and a reader; two orders
make a half-read collection visible; three sessions are a stale one, a current
one and the next.  Two grants and two pairs let a revoked grant be beside a live one of the
same login, and a refreshed pair beside the one it replaces.  A table of two
ladders is full when the third address fails.  Two imports are an archive restored
over what another has changed.

The deadlock check is off where a bound or a request's life ends every behaviour:
the clock (`MCTimeline`), requests that ask once (`MCGate`), tokens and ids that run out
(`MCGrants`), imports counted (`MCImport`), and where `moving` leaves a module with
nothing more to do.  In the other runs it is checked; each cfg says which.

A property that says less without its module's types has them as its first
conjunct (`CurrentPair`, `Admission`, `RegistrationsBounded`, ...).  In `Collection`
`TypeOK` stands alone because it holds the counts within an int4 column.

### Fairness

| Run | Assumed | Because |
|---|---|---|
| `gate` | WF of `Step(r)` | the server runs the requests it has received; PostgreSQL grants a free lock to whoever is next and aborts one of a deadlocked pair |
| `grants` | WF of a transition's steps, SF of the rebind's `RebindLock(g)` | a call to the provider ends by its HTTP timeout; PostgreSQL's lock queue is first come, first served, so requests that come later do not pass the rebind |
| `login` | WF of `Answered(c)`, SF of `Granted(c)` in `Provider`; WF of the clock, of an owner's attempts and of their end in `Throttle` | HTTP_TIMEOUT; `asyncio.Lock` wakes its waiters in turn; an owner who keeps trying is what the property is about |
| `pipeline` | WF of the loop's waking, its cancellation and the end of a shutdown, SF of a pass that succeeds | the event loop runs its tasks; the database is not down at every pass for ever, though any pass may fail |

Nothing is assumed of arrivals, of approvals, of crashes, of a provider's success or of what others
at other addresses do.

## Proofs

| Theorem | Says | Inductive invariant |
|---|---|---|
| `CollectionProofs!TypeCorrect` | `TypeOK` | itself |
| `CollectionProofs!StockFollowsReceipt` | `LineAccounted` | also, in the open transaction: its order is there, stored lines belong to orders that are there, and the lines already walked have moved what the finished request will owe, the others what they owed |
| `CollectionProofs!StockAlwaysExplained` | `StockExplained` | `Explained`: for the open transaction's tables as for the committed ones, a count is the hand count plus the sum of what the lines put in, less the sum of what applications use; each step changes one summand and the count by the same amount (`SumLemmas`) |
| `CollectionProofs!LinesAlwaysBacked` | `LineBacked` | `Record`: kits are rooted in kit lines, and a kit line whose loop is not running has as many as it says; a line an undo has walked has none |
| `CollectionProofs!CommitsAlwaysSpareTheRest` | `CommitsSpareTheRest` | `Spared` and `Landed`: what an open transaction may have changed so far, by what it is about: other orders' headers are as committed, a line dangles only if it did, the kits worked on are still there, the kits of the lines a receipt has walked are out of the mail |
| `CollectionProofs!DanglingLinesGo` | the step of `DanglingUndoable` | none: with the successor written out, `DeleteLine` is a step whatever the line's item is |
| `TimelineProofs!ReceiptKeepsItsKits`, `NoKitFallsBehind` | `ReceiptOwnsItsKits`, `KitsKeepUp` | both together, with kits rooted in orders: a kit keeps up because entry looks at both dates, and a correction finds all the receipt's kits because they carry its date |
| `TimelineProofs!DatesAreKept` | `DatesKept` | the same invariant; `KeepsDates` is shown of every kit, for each action |
| `TimelineProofs!CorrectionsTakeTheirKits` | `CorrectionTakesReceiptAlong` | with the receipts' one above: every date is a day or an instant the clock has given out (`InstantsGiven`), and a kit whose clock equals a receipt dated by the clock was moved by it (`Dated`), since later instants are new |
| `WriteGateProofs!GateKeepsDecisionsFresh` | `DecisionsFresh` | only the gate's holder is past the gate; only readers have snapshots; a transaction starts having read nothing |
| `WriteGateProofs!GateSerializes`, `PreviewsAreKept` | `Serializable`, `AppliesWhatWasShown` | `SerialInv`: the same with the types, what a request has not read is empty in its view (`UnreadIsEmpty`), and one that writes has read all it needs, was allowed by it and is not stale (`Judged`); so a commit is the serial step from the committed state, and every other step stutters |
| `WriteGateProofs!GateLetsEveryoneThrough`, `RowWritesNeverDeadlock` | `NobodyStandsStill`, `DeadlocksSpareRowWrites` | `LocksHeld`: the queue is the waiting requests, each once, and the gate's holder the one past it (`GateHeld`); only a replacing import that decided holds or wants tables exclusively, and a table is shared only by those that have read it (`TablesHeld`); so who waits for a table waits for the gate's holder or its readers, and these for nobody else or in a deadlock that is found |
| `WriteGateProofs!GateTypeCorrect` | `TypeOK` | `LocksHeld` and `OneRetailer` (a shop's row is made under the gate, by one who has read that there is none) |
| `WriteGateProofs!ArchivesAreWholeOrEmptied`, `ArchivesOfOneInstant` | `ArchiveWholeOrEmptied`, `ArchiveOfOneInstant` where `"replace_all"` is no kind of job | `ArchivesKept`: a snapshot knows how many truncations had committed when it was pinned; each table it has read is the pinned one, or is empty and there were more since; there is none without `replace_all` |
| `ImportProofs!ReceiptsStayAccounted` | `ReceiptsAccounted` | `ImportInv`: with the types, foreign keys among them; a stored line keeps its order, a stored order with catalog lines keeps its receipt, and a new line comes with its order or onto one still pending; what was brought in received no receipt here can be applied again |
| `ImportProofs!ImportsDoAsPlanned` | `AsPlanned` | the same; `Happened` is what one import did: what goes is on an overfull line and neither in the file nor protected (`VictimsFacts`), a line the file writes a quantity for ends with that many kits (`ReconciledExact`), one it moves kits off or onto has them already (`MovedExact`) |
| `ImportProofs!ReferencesLand` | `RefsLand` | the same; a reference resolves to a stored item, a row of the file or the stub made for its name |
| `ImportProofs!OwnArchiveIsNoChange` | `OwnArchive` | the same types; every row of a collection's own sheet is planned as itself (`unchanged`, or `skip`), so every table after the import is the table before, and a line that holds what it says has no kit to drop or make |
| `ImportProofs!LossesAreSeen` | `NothingLostUnseen` | `Traced`: what is left of a member is of the table its columns are of (`Sourced`); an archive nothing happened to still has one member a table (`Untouched`); the verdict is on the archive as it is (`Drawn`).  With a manifest that declares, a table then has one claimant, and any other member with its rows has a name the manifest does not know (`DeclaredIsKept`) |
| `OwnerAccessProofs!OnlyTheOwner` | `SessionsOfTheOwner` | every live session, of either mode, proves what the owner row says for that mode: a claim and a binding only fill an empty place, and what empties one revokes every session |
| `OwnerAccessProofs!RefusedForGood` | `SignedOutForGood` | while the API runs every live session is of its mode, so what is refused is dead, and nothing revives a session |
| `OwnerAccessProofs!OwnerNeverStranded` | `NotStranded` | a request that may spend the token has a committed claim behind it |
| `OwnerAccessProofs!SessionsOpenOnce` | `OpenedOnce` | the rows a setup minted are one and the same, and there is one only if the instance is claimed, which nothing undoes (`OneSetupClaims`); a login row is open, or one request exchanges its code, or it has opened its one session, and never two of these (`LoginsOpenOneSession`) |
| `OwnerAccessProofs!OnlyTheHostUnbinds` | `BindingHolds` | a consequence of what one step may do to the owner row |
| `OwnerAccessProofs!KeysFollowed` | `LoginsFollowTheKeys` | `ProviderInv`: exactly the lock's holder fetches (`OneFetches`); the document a call is about to fetch keys by is no older than the cache (`CallHolds`), which holds the newest set seen (`CacheHolds`) |
| `OwnerAccessProofs!LockIsTheFetchers` | `OneFetcher` | the same |
| `OwnerAccessProofs!BudgetsStayHonest` | `ThrottleHonest` | `ThrottleInv`: table and history agree: a ladder holds its address's own failures and is locked for as long as they say, and an address outside the table has none (`Agree`, `Recorded`); a request that holds the table's ladder finds it there; for a caller told to wait and not disturbed since, the ladder is open and the bucket has a token by the time it was told (`Enough`, `RoundedUp`).  The least recently failed ladder has all the others ahead of it, hence the flood |
| `OwnerAccessProofs!OwnersAreNotCrowdedOut` | `OwnersKeepTheirBudget` | the same; a full table always has a ladder to drop, one that has decayed or the oldest (`RoomCanBeMade`), and a key with no failures to wait for is not held back once looked up, found or made afresh (`LookupIsFair`) |
| `OAuthProofs!EndedStayEnded` | `EndedForGood` | one request at most holds a grant's lock or exchanges a code (`Exclusive`), what it presents is the grant's it came with (`Presented`), an issued grant is nobody else's (`Alone`), and a grant that is over has no record and nobody at work on it (`Finished`), for a commit that ends a grant finds nobody at work on it (`Overtaken`) |
| `OAuthProofs!TokensStayCurrent` | `CurrentPair` | the same, and for a login no answer of which was lost (`Rotation`): one grant claims it, the record or the transition that took it over holds the latest token, and what the rebind has read of listed records nobody will use; a pending code it has read is still unredeemed, or its login is `late` or lost |
| `OAuthProofs!AuthoriserStays` | `OneAuthoriser` | the same, with one identity in the record, in every request at work on the grant and in all its tokens (`OneName`); the tokens left suffice for the transitions under way (`Supplied`) |
| `OAuthProofs!RebindMeetsNoCircle` | `LocksAreLetGo` | the same: one request at most holds a grant's lock (`Exclusive`), and one that waits for the rebind's commit came after its listing |
| `PipelineProofs!RequestsAdmitted` | `Admission` | `AdmissionInv`: before the gate a credential gives no more than it did at arrival (`Borne`); past it the principal is the credential's, an anonymous one asks for what is open and a leaked token never comes that far (`Through`); what the mount answers by itself it answers everyone (`MountAnswersKeep`); a live token has a scope, none the administrator's |
| `PipelineProofs!RefusalsStayAccounted` | `RefusalsAccounted` | `AuditInv`: the window's rows are its addresses' grants and at most one summary, after which nothing is left to tell (`Budgeted`); a process that is down holds no counts |
| `PipelineProofs!RetentionStaysWithItsProcess` | `LoopLivesWithItsProcess` | itself |
| `OAuthProofs!RegistrationsStayBounded` | `RegistrationsBounded` | `RecordsInv`: a registration that counted takes its place in the bound before it writes (`RoomLeft`); the quota's table has one window an address, those that are over first, and `made` is the current window's count (`TableHolds`); a minted id is one registration's until it is told, and only a told client is kept (`IdsMinted`) |
| `OAuthProofs!AssertionsAlwaysHold` | `AssertionsHold` | `AssertionsInv`: a request being verified holds one document, served while it ran or storable and served before, whose method asked for what it presented (`OneLookup`); a verifier holds only keys that were served |
| `OAuthProofs!FormsAlwaysJudged` | `FormsJudged` | `FormsInv`: what the gate refused was not proper (`RefusedIsImproper`); what it handed on is the form it was sent, reduced, which the handler answers as it should (`AnsweredRightly`) because a field other than `resource` was there once and of the resources the first foreign one is chosen, if there is one (`ReducedPlaces`, `ChosenIsOne`) |
| `TimelineProofs!ImportsStayWithTheirSession`, `SignOutsSettle` | `ImportStaysWithItsSession`, `SignOutSettles` | `TabInv`: answers come in the order of the sessions they tell of, so once the tab has read a later session nothing it holds is of an earlier one (`ReadInOrder`); the gate does not come back to a session before its token and its import do (`TokenKeepsUp`, `ImportKeepsUp`); a confirmed sign-out leaves nothing held that is alive (`LeavesForGood`) |
| `TimelineProofs!PricesHold` | `RecordsHold` | the types and `SnapshotWhole` together (`SnapshotsStayWhole`), from which each step keeps the currency (`RecordsKeepCurrency`) |
| `TimelineProofs!PricesAreStampedOrRolledBack` | `StampedOrRolledBack` | the same types; each step shows it of the write it makes |

The proofs assume what the modules' ASSUMEs state: bounds are natural numbers,
absent values are none of the present ones, what sums and counts run over (lines,
kits, applications, addresses, recorders, callers, clients and registrations, the
requests and tokens of `Grants`, the tables and rows of `Intake`) is finite, tools and upgrades are different, and
what an import meets is a collection and a file (`InputsAssumption`, which TLC
checks of its 5 collections and 305 files).  Nothing bounds the number of rows, requests or steps.

`ImportPlan` is proved about in layers: a row of a plan (`Entered`), a sheet's rows
(`Lands`), the table they make (`Holds`), the five tables and the references
between them (`TablesAfter`, `ReferencesAfter`), and the collection that is
committed (`Became`).

Sums over finite sets are `SumFunctionOnSet` of the community modules.
`SumLemmas` proves the three laws the ledger and the audit log need (a summand added, changed,
or zero) by taking, of the sets that break a law, one without a smaller one
below it.

Every invariant and action property a passing run checks is proved, but for
`DanglingUndoable`, which is about ENABLED: its step is `DanglingLinesGo`, with the
successor written out.  The liveness properties stay with TLC, for the prover has no
rule for fairness; what each rests on beside fairness is proved:

| Liveness, checked by TLC | Safety it rests on, proved |
|---|---|
| `Answered` | nobody waits for ever at a lock (`GateLetsEveryoneThrough`) |
| `RebindGetsLocks` | locks are with requests that can finish (`RebindMeetsNoCircle`) |
| `CallsEnd` | the lock is with the one that fetches (`LockIsTheFetchers`) |
| `OwnerGetsThrough` | the owner's budget is nobody else's (`OwnersAreNotCrowdedOut`) |
| `RetentionGoesOn` | the loop ends only with its process (`RetentionStaysWithItsProcess`) |

Of the three comments the code does not live up to, what remains true is proved:
`CorrectionsTakeTheirKits` for `timeline_receipt`, `PricesAreStampedOrRolledBack`
for `prices_stamp`, `ArchivesAreWholeOrEmptied` and `ArchivesOfOneInstant` for
`replace_export`.  These and the safety halves above are stated in the modules and
by the theorems; no run lists them.  No module here declares a RECURSIVE operator.

## What the models found

1. `timeline_receipt`: `_restamp_receipt_kits` recognises the kits a receipt
   moved by a clock equal to the old receipt date.  Its docstring
   (`services/orders.py:1214-1219`) says that is exactly those kits.  In the trace a
   kit the receipt put into the backlog is moved back to `pre_ordered` by hand,
   `mark_order_shipped` then puts it `in_transit` at a date equal to the receipt's,
   and the correction re-dates it too, the shipment having moved it last.  What does
   hold, that none of the receipt's own kits is missed, is `ReceiptOwnsItsKits`; that all
   of them go along, and no other where the clock dated the receipt, is
   `CorrectionTakesReceiptAlong`.  Both are proved.
2. `prices_stamp`: `_update_line` reuses the name `reference`
   (`services/orders.py:879`, `912`), so an edit that restates a kit line's details
   or grows it, and records its first converted amount without a
   currency, fails as a whole.  `RecordsHold` is true all the same: the
   database refuses the value.
3. `replace_export`: an export that starts while a replacing import commits can
   find its tables empty, because TRUNCATE does not respect snapshots
   (`services/portability/importing.py:3507`).  The two also lock tables in different
   orders, so an export can be the victim of a deadlock where
   `services/read_snapshot.py:27-30` says it queues; `Answered` shows that both are
   answered.

A wording in `mark_order_shipped` (`services/orders.py:1249-1251`), that on a
received order "the advance naturally moves nothing", is loose: a kit moved back
by hand to `ordered` is advanced.  `KitsKeepUp` allows for it.

## Not modelled, and the plan

What would come next, in order:

1. The rest of the planner: retailers, series and upgrades, whose rows follow the
   rules of the tables that are there.

Left out for good, with the reason:

- request validation and serialisation, the other routes' declarations, host names,
  cache headers, log redaction: no history, and unit tests reach them;
- parsing of cells, dates and decimal amounts, formatting and wording;
- Fernet, hashing, signatures, FastMCP and the SDK: external, modelled by what
  the code does with their results;
- the retailer and series services, categories, photos' files, filters and listings: single
  statements under the gate;
- the MCP tools, which are adapters over the services;
- pages and components of the browser application that render what the server
  says, migrations, deployment and its configuration.
