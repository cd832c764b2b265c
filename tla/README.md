# WHP Standing: specifications, model checking and proofs

This directory holds TLA+ models of WHP Standing (`src/`, a service that sells
one signed evaluation per purchase, its buyer client and its verifier), the TLC
configurations that check them, and TLAPS proofs about them. Paths below are
relative to the repository's root.

## 1. The system

A buyer sends a *submission* to `POST /v1/evaluations`. The service answers 402
with a signed quote; the buyer sends the same submission again with an EIP-3009
authorization; the service hands it to an x402 facilitator, waits for the
finalized transfer on the chain, and issues a signed result (a Mark, or a paid
negative assessment). Later anybody asks `GET /v1/registry/{id}` for the current
standing of a Mark and checks all of it with `verify/verify_mark.py`.

| Part | Source | State it keeps | Operations | Modules |
|---|---|---|---|---|
| Purchase store | `src/store.mjs` | one row per purchase, lease, result, events, reviews | quote, reserve, lease, update, finish, release, appendEvent, review | PurchaseStore, Registry |
| Paid purchase | `src/public-machine.mjs`, `src/service.mjs` | local variables of a request | evaluateRoute, purchaseRoute, progress | Settlement |
| Payment rail | `src/payment.mjs` | none; the row keeps its cursor and hint | startBlock, verify, settle, reconcile, evidence | ChainScan, Settlement |
| Registry | `src/service.mjs`, `src/store.mjs` | event log | applyRegistryCommand, GET registry | Registry |
| Namespace authority | `src/namespace-authority.mjs` | none | observeNamespaces, validateManifest, attachNamespaceEvidence, namespaceAuthorize | Issuance, Registry (observations as they age) |
| Trust bundle | `src/authority.mjs` | the deployed bundle | validateTrust, authorize, issuerAuthority | Issuance, Settlement and Registry (times, revocation) |
| Independent verifier | `verify/verify_mark.py` | none | verify_result, verify_registry, verify_resolution, assess, recheck_chain | Issuance, Registry (verify_registry), Evaluator (assess) |
| Buyer client | `src/buyer.mjs`, `src/buyer-journal.mjs`, `scripts/buy.mjs` | sqlite journal, trust head | purchase, accept, journal transactions | Buyer |
| Direct wallet checkout | `src/wallet-checkout.mjs` | none | derives the authorization from the quote | a payment of Settlement |
| Evaluator, validation | `src/evaluator.mjs`, `src/validation.mjs` | none | evaluate, validateSubmission | Evaluator (the graph), Issuance (authority and times) |
| Result assembly | `src/mark.mjs` | none | assembleResult | Issuance `Assemble`, PurchaseStore `ResultOf`, Settlement `Assembles` |
| CPI record succession | `cpi/*.mjs` | the registry it is given | transition, verifyBaseUsdcSettlement | Succession |
| Authority administration | `scripts/open-authority-administration.mjs`, `scripts/sync-v11-authority.mjs` | runtime variables, prepared directories, published files | prepare, install, renew, sync | Administration |
| Reviews | `src/service.mjs`, `src/store.mjs` | review requests | POST reviews | planned |
| Purchaser without a library | `scripts/cold-purchaser.mjs` | job, saved payment and Mark as files of a directory | run, and bootstrap of a resolution | PurchaserFiles, ColdPurchaser, Issuance (`Bootstraps`) |
| Discovery | `src/discovery.mjs` | none | resolution | Issuance |
| MCP, exposure, carrier | `src/mcp.mjs`, `src/exposure.mjs`, ... | none | stateless documents | no |
| Encoding, cryptography, schemas | `src/canonical.mjs`, `src/keccak.mjs`, ... | none | pure functions | no |
| Runtime and hosting | `src/runtime.mjs`, `src/server.mjs`, `netlify/` | configuration | I/O | no |
| Release scripts, legacy v1 | `scripts/`, `legacy/v1` | none | checks, probes | no |

How the parts interact. Requests run concurrently in serverless processes that
share nothing but the store; a request may stop at any `await`. A scheduled
command renews the trust bundle the processes read from their environment and
publishes it. The store's transactions and the *fence* (an update names the lease
owner) order them. The rail is the only way to the facilitator and the chain, both of which act on their
own. The buyer client shares nothing with the service but HTTP; several client
processes share one journal file. A purchaser without our library finds the service
through a Mark it was handed, and keeps files of its own. The verifier has a clock of its own.

What is hard, and the properties that answer it (PROJECT.json lists each
hazard at its line):

- a lease runs out under a worker that goes on writing, calling `settle()` and
  assembling: `LocalRowIsDurable`, `ResultMatchesRow`, `RowsOnlyAdvance`;
- two payments for one purchase, one payment for two: `ChargedOnce`, `LedgerSpec`;
- crashes and lost answers around `settle()`: `ChargeIsJournaled`, `ChargedIsServed`;
- blocks that are undone, nodes that are behind, scans in windows:
  `SettledOnlyWhenFinal`, `EvidenceIsFinal`, `NothingSkipped`, `FinalIsProved`;
- a log and manifests that change between a handler's awaits, and verifiers
  with other clocks: `ActiveIsRecent`, `RefusalsExplained`;
- root-signed commands that arrive late, twice, in competition, or after the signing
  key was rotated: `LogVerifies`;
- clients that are killed, repeated and run twice: `SpendingWithinAllowance`,
  `SentIsJournaled`, `AcceptedUnderKnownTrust`, `AcceptedOnOneHistory`, `BoundIsDelivered`;
- a purchaser that dies between asking the wallet, saving and sending, while the
  Mark it was handed loses its standing: `PaysOnce`, `SignsAdmitted`, `PaidIsAcquired`;
- checks made awaits before a compare-and-set: `NothingReplayed`, `ControlPassesInLine`;
- a search through a graph that may be cyclic, shared, broken or in parts, made by
  two programs, and rules that look at direct parents only: `DecisionIsExact`,
  `RootCarriesAll`, `Terminates`;
- a purchase that outlives the manifest that was observed for it and the bundle it
  was quoted under, and is verified by a program of its own: `IssuedVerifies`,
  `MarkIsBacked`, `ResolutionUsable`;
- an administration that dies between two of its writes, directories that were left
  by an earlier one, a publication that lags behind the site: `InstalledInOrder`,
  `PublishedIsBehind`, `HistoryGapless`, `RenewedAndPublished`.

## 2. The modules

Every module names its source at each definition through the map of
PROJECT.json. Common conventions: a place in `pc` is an `await` of the code, a
step is the code from one await to the next, `job` holds the local variables,
a failing check or a dying process leaves the durable state alone. A hash stands
for its preimage, a signature for the statement that its key made it. Operators
marked `faulty` are what a bug would make of the operator after them; they show
that each property can fail, and no specification uses them.

**PurchaseStore** — `store.mjs`: `rows`, `owner`, `leaseUntil`, `resultBytes`, and
one operator per store method. `Owns` is the fence of `update`, `MayLease` the
takeover of an expired lease, `PaymentIsFree` the unique index on `payment_key`.

**Settlement** — extends PurchaseStore with the requests (workers), the clock, the
facilitator and the token. `Arrive` to `EvaluateReserve` are evaluateRoute,
`TakeLease` to `Release` are progress(), `Recover` is the recovery route.
`submitted` records which payments settle() was called for; `chain` is the
transfer of each payment (none, mined, final). `now` is read once per progress(),
as in the code, so a late worker decides with an old time.

**SettlementInv** — the inductive invariant of Settlement. **SettlementProofs** —
the proofs. **MCSettlement** — instances.

**PurchaseLedger** — the abstract specification: a purchase is bound to one
payment, a payment is transferred for one purchase at most, the purchase is
served only after that, once. `Settlement!Ledger` is the refinement mapping.

**ChainScan** — reconcile() and evidence(), one JSON-RPC call per step, on a chain
that grows, is finalized and is reorganized between the calls; behind a
`lagging` endpoint any
call may be answered by a node that is behind. Settlement keeps of all this only
the outcome of a whole reconcile().

**Registry** — the event log, applyRegistryCommand, GET /v1/registry with its
awaits, and `Verdict`, what verify_registry concludes from the last snapshot at
its own time. A bundle says of each signing key when its certificate begins and ends
and from when it is revoked, announced or not; `Redeploy` starts processes with another
bundle and key, and those of earlier deployments run on (`deployed`), so that an event
is signed by one key and a snapshot by another. The verifier's rules are parts of
their own: `SignersVerify` asks for the office of an event's signer at the date the
event bears (`verify/verify_mark.py:354`), which the service does not ask when it
stores the event; `LinksVerify` is the chain. `sources` is when the certificates,
manifests and revocations behind the statements of the result grant them; in detail
they are in Issuance. applyRegistryCommand has no route: the root's operator calls
it, in the repository only tests do. **RegistryProofs** — the proofs,
**MCRegistry** — the bundles of the run.

**Buyer** — purchase() and accept() of the client by awaits, the journal's methods
as atomic steps, the service as answers. `known` (the trust head when the command
began) is a history variable, and a row's `trust` is the snapshot its result was
accepted with. `Reserved` and the property about it are sums over purchases and payments
(`SumFunction`). **BuyerProofs**, **MCBuyer**.

**PurchaserFiles** and **ColdPurchaser** — run() of `scripts/cold-purchaser.mjs`, one process at a time, with
its files (`task`, `saved`, `acquired`) and what outlives it outside: the wallet's
`signatures`, the payments that left it (`requests`), the service's rows, and whether
the Mark it was handed is still ACTIVE (`standing`). `Fail` is any demand, request or
sandbox that fails and any death of the process. The owner's spending policy, the
sandbox and the documents' hashes agree or not; what bootstrap() asks of a resolution
is in Issuance. Two processes in one directory are not modelled. Its theorems are in
BuyerProofs, which extends PurchaserFiles, where its promises are stated, and
instantiates ColdPurchaser as `Cold`; **MCClients** runs either client.

**Succession** — transition() of the CPI record, check by check, against a registry
whose compareAndSet compares the predecessor and nothing else (what the comment
at `cpi/state-transition.mjs:63` asks of it), and the settlement verifier on a
chain with reorganizations. transition() does not ask whether its `current` was
ever admitted; the model's caller read it from the registry.
**SuccessionProofs** — the proofs.

**Evaluator** — evaluate() and the verifier's replay of it, assess(). The search
visit() is recursive in both programs; here its calls are on a `stack` and each
call or return is a step, in any order of a warrant's sources. The search runs
once for the service and once more for the verifier over the same `nodes` and
`incoming`. Each program has its own visit (`EvaluateVisit`, `AssessVisit`, which ask
in another order) and its own rules: `Judgement` is the decision evaluate() gives for a
closed or not closed graph, `Assessment` that of assess(). `Closed` is the reference: every reference is submitted, no set of sources
lies on a cycle, and no proper part that holds the root holds all it was made
from. Rules about one source or warrant alone (keys, times, scope, the content of
COPY and COMPOSE, the evidence a warrant names) are the flag `sound`.
**EvaluatorProofs**, **MCEvaluator**.

**Issuance** — who may say what, and until when. One purchase goes through
observeNamespaces (`Observe`), the quote, the paid request, the decision, the late
settlement and assembleResult (`Quote` to `Assemble`), while the root deploys other
bundles, the namespace takes its manifest back or publishes it again and time
passes between any two of them. `Certified`, `Authorities`, `Passed`, `Expiries` and
`EvidenceHolds` are the service's rules; the definitions named `Verifier...` are
those of `verify_mark.py`, translated on their own, and `Verifies` is verify_result
over the issued row. `seen` (when the manifest was last the published one) is a
history variable. `Resolvable`, `VerifierResolves` and `Bootstraps` are the signed
resolution and its two readers. What concurrent requests do to the row is in
Settlement, the graph of statements in Evaluator; here a submission is a set of
statements with at most one namespace. **IssuanceProofs**, **MCIssuance**.

**Administration** — administer() and syncV11Authority(), one step per write to the
site's variables, to a prepared directory and to the publication. A bundle is the
sequence of the status snapshots sealed on its way (`sealed[i]` is how long the
i-th lasts), so that `follows` is an Append; `Previous`, `Approved` and `Absent` are
three bundles apart. `site` is what the runtime has, `public` the committed
files, `staged` the directories; sync works in `Workspace`, which it empties, the
commands given by hand in any directory. `Crash` stops a command between two of its
steps. The commands do not overlap: `docs/OPEN-ACQUISITION-v1.1.md` has administrators
serialised by a workflow's concurrency group, and nothing in the code does it;
RUNTIME_AUTHORITY_CHANGED is in the model but never met. A file is written as
a whole or not at all: one that a crash tore would make every later write of it a
PREPARED_FILE_CONFLICT (`immutableWrite`, line 79), so the commands of its directory
would be refused from then on (sync empties its directory first); this is left out. What a command publishes
counts when it is committed as a whole (`deploy-netlify.yml` deploys nothing else). A write to the site that is answered late is not modelled.
**AdministrationProofs**.

## 3. What the runs check

| Run | Question | Bounds |
|---|---|---|
| settlement_race | Do row, fence and result hold when two requests with different payments race, leases run out, workers crash and blocks are undone? | 1 purchase, 2 payments, 2 workers, lease 2, clock to 4 |
| settlement_replay | Is a payment spent once, and is the abstract ledger implemented? | 2 purchases, 2 submissions, 1 payment, 2 workers, clock to 2 |
| settlement_liveness | Does a final transfer lead to the result? | 1 purchase, 1 payment, 2 workers, clock to 3 |
| scan | Is evidence final, also when nodes are behind, is nothing skipped, and is a final transfer proved in the end? | 4 blocks, window 2; one reorganization, or a node that is behind |
| scan_lagging | (violation) A final transfer can still be found. | see finding 1 |
| registry_snapshot | Do late, repeated and competing commands leave a log that verifies, is what a verifier concludes recent, and is a snapshot within its validity refused for named reasons only, while keys are rotated and deployments overlap? | 2 namespaces, 2 keys, 2 bundles, 3 events, commands dated 0 or 3, window 2, skew 1, clock to 4 |
| buyer_two | Are allowance and journal kept by two processes, and do all accepted results stand on one history of trust? | 2 processes, 2 purchases, 3 prices, 3 snapshots of which two share a sequence, 2 signatures |
| clients_live | Is a bound payment delivered, to either client, and does the one without a library ask its wallet once, after it verified the Mark it was handed? | 2 processes, 1 purchase, 2 snapshots; or 2 references, 2 signatures |
| succession_replay | Does control pass in one line, nothing used twice? | 2 transitions at a time, 2 payments, 2 nonces, 2 controllers, 2 states |
| evaluator | Do the service and the verifier decide as the definition of a closed graph says, does the root carry what every source says, and does the search end? | 3 hashes: all graphs of up to 3 sources, 2 operations, 1 qualifier, 1 unknown |
| administration | Does the site move along one chain, is the publication behind it and its history without gaps, and does the schedule end with both renewed? | 2 directories, 2 commands by hand, 2 crashes; the clock runs to the end of the root's authority |
| issuance | Does the verifier find in every result what the service found, does a Mark rest on authority that covers it, and is a resolution accepted for its whole life? | 9 submissions, 5 bundles, 3 payments; an observation lives 1, a quote 3, a Mark 3, clock to 5 |

Why the bounds suffice. Workers, purchases and payments interact in pairs (a
lease holder and the one that took over; the payment bound and the other one);
two of each meet in every such way. The times only decide which of two moments is
first: the clock of settlement_race leaves room for a lease to run out, a retry to
be allowed, a quote, an authorization and a bundle to expire, each before or after
the others. A window of two blocks in four makes two searches, with the
transfer at, before and after the edge between them. The registry's
window of two seconds, plus a skew of one, is outlived by a clock that runs to
four: a Mark expires and a key is revoked within the window of a snapshot, and an
event is appended before the horizon of the last. Three events let two commands
compete and one follow a terminal status; two dates let one be older than its
predecessor. The first bundle runs out and announces the revocation of its key; the
second has another key, in office from 2 to 4 only, and revokes a source at 3: each of
these times is met within the validity of a snapshot, and each of the three reasons
RefusalsExplained names is needed. Two deployments are an old and a new process, as any
answer and any event is of one process. The processes of buyer_two are interchangeable (symmetry;
none of its properties tells them apart, and it has no liveness property). Three prices
make one purchase too dear, one exhaust the allowance and two fit. Three hashes
allow a chain, a diamond over an edge (a source and its parent's parent), cycles of
one to three, a missing reference, a warrant for a source that was not submitted
and a source apart from the rest; a source says all or nothing and allows all or
one of the operations, and all are sound, so that a decision turns on the graph
and on what passes along it. The nine submissions of issuance take one way each through
the rules: by certificate and by grant, one and two statements, a grant that ends too
soon before one that does not, another payload, another operation, an escaped and an
unnormalized locator, a manifest that is not valid and one that ends first; the five
bundles run out, start late, or revoke a source, a delegate or the issuer within the
life of a purchase, and five seconds are five times the life of an observation, so
that it is fresh, or stale, or taken back at each step. Two crashes of administration
lose the publications of two renewals in a row, which is what it takes to strand it.

Two signatures and two references are what it takes to pay twice, and a process that
dies at each await and is run again meets each of its files with and without the next.
A behaviour of clients_live is of one of the clients, so that their states add up; the
fairness of both is stated together, as neither's applies to the other.

The type invariants of Succession and Evaluator are proved and no longer part of a run;
so is that of ColdPurchaser.

The theorems below have none of these bounds.

### Fairness

- Settlement: the server goes on with a request it has not dropped; time passes;
  a mined block is sooner or later final or gone; the buyer asks for recovery
  again (`scripts/buy.mjs` does every 30 seconds; strong fairness, as a lease can
  be in the way of each attempt); a reconciliation that could prove the transfer
  does so in the end. Nobody promises that a payment is transferred. The clock's
  bound leaves a crash enough time for its lease to run out; crashes are not bounded
  in any other way.
- ChainScan: each RPC call is answered if it is repeated for ever. This is what
  the assumption of Settlement about reconciliation rests on; it is per call, and
  any call may fail any number of times.
- Buyer: the owner runs the command again; some process gets an answer to each
  request that is repeated for ever, and the service's bundle catches up with the
  one the buyer knows. No process needs to be the one that succeeds.
- ColdPurchaser: once a payment is saved, the owner runs the command again until it has
  the Mark; no request and no verification fails every process. Before that nobody
  promises anything: a process that died while the wallet was asked leaves the purchase
  to its owner (`scripts/cold-purchaser.mjs:130`).
- Evaluator: the program runs on; it has nothing to wait for.
- Administration: a command that does not die runs to its end, and the schedule runs
  sync again after time has passed and after every command that died or was given by
  hand. `scripts/refresh-live-status.mjs` calls itself the scheduled entry point, but the
  schedule is not in the repository: the assumption is about the operator
  (`docs/MANUAL-NETLIFY-DEPLOY.md` asks for it). Crashes are bounded by
  `MaxInterrupted`, as the liveness property is about what happens when they stop.

### What the runs show that is not as documented

`scan_lagging`: evidence() that finds no receipt, or no finality, yet is taken
for no settlement, and the cursor moves past the log that was found
(`src/payment.mjs:94`).

Late commands and rotations (shown by no run of its own, but without the first reason
of RefusalsExplained registry_snapshot fails): applyRegistryCommand looks at the date of a command (not more
than 30 seconds ahead, not before the last event), but not at the office of the key it
signs the event with. A command dated before a rotated key's certificate begins, and
delivered after the rotation, is stored for good, and the verifier refuses every
snapshot with that event (`src/service.mjs:149` against `verify/verify_mark.py:354`);
so is one dated up to 30 seconds past the end of the certificate, until a new bundle
extends it. If it was a withdrawal, the Mark is never read as ACTIVE again, but neither
as WITHDRAWN, although `test/public-contract.test.mjs:21` has it so ("fresh registry
withdrawal changes current standing"; the test dates the command after the certificate
begins). LogVerifies therefore says which bundles accept the log (those with the signers
in office from the issue until the skew after each event was stored), and
RefusalsExplained names the signers' office as one of its reasons. Another is a revocation that was announced for a time within the
snapshot's validity: `valid_until` (`src/service.mjs:97`) does not stop at it, whatever
the status, and the verifier refuses the snapshot from then on.

Known limits of the passing properties: the search for a transfer starts at the
latest block the node had when the row was reserved (`src/payment.mjs:49,88`), so
NothingSkipped and FinalIsProved are about transfers at or after it; a
reorganization can put one below it, which only a hint then finds. FinalIsProved also
asks for nodes that are not behind (`scan_lagging` shows what happens otherwise). A settle() answer that reports a failure
but names a transaction becomes the hint like any other (`src/service.mjs:125`),
and no further settle() is called: such a purchase may stay RECONCILING and unpaid,
which no property forbids. With lagging nodes *and* a reorganization
evidence can be pieced together from two chains (EvidenceIsFinal is checked for
each of the two alone); for a submission without namespaces the log a snapshot
reports was read before the answer's time by the length of an await, so
ActiveIsRecent is about submissions with namespaces; a SETTLED row whose frozen
bundle had run out at issued_at is never assembled, which ChargedIsServed names
as the one other outcome (the documentation calls it recoverable but unfulfilled).
The payment of a succession has the required confirmations when they are counted,
but nobody asks for the finalized block or reads the receipt again
(`cpi/base-settlement-verifier.mjs:25-27`): its block can be undone before or after
the successor is admitted, although the specification text speaks of a finalized
transfer (`cpi/WHP-REC-001-CPI.spec.md:81`), so no property of Succession relates
the registry to the chain. The verifier tolerates a clock that is 30 seconds behind
when it reads a snapshot and a resolution (`verify/verify_mark.py:313,346`), but not
where namespace_keys compares the observation with the same clock
(`verify/verify_mark.py:124`): within the tolerance it may refuse what is good. The
service refuses a locator that is not its own normal form
(`src/namespace-authority.mjs:83`), the verifier compares its text and path only, so
`IssuedVerifies` is about submissions without such locators: for one with them the
service finds less than the verifier would. The verifier demands that a result was not issued before it was
evaluated (`verify/verify_mark.py:266`); the two times are read by two processes and
the service does not compare them, which the one clock of the models hides. In
Issuance an observation is dated when its answer has been read, as in the code; the
answer may be ten seconds old. After two renewals in a row were installed without
being published, the chain check (`scripts/open-authority-administration.mjs:184`)
refuses every later command: RenewedAndPublished names this outcome as `Stranded`,
PublishedIsBehind shows that it is the furthest the two can part. A bundle whose
renewal was installed before the very first publication, which was then lost, is not
in the history; HistoryGapless is about what follows the first published one.

## 4. What is proved

The proofs hold for every value of the constants that satisfies the modules'
ASSUMEs (times and bounds are naturals, sets that are chosen from are not empty).

**Settlement** (SettlementProofs): type correctness, the inductive invariant
`IInv`, and from it ChargedOnce, ChargeIsJournaled, SettledOnlyWhenFinal,
LocalRowIsDurable, ResultMatchesRow, RowsOnlyAdvance and the
implementation of PurchaseLedger. None of these is inductive: a worker whose lease
is gone may still be about to call settle() or to write. `IInv` therefore relates
each local row to the durable one. `Earlier` says an outdated local row is an
earlier version of the durable row with the same payment, so a late settle()
repeats the charge that is already journaled; `LocalRow` says the local row of a
worker that still owns the lease *is* the durable one, so what passes the fence
writes nothing old; `RowShape` ties states to fields, evidence and result;
`PaymentsUnique` is the index. The refinement then needs one step: a final
transfer is of a payment some purchase is bound to (`TransferWasAsked`,
`ChargeIsJournaled`).

**ChainScan** (ChainScanProofs): type correctness, EvidenceIsFinal and
NothingSkipped, for any window, any length of the chain and any endpoint. Each call is
answered by a chain that may have changed since the last. `EvidenceInv` says what the
receipt in `job` is worth at each place: once its block was found final it stays final,
and what is read of it afterwards, and then proved, is what the canonical chain
carries. `SearchInv` bounds the window by the final block and the cursor by one past
it. `LogInv` is why the search of one node skips nothing: a log it found in the window
cannot fail to become evidence, and a window it is about to pass held no final
transfer. EvidenceIsFinal is proved under `OneBranch` (no node is behind, or nothing
is reorganized), which is what the run's endpoints satisfy; without it the property
is false (section 3). NothingSkipped names its own condition.

**Registry** (RegistryProofs): type correctness, LogVerifies, ActiveIsRecent,
RefusalsExplained, for any bundles, rotations and revocations. LogVerifies rests on
`LogIsChained` and `DatesInv`: events are dated no earlier than the issue and no later
than the skew after they were stored. ActiveIsRecent is about moments long past, so the invariant
keeps, for each observation held by the handler or by a snapshot, that the namespace
published the manifest then (`Observed`), and that the first event after those read
was appended later than all of them (`ReadAfter`): the second read of the log comes
after the observations, which is why the order of the awaits matters.
RefusalsExplained needs `SignedInv`: the status that was signed is what the
evidence in the snapshot gives at the snapshot's own time, only an ACTIVE
snapshot carries evidence, and the bundle and the signer were good then and the
certificate lasts as long as the snapshot. So a verifier that finds another status
later does so because the Mark expired or the sources' grants began or ended in
between, and one that refuses its signer because of a revocation; what is left is the
office of the events' signers.

**Buyer** (BuyerProofs): type correctness, SentIsJournaled,
AcceptedUnderKnownTrust, AcceptedOnOneHistory, SpendingWithinAllowance. `PlaceInv` says
what the place of a process implies about the durable row (at submit its payment is
the row's); `Keeps` is the rely condition: no step of anybody changes an amount, a
payment or a price once it is set, nor takes the trust head back, so what another
process relies on stays true. The allowance is a sum over a set, and the induction
over sets is out of reach. `SumIsUnits` goes around it: a sum of naturals over a
finite set is the cardinality of a set of pairs (`Units`), shown by a least
counterexample under the strict subset order. Sums then grow, and are cut to a
subset, as cardinalities do (`SumGrows`, `SumOfSome`). `AllowanceInv` is that the
reserved amounts sum up to at most the allowance; as each payment sent is its row's
(SentIsJournaled), what was sent sums up to at most that. AcceptedOnOneHistory rests on
`HistoryInv`: what is stored, and what a process is about to store, was the trust head
once, and the head only goes on from there.

**ColdPurchaser** (BuyerProofs, `Cold`): type correctness, PaysOnce, SignsAdmitted.
`SavedInv` and `SignatureInv` tie the place of the process to its files: the call is
counted before the wallet is asked, so no process that finds a count asks again; what
is signed is about to be saved, saved, or lost with its process, and only what was
saved is sent. `AdmittedInv` is that a process on the way to the wallet has verified
the Mark itself: a stored admission is resumed with a saved payment only, and a saved
payment is never signed for again.

**Succession** (SuccessionProofs): type correctness, NothingReplayed,
ControlPassesInLine. The checks are out of date at the compare-and-set;
`ChecksHold` keeps that each still holds *as long as* its state is the current
one, which is just what compareAndSet compares.

**Evaluator** (EvaluatorProofs): type correctness, DecisionIsExact and
RootCarriesAll, for any number of sources. What a search has found at its end
says nothing by itself; `IInv` says what holds between two calls. `StackInv`: the
stack is a path along warrants, so a source met on it again closes a cycle
(`FailureIsReal`: a failure is never a false alarm). `ReachedInv`: whatever was
visited is in every part of the graph that holds the root and is closed under
parents. `FaultlessInv`: while nothing failed, what has returned is acyclic and
closed, and every parent of a source on the stack has returned, is next on the
stack or is still to come. On an empty stack these give that GRAPH_CLOSURE holds
exactly if the graph is `Closed` (`ClosureIsExact`), whichever program's visit made the
calls (`VisitOutcome`); that the rules of the two come to the same is
`AssessmentIsJudgement`. RootCarriesAll follows from
there without an induction along paths: the sources whose statements the root
carries hold the root and their own parents, and in a closed graph only all
sources together do (`EstablishedCarriesAll`).

**Issuance** (IssuanceProofs): type correctness, IssuedVerifies, MarkIsBacked,
ResolutionUsable, for any bundles, submissions, manifests, payments and lengths of
life. The first half is not about steps: `SameCertificates`, `SameGrants`,
`SameAuthorities`, `SamePassed` and `SameExpiries` show that the rules of the two
programs give the same over the same values (the first grant of a list is the least
index among those that match, which needs that the grants are numbered). `IInv`
then carries what assembleResult relies on without asking again: the evaluation
fell within the quote and the authorization (`ReservedInv`), the issue after it
(`SettledInv`), and the namespace still published the manifest at the time the
row says it was observed (`SeenInv`).

**Administration** (AdministrationProofs): type correctness, PublishedIsBehind,
InstalledInOrder, HistoryGapless, for any lengths of life and any number of directories, commands and
crashes. PublishedIsBehind is not inductive: a directory left behind long ago may
still be installed. `StagedNear` and `JobNear` say how far such a bundle can be ahead
of the site and of the publication; `CheckedBefore` that what was checked against the
site still follows it when it is written, as commands do not overlap.
HistoryGapless is about what two places retain together. Only sync publishes, and it
empties its directory first: `SyncHistory` says what that directory holds at each
place (`Kept`, and with it whatever was installed and not published), `SyncJob` that
what sync works on is the published bundle or continues it, and `PublicHistory` that
each published bundle but the oldest ratified one follows a published one.

Checked by TLC only: liveness under fairness, which is out of the prover's reach
(ChargedIsServed, FinalIsProved, BoundIsDelivered, PaidIsAcquired, Terminates,
RenewedAndPublished), and the violation StillFindable. Every safety invariant and
every action property of the runs is a theorem.

## 5. Plan

In order, the most important behaviour first; (done) marks what is here.

1. PurchaseStore, Settlement, PurchaseLedger with runs and proofs (done).
2. ChainScan: runs and proofs (done).
3. Registry: run and proofs (done).
4. Buyer and ColdPurchaser: runs and proofs (done).
5. Succession: run and proofs (done).
6. Evaluator: run and proofs (done).
7. Administration: run and proofs (done).
8. Issuance: run and proofs (done).
9. Composition of Buyer with the service of Settlement through the HTTP answers:
   the buyer's `server` as a refinement of PurchaseStore's rows, proved step by step.
10. ColdPurchaser as a refinement of what a buyer with one purchase promises.
11. Reviews, and the quote a second client draws for the same client reference.

## 6. Not modelled, and why

Canonical encoding, hashing, signatures, schemas and the chain's call data are
pure functions; the models take what they establish for granted. MCP, exposure and
carrier documents, and those of discovery but for the resolution, are derived from
configuration and change nothing; the MCP dispatcher calls the same routes.
`scripts/production-authority-v2.mjs` and
ensureCurrentOriginRatification have no caller; `scripts/ratify-open-authority.mjs` ran
once and its signature is a constant of the code. `scripts/send-carrier-fleet.mjs`
sends announcements and keeps a list of what was sent.
Hosting is I/O; its one effect on the rest, that a process may stop anywhere, is
in every module. Release scripts are one-shot checks. `legacy/v1` is a frozen copy
of the previous version. The database is taken to be what its transactions
promise. A review request is one INSERT that decides by itself which of two wins. The slow wallet (an authorization that expires before it is sent, after
which the purchase cannot be paid and its reservation stays) is a possible
behaviour of Buyer; no property forbids it, since the documentation accepts
reservations that stay.

## 7. Running

    tlc -workers 2 -config MCSettlementRace.cfg MCSettlement.tla
    tlapm SettlementProofs.tla

and likewise for the other configurations and proof modules; PROJECT.json names
the module and the configuration of every run.
