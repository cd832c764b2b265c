------------------------------- MODULE Issuance -------------------------------
(***************************************************************************)
(* Who may say what, and until when: the authority a result rests on, from *)
(* the observation of a namespace to the signed result and its replay by   *)
(* the independent verifier, and the resolution by which a client finds    *)
(* the service.                                                            *)
(*                                                                         *)
(* One purchase is followed through evaluateRoute() and progress(); what   *)
(* concurrent requests do to its row is in Settlement, when the payment is *)
(* proved in ChainScan, whether the submitted graph holds together in      *)
(* Evaluator. Meanwhile the root deploys other trust bundles, the          *)
(* namespace changes its manifest and time passes.                         *)
(*                                                                         *)
(* The verifier is another program: where it checks on its own what the    *)
(* service checked, it has definitions of its own here. A hash stands for  *)
(* what it is a hash of and a signature for the statement that its key     *)
(* made it. A submission names at most one namespace: a grant counts only  *)
(* for the scope that is its own namespace.                                *)
(***************************************************************************)
EXTENDS Integers, Sequences

CONSTANTS
  Issuer,          \* the key of the service
  Wildcard,        \* the scope github-repository:*
  NamespaceScopes, \* scopes that are a repository
  Bundles,         \* trust bundles the root signs
  Submissions,     \* what buyers submit
  Payments,        \* the times between which their authorizations hold
  EvidenceLife,    \* an observation counts that long: 300
  QuoteLife,       \* a quote, and a resolution, lasts that long at most: 300
  MaxValidity,     \* standing lasts that long at most: 86400
  PaymentWindow,   \* an authorization may hold that long still: 300 + 30
  MaxTime          \* bound: the clock stops here

Window == {w \in [from: Nat, until: Nat] : w.from < w.until}

ASSUME IssuanceAssumption ==
  /\ {EvidenceLife, QuoteLife, MaxValidity, PaymentWindow, MaxTime} \subseteq Nat
  /\ QuoteLife > 0
  /\ Bundles # {} /\ Submissions # {}
  /\ \A b \in Bundles :
       /\ b.profile \in Window /\ b.status \in Window
       /\ \A k \in DOMAIN b.certificates :
            b.certificates[k].from \in Nat /\ b.certificates[k].until \in Nat
       /\ \A r \in b.revocations : r.at \in Nat
  /\ \A s \in Submissions :
       /\ s.bounds.from \in Nat /\ s.bounds.until \in Nat
       /\ \A e \in s.statements :
            e.role \in {"SOURCE", "TRANSITION"} /\ e.from \in Nat /\ e.until \in Nat
       /\ \A m, n \in s.authority : m = n
       /\ \A m \in s.authority :
            /\ Len(m.grants) \in Nat /\ DOMAIN m.grants = 1..Len(m.grants)
            /\ \A i \in DOMAIN m.grants :
                 m.grants[i].from \in Nat /\ m.grants[i].until \in Nat
  /\ \A p \in Payments : p.after \in Nat /\ p.before \in Nat

VARIABLES
  clock,
  deployed,    \* the service's trust bundle
  submission,  \* what the buyer submits
  public,      \* the manifest it names is the one the namespace publishes
  seen,        \* when that was last so
  row          \* the purchase

vars == <<clock, deployed, submission, public, seen, row>>

(* A request has observed, or asks for an evaluation of a stored quote; the  *)
(* other states are those of the stored purchase.                            *)
States == {"none", "observed", "QUOTED", "asked", "PREPARED", "SETTLED", "ISSUED"}

(* Times that are not set are 0, a bundle that is not is the first deployed. *)
TypeOK ==
  /\ clock \in Nat /\ seen \in Int /\ seen <= clock
  /\ deployed \in Bundles
  /\ submission \in Submissions /\ public \in BOOLEAN
  /\ row \in [state: States, bundle: Bundles, observed: 0..clock, drawn: 0..clock,
             quoteUntil: 0..(clock + QuoteLife), after: Nat, before: Nat,
             evaluated: 0..clock, passed: SUBSET submission.statements,
             established: BOOLEAN, decisionUntil: 0..(clock + MaxValidity),
             issued: 0..clock, resultUntil: 0..(clock + MaxValidity)]

Never == -(EvidenceLife + 1)

Init ==
  /\ clock = 0
  /\ deployed \in Bundles
  /\ submission \in Submissions
  /\ public \in IF submission.authority = {} THEN {FALSE} ELSE BOOLEAN
  /\ seen = IF public THEN 0 ELSE Never
  /\ row = [state |-> "none", bundle |-> deployed, observed |-> 0, drawn |-> 0,
            quoteUntil |-> 0, after |-> 0, before |-> 0, evaluated |-> 0,
            passed |-> {}, established |-> FALSE, decisionUntil |-> 0,
            issued |-> 0, resultUntil |-> 0]

Within(t, w) == w.from <= t /\ t < w.until

IsLeast(x, S) == x \in S /\ \A y \in S : x <= y

-----------------------------------------------------------------------------
(* What the service checks.                                                  *)

(* validateTrust(): the bundle is the root's, and in force.                  *)
TrustValid(b, t) == Within(t, b.profile) /\ Within(t, b.status)

Revoked(b, key, t) == \E r \in b.revocations : r.key = key /\ r.at <= t

NamespaceScope(scope, jurisdiction) ==
  scope \in NamespaceScopes /\ jurisdiction = "namespace-control"

Scoped(c, scope, jurisdiction, role) ==
  /\ jurisdiction \in c.jurisdictions
  /\ \/ scope \in c.scopes
     \/ /\ role \in {"ISSUER", "REGISTRY", "DISCOVERY"} /\ Wildcard \in c.scopes
        /\ NamespaceScope(scope, jurisdiction)

(* authorize() by a certificate of the bundle. *)
Certified(b, key, role, bounds, operations, t) ==
  LET c == b.certificates[key]
  IN  /\ role \in c.roles
      /\ Scoped(c, bounds.scope, bounds.jurisdiction, role)
      /\ Within(t, c)
      /\ ~Revoked(b, key, t)
      /\ operations \subseteq c.operations

IssuerAuthority(b, bounds, t) ==
  Issuer \in DOMAIN b.certificates /\ Certified(b, Issuer, "ISSUER", bounds, {}, t)

ValidManifest(m) ==
  /\ NamespaceScope(m.namespace, "namespace-control")
  /\ m.from < m.until
  /\ m.grants # <<>>
  /\ \A i \in DOMAIN m.grants : LET g == m.grants[i] IN
       /\ g.role \in {"SOURCE", "TRANSITION"}
       /\ g.scope = m.namespace /\ g.jurisdiction = "namespace-control"
       /\ m.from <= g.from /\ g.from < g.until /\ g.until <= m.until
       /\ g.payloads # {}

FreshForever(observed, t) == observed <= t    \* faulty

Fresh(observed, t) == observed <= t /\ t - observed <= EvidenceLife

(* attachNamespaceEvidence(): signed by an issuer, and fresh. *)
EvidenceHolds(s, b, observed, t) ==
  \A m \in s.authority :
    LET c == b.certificates[Issuer]
    IN  /\ Issuer \in DOMAIN b.certificates /\ "ISSUER" \in c.roles
        /\ Scoped(c, m.namespace, "namespace-control", "ISSUER")
        /\ ValidManifest(m)
        /\ c.from <= observed /\ t < c.until /\ ~Revoked(b, Issuer, t)
        /\ Fresh(observed, t) /\ Within(t, m)

Grants(s) ==
  IF s.authority = {} THEN <<>>
  ELSE (CHOOSE m \in s.authority : TRUE).grants

Granted(s, g, e, t) ==
  /\ g.key = e.key /\ g.role = e.role
  /\ g.scope = s.bounds.scope
  /\ g.jurisdiction = s.bounds.jurisdiction
  /\ e.payload \in g.payloads
  /\ e.operations \subseteq g.operations
  /\ Within(t, g)

AnyGrants(s, e, t) ==    \* faulty
  {g \in {Grants(s)[i] : i \in DOMAIN Grants(s)} : Granted(s, g, e, t)}

FirstGrants(s, e, t) ==
  {Grants(s)[i] : i \in {n \in DOMAIN Grants(s) :
                        /\ Granted(s, Grants(s)[n], e, t)
                        /\ \A k \in 1..(n - 1) : ~Granted(s, Grants(s)[k], e, t)}}

(* A URL that is its own normal form, inside the namespace. *)
LocatorHolds(e) == e.role = "SOURCE" => e.locator = "canonical"

(* authorize(): the certificate or grant that allows a statement, if any. *)
Authorities(s, b, e, t) ==
  IF e.key \in DOMAIN b.certificates
    THEN {c \in {b.certificates[e.key]} :
            Certified(b, e.key, e.role, s.bounds, e.operations, t)}
    ELSE {g \in FirstGrants(s, e, t) : ~Revoked(b, e.key, t) /\ LocatorHolds(e)}

Covers(s, w) == w.from <= s.bounds.from /\ s.bounds.until <= w.until

(* SOURCE_AUTHORITY or TRANSITION_AUTHORITY, and SOURCE_TIME. *)
Passed(s, b, t) ==
  {e \in s.statements :
     (\E w \in Authorities(s, b, e, t) : Covers(s, w)) /\ Covers(s, e)}

Established(s, passed, t) ==
  passed = s.statements /\ Within(t, s.bounds)

ExpiriesUncapped(s, b, t) ==    \* faulty
  {s.bounds.until, b.profile.until}
    \cup UNION {{e.until} \cup {w.until : w \in Authorities(s, b, e, t)} :
                  e \in s.statements}

Expiries(s, b, t) ==
  {s.bounds.until, b.profile.until, t + MaxValidity}
    \cup UNION {{e.until} \cup {w.until : w \in Authorities(s, b, e, t)} :
                  e \in s.statements}

(* A quote, and a resolution, end with the trust they were drawn under.       *)
DeadlinesOfProfile(b, t) ==    \* faulty
  {t + QuoteLife, b.certificates[Issuer].until, b.profile.until}

Deadlines(b, t) ==
  {t + QuoteLife, b.certificates[Issuer].until, b.profile.until, b.status.until}

-----------------------------------------------------------------------------
(* The purchase.                                                             *)

Request(next) == row' = next /\ UNCHANGED <<clock, deployed, submission, public, seen>>

(* observeNamespaces() asks for the manifest the submission names and takes   *)
(* it for what is published at the second the answer, which is at most 10     *)
(* seconds old, has been read.                                                *)
Observe ==
  /\ row.state = "none"
  /\ \A m \in submission.authority : public /\ ValidManifest(m) /\ Within(clock, m)
  /\ Request([row EXCEPT !.state = "observed", !.observed = clock])

Abandon ==
  /\ row.state = "observed"
  /\ Request([row EXCEPT !.state = "none"])

(* The quote freezes the bundle; it is stored before anything is evaluated.  *)
Quote ==
  /\ row.state = "observed"
  /\ TrustValid(deployed, clock)
  /\ IssuerAuthority(deployed, submission.bounds, clock)
  /\ \E until \in Deadlines(deployed, clock) :
       /\ IsLeast(until, Deadlines(deployed, clock))
       /\ Request([row EXCEPT !.state = "QUOTED", !.bundle = deployed,
                              !.drawn = clock, !.quoteUntil = until])

PaymentHolds(p, t) ==
  /\ p.after < p.before /\ p.after < t /\ t < p.before
  /\ p.before - t <= PaymentWindow
  /\ t < row.quoteUntil

(* A paid request for the stored quote; then it waits for the rail.          *)
Ask(p) ==
  /\ row.state = "QUOTED"
  /\ TrustValid(deployed, clock)
  /\ IssuerAuthority(deployed, submission.bounds, clock)
  /\ PaymentHolds(p, clock)
  /\ Request([row EXCEPT !.state = "asked", !.after = p.after, !.before = p.before])

GiveUp ==
  /\ row.state = "asked"
  /\ Request([row EXCEPT !.state = "QUOTED", !.after = 0, !.before = 0])

(* evaluate() with the frozen bundle and evidence; the decision is reserved   *)
(* with the payment.                                                          *)
Reserve ==
  /\ row.state = "asked"
  /\ PaymentHolds([after |-> row.after, before |-> row.before], clock)
  /\ TrustValid(row.bundle, clock)
  /\ EvidenceHolds(submission, row.bundle, row.observed, clock)
  /\ LET passed == Passed(submission, row.bundle, clock)
     IN  \E until \in Expiries(submission, row.bundle, clock) :
           /\ IsLeast(until, Expiries(submission, row.bundle, clock))
           /\ Request([row EXCEPT !.state = "PREPARED", !.evaluated = clock,
                                  !.passed = passed,
                                  !.established = Established(submission, passed, clock),
                                  !.decisionUntil = until])

(* The transfer is proved to a request that read the clock when it began.    *)
Settle ==
  /\ row.state = "PREPARED"
  /\ \E now \in row.evaluated..clock :
       Request([row EXCEPT !.state = "SETTLED", !.issued = now])

ExpiresAt(c) == IF c.until < row.decisionUntil THEN c.until ELSE row.decisionUntil

(* assembleResult() *)
Assemble ==
  /\ row.state = "SETTLED"
  /\ TrustValid(row.bundle, row.issued)
  /\ IssuerAuthority(row.bundle, submission.bounds, row.issued)
  /\ TrustValid(row.bundle, row.evaluated)
  /\ EvidenceHolds(submission, row.bundle, row.observed, row.evaluated)
  /\ row.passed = Passed(submission, row.bundle, row.evaluated)
  /\ row.established = Established(submission, row.passed, row.evaluated)
  /\ IsLeast(row.decisionUntil, Expiries(submission, row.bundle, row.evaluated))
  /\ Request([row EXCEPT !.state = "ISSUED",
                         !.resultUntil = ExpiresAt(row.bundle.certificates[Issuer])])

Redeploy ==
  /\ deployed' \in Bundles \ {deployed}
  /\ UNCHANGED <<clock, submission, public, seen, row>>

Publish ==
  /\ submission.authority # {}
  /\ public' = ~public
  /\ seen' = IF public' THEN clock ELSE seen
  /\ UNCHANGED <<clock, deployed, submission, row>>

Tick ==
  /\ clock < MaxTime
  /\ clock' = clock + 1
  /\ seen' = IF public THEN clock + 1 ELSE seen
  /\ UNCHANGED <<deployed, submission, public, row>>

Next ==
  \/ Observe \/ Abandon \/ Quote \/ (\E p \in Payments : Ask(p)) \/ GiveUp \/ Reserve
  \/ Settle \/ Assemble \/ Redeploy \/ Publish \/ Tick

Spec == Init /\ [][Next]_vars

-----------------------------------------------------------------------------
(* What the verifier checks on its own (verify/verify_mark.py).              *)

VerifierTrust(b, at) == Within(at, b.profile) /\ Within(at, b.status)

VerifierRevoked(b, key, at) == \E r \in b.revocations : r.key = key /\ r.at <= at

VerifierScoped(c, scope, jurisdiction, role) ==
  /\ jurisdiction \in c.jurisdictions
  /\ \/ scope \in c.scopes
     \/ /\ role \in {"ISSUER", "REGISTRY", "DISCOVERY"} /\ Wildcard \in c.scopes
        /\ scope \in NamespaceScopes /\ jurisdiction = "namespace-control"

(* grant() by a certificate; one that no certificate covers has no grants     *)
(* to look for but for the statements of a submission.                        *)
VerifierGrant(b, key, role, bounds, operations, at) ==
  /\ key \in DOMAIN b.certificates
  /\ LET c == b.certificates[key]
     IN  /\ role \in c.roles
         /\ VerifierScoped(c, bounds.scope, bounds.jurisdiction, role)
         /\ Within(at, c) /\ ~VerifierRevoked(b, key, at)
         /\ operations \subseteq c.operations

(* namespace_keys() *)
VerifierEvidence(s, b, observed, at) ==
  \A m \in s.authority :
    LET c == b.certificates[Issuer]
    IN  /\ Issuer \in DOMAIN b.certificates /\ "ISSUER" \in c.roles
        /\ VerifierScoped(c, m.namespace, "namespace-control", "ISSUER")
        /\ m.namespace \in NamespaceScopes
        /\ c.from <= observed /\ observed <= at /\ at < c.until
        /\ at - observed <= EvidenceLife /\ Within(at, m)
        /\ ~VerifierRevoked(b, Issuer, at)
        /\ m.grants # <<>>
        /\ \A i \in DOMAIN m.grants : LET g == m.grants[i] IN
             /\ g.role \in {"SOURCE", "TRANSITION"}
             /\ g.scope = m.namespace /\ g.jurisdiction = "namespace-control"
             /\ m.from <= g.from /\ g.from < g.until /\ g.until <= m.until
             /\ g.payloads # {}

VerifierMatches(s, g, e, at) ==
  /\ g.key = e.key /\ g.role = e.role
  /\ g.scope = s.bounds.scope /\ g.jurisdiction = s.bounds.jurisdiction
  /\ e.payload \in g.payloads /\ e.operations \subseteq g.operations
  /\ Within(at, g)

(* namespace_grant(): it compares the text of a locator and its path, and     *)
(* does not ask whether it is its own normal form.                            *)
VerifierAuthorities(s, b, e, at) ==
  IF e.key \in DOMAIN b.certificates
    THEN {c \in {b.certificates[e.key]} :
            VerifierGrant(b, e.key, e.role, s.bounds, e.operations, at)}
    ELSE LET matches == {n \in DOMAIN Grants(s) : VerifierMatches(s, Grants(s)[n], e, at)}
         IN  {Grants(s)[n] : n \in {k \in matches :
                /\ IsLeast(k, matches)
                /\ ~VerifierRevoked(b, e.key, at)
                /\ e.role = "SOURCE" => e.locator \in {"canonical", "unnormalized"}}}

(* assess() *)
VerifierPassed(s, b, at) ==
  {e \in s.statements :
     \E w \in VerifierAuthorities(s, b, e, at) :
       \A x \in {w, e} : /\ x.from <= s.bounds.from
                         /\ s.bounds.until <= x.until}

VerifierExpiries(s, b, at) ==
  {s.bounds.until, b.profile.until, at + MaxValidity}
    \cup {e.until : e \in s.statements}
    \cup UNION {{w.until : w \in VerifierAuthorities(s, b, e, at)} :
                  e \in s.statements}

(* verify_result() of the issued result. *)
Verifies ==
  LET b == row.bundle
      at == row.evaluated
      c == b.certificates[Issuer]
  IN  /\ VerifierTrust(b, row.issued)
      /\ VerifierGrant(b, Issuer, "ISSUER", submission.bounds, {}, row.issued)
      /\ at <= row.issued
      /\ VerifierTrust(b, at) /\ VerifierEvidence(submission, b, row.observed, at)
      /\ row.passed = VerifierPassed(submission, b, at)
      /\ row.established <=>
           row.passed = submission.statements /\ Within(at, submission.bounds)
      /\ IsLeast(row.decisionUntil, VerifierExpiries(submission, b, at))
      /\ IsLeast(row.resultUntil, {row.decisionUntil, c.until})
      /\ row.drawn <= at /\ at < row.quoteUntil
      /\ row.after <= at /\ at < row.before

-----------------------------------------------------------------------------
(* Resolution: a signed document that leads a client to the service.         *)

(* publicResolution() signs and authorizes anew what resolution() drew, in    *)
(* the certificate's own first scope.                                         *)
PublicResolution(b, now) ==
  \E scope \in b.certificates[Issuer].scopes,
     jurisdiction \in b.certificates[Issuer].jurisdictions :
       Certified(b, Issuer, "DISCOVERY",
                 [scope |-> scope, jurisdiction |-> jurisdiction], {}, now)

Resolvable(b, now) ==
  /\ TrustValid(b, now)
  /\ Issuer \in DOMAIN b.certificates
  /\ PublicResolution(b, now)

(* verify_resolution(), with the times of a resolution drawn at observed.     *)
VerifierResolves(b, observed, until, at) ==
  /\ VerifierTrust(b, at)
  /\ \E scope \in b.certificates[Issuer].scopes,
       jurisdiction \in b.certificates[Issuer].jurisdictions :
         VerifierGrant(b, Issuer, "DISCOVERY",
                       [scope |-> scope, jurisdiction |-> jurisdiction], {}, at)
  /\ observed <= at /\ at < until /\ until <= observed + QuoteLife
  /\ until <= b.status.until

(* bootstrap() of scripts/cold-purchaser.mjs, a client without our code.      *)
Bootstraps(b, observed, until, at) ==
  /\ Within(at, b.profile) /\ Within(at, b.status)
  /\ Issuer \in DOMAIN b.certificates
  /\ "DISCOVERY" \in b.certificates[Issuer].roles /\ Within(at, b.certificates[Issuer])
  /\ \A r \in b.revocations : ~(r.key = Issuer /\ r.at <= at)
  /\ observed <= at /\ at < until /\ until <= observed + QuoteLife

-----------------------------------------------------------------------------
(* public/namespace-authority.md: the independent verifier "replays every     *)
(* grant and evaluator rule". Whatever was deployed, published and decided    *)
(* while the purchase was under way, and however late it was settled, the     *)
(* verifier finds in the result what the service found (mark.mjs,             *)
(* assembleResult); but for locators that are not their own normal form,      *)
(* which only the service refuses (namespace-authority.mjs:83).               *)
Normalized == \A e \in submission.statements : e.locator # "unnormalized"

IssuedVerifies == row.state = "ISSUED" /\ Normalized => Verifies

(* A Mark rests, for every statement and from the evaluation until the Mark   *)
(* expires, on a certificate of the root or on a grant its namespace had      *)
(* published at most EvidenceLife before the evaluation, and outlives neither *)
(* the bounds asked for nor the key that signed it (evaluator.mjs, expiry).   *)
Backs(w, e) ==
  /\ w.from <= row.evaluated /\ row.resultUntil <= w.until
  /\ w.from <= submission.bounds.from /\ submission.bounds.until <= w.until
  /\ e.operations \subseteq w.operations
  /\ ~\E r \in row.bundle.revocations : r.key = e.key /\ r.at <= row.evaluated

MarkIsBacked ==
  row.state = "ISSUED" /\ row.established =>
    /\ row.resultUntil <= submission.bounds.until
    /\ row.resultUntil <= row.bundle.certificates[Issuer].until
    /\ \A e \in submission.statements :
         \/ /\ e.key \in DOMAIN row.bundle.certificates
            /\ LET c == row.bundle.certificates[e.key]
               IN  e.role \in c.roles /\ submission.bounds.scope \in c.scopes /\ Backs(c, e)
         \/ /\ seen >= row.evaluated - EvidenceLife
            /\ \E i \in DOMAIN Grants(submission) :
                 LET g == Grants(submission)[i]
                 IN  /\ g.key = e.key /\ g.role = e.role /\ e.payload \in g.payloads
                     /\ g.scope = submission.bounds.scope /\ Backs(g, e)

(* A resolution serves its whole life: both programs that may read it accept  *)
(* it until it ends or a revocation its own bundle announces takes effect     *)
(* (discovery.mjs, valid_until).                                              *)
ResolutionUsable ==
  Resolvable(deployed, clock) =>
    \A until \in Deadlines(deployed, clock) :
      IsLeast(until, Deadlines(deployed, clock)) =>
        \A at \in clock..(until - 1) :
          (\A r \in deployed.revocations : r.key = Issuer => at < r.at) =>
            /\ VerifierResolves(deployed, clock, until, at)
            /\ Bootstraps(deployed, clock, until, at)
=============================================================================
