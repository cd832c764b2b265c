---------------------------- MODULE IssuanceProofs ----------------------------
(***************************************************************************)
(* Proofs about Issuance, for any bundles, submissions, payments and        *)
(* lengths of life. The first half is about the definitions of the service  *)
(* and of the verifier: over the same values they agree. The second half    *)
(* carries the facts about the row that the verifier asks for and that      *)
(* assembleResult() does not check again.                                   *)
(***************************************************************************)
EXTENDS Issuance, TLAPS

(* What the namespace publishes now was seen now; what a request observed was *)
(* still published then.                                                      *)
SeenInv ==
  /\ public => seen = clock
  /\ row.state # "none" /\ submission.authority # {} => row.observed <= seen

(* The evaluation falls within the quote and the authorization of the payment. *)
ReservedInv ==
  row.state \in {"PREPARED", "SETTLED", "ISSUED"} =>
    /\ row.drawn <= row.evaluated /\ row.evaluated < row.quoteUntil
    /\ row.after <= row.evaluated /\ row.evaluated < row.before

SettledInv == row.state \in {"SETTLED", "ISSUED"} => row.evaluated <= row.issued

(* What assembleResult() found. *)
AssembledInv ==
  row.state = "ISSUED" =>
    /\ TrustValid(row.bundle, row.issued)
    /\ IssuerAuthority(row.bundle, submission.bounds, row.issued)
    /\ TrustValid(row.bundle, row.evaluated)
    /\ EvidenceHolds(submission, row.bundle, row.observed, row.evaluated)
    /\ row.passed = Passed(submission, row.bundle, row.evaluated)
    /\ row.established = Established(submission, row.passed, row.evaluated)
    /\ IsLeast(row.decisionUntil, Expiries(submission, row.bundle, row.evaluated))
    /\ row.resultUntil = ExpiresAt(row.bundle.certificates[Issuer])

IInv == TypeOK /\ SeenInv /\ ReservedInv /\ SettledInv /\ AssembledInv

-----------------------------------------------------------------------------
(* Bundles, submissions and what a statement may rest on.                     *)

LEMMA BundleTimes ==
  ASSUME NEW b \in Bundles
  PROVE  /\ b.profile.from \in Nat /\ b.profile.until \in Nat
         /\ b.status.from \in Nat /\ b.status.until \in Nat
         /\ \A k \in DOMAIN b.certificates :
              b.certificates[k].from \in Nat /\ b.certificates[k].until \in Nat
         /\ \A r \in b.revocations : r.at \in Nat
  BY IssuanceAssumption DEF IssuanceAssumption, Window

LEMMA SubmissionTimes ==
  ASSUME NEW s \in Submissions
  PROVE  /\ s.bounds.from \in Nat /\ s.bounds.until \in Nat
         /\ \A e \in s.statements :
              e.role \in {"SOURCE", "TRANSITION"} /\ e.from \in Nat /\ e.until \in Nat
  BY IssuanceAssumption DEF IssuanceAssumption

LEMMA PaymentTimes ==
  ASSUME NEW p \in Payments
  PROVE  p.after \in Nat /\ p.before \in Nat
  BY IssuanceAssumption DEF IssuanceAssumption

LEMMA Lives ==
  /\ EvidenceLife \in Nat /\ QuoteLife \in Nat /\ QuoteLife > 0
  /\ MaxValidity \in Nat /\ PaymentWindow \in Nat /\ MaxTime \in Nat
  BY IssuanceAssumption DEF IssuanceAssumption

(* The grants of a submission are numbered, and there are none without a      *)
(* manifest.                                                                  *)
LEMMA GrantsAreNumbered ==
  ASSUME NEW s \in Submissions
  PROVE  /\ \E n \in Nat : DOMAIN Grants(s) = 1..n
         /\ \A i \in DOMAIN Grants(s) :
              Grants(s)[i].from \in Nat /\ Grants(s)[i].until \in Nat
         /\ DOMAIN Grants(s) # {} => s.authority # {}
<1>1. CASE s.authority = {}
  <2>1. Grants(s) = <<>>
    BY <1>1 DEF Grants
  <2>2. DOMAIN Grants(s) = 1..0 /\ 1..0 = {}
    BY <2>1
  <2> QED  BY <2>2
<1>2. CASE s.authority # {}
  <2>1. PICK m \in s.authority : Grants(s) = m.grants
    BY <1>2 DEF Grants
  <2>2. /\ Len(m.grants) \in Nat /\ DOMAIN m.grants = 1..Len(m.grants)
        /\ \A i \in DOMAIN m.grants :
             m.grants[i].from \in Nat /\ m.grants[i].until \in Nat
    BY IssuanceAssumption DEF IssuanceAssumption
  <2> QED  BY <1>2, <2>1, <2>2
<1> QED  BY <1>1, <1>2

LEMMA AuthorityTimes ==
  ASSUME NEW s \in Submissions, NEW b \in Bundles, NEW e, NEW t \in Nat,
         NEW w \in Authorities(s, b, e, t)
  PROVE  w.from \in Nat /\ w.until \in Nat
<1>1. CASE e.key \in DOMAIN b.certificates
  BY <1>1, BundleTimes DEF Authorities
<1>2. CASE e.key \notin DOMAIN b.certificates
  <2>1. PICK n \in DOMAIN Grants(s) : w = Grants(s)[n]
    BY <1>2 DEF Authorities, FirstGrants
  <2> QED  BY <2>1, GrantsAreNumbered
<1> QED  BY <1>1, <1>2

LEMMA ExpiryTimes ==
  ASSUME NEW s \in Submissions, NEW b \in Bundles, NEW t \in Nat,
         NEW x, IsLeast(x, Expiries(s, b, t))
  PROVE  x \in 0..(t + MaxValidity)
<1>1. x \in Expiries(s, b, t) /\ x <= t + MaxValidity
  BY DEF IsLeast, Expiries
<1>2. \A y \in Expiries(s, b, t) : y \in Nat
  <2> SUFFICES ASSUME NEW y \in Expiries(s, b, t) PROVE y \in Nat
    OBVIOUS
  <2>1. CASE y \in {s.bounds.until, b.profile.until, t + MaxValidity}
    BY <2>1, Lives, SubmissionTimes, BundleTimes
  <2>2. CASE \E e \in s.statements :
               y \in {e.until} \cup {w.until : w \in Authorities(s, b, e, t)}
    BY <2>2, SubmissionTimes, AuthorityTimes
  <2> QED  BY <2>1, <2>2 DEF Expiries
<1> QED  BY <1>1, <1>2, Lives

LEMMA DeadlineTimes ==
  ASSUME NEW b \in Bundles, Issuer \in DOMAIN b.certificates, NEW t \in Nat,
         NEW x, IsLeast(x, Deadlines(b, t))
  PROVE  x \in 0..(t + QuoteLife)
<1>1. t + QuoteLife \in Nat /\ b.certificates[Issuer].until \in Nat
      /\ b.profile.until \in Nat /\ b.status.until \in Nat
  BY Lives, BundleTimes
<1> QED  BY <1>1, Lives DEF IsLeast, Deadlines

-----------------------------------------------------------------------------
(* The verifier's definitions agree with those of the service.               *)

LEMMA SameCertificates ==
  ASSUME NEW b, NEW key \in DOMAIN b.certificates, NEW role, NEW bounds,
         NEW operations, NEW t
  PROVE  VerifierGrant(b, key, role, bounds, operations, t)
           <=> Certified(b, key, role, bounds, operations, t)
  BY DEF VerifierGrant, Certified, VerifierScoped, Scoped, NamespaceScope,
         VerifierRevoked, Revoked

LEMMA SameMatches ==
  ASSUME NEW s, NEW g, NEW e, NEW t
  PROVE  VerifierMatches(s, g, e, t) <=> Granted(s, g, e, t)
  BY DEF VerifierMatches, Granted

Matches(s, e, t) == {n \in DOMAIN Grants(s) : VerifierMatches(s, Grants(s)[n], e, t)}

FirstMatches(s, e, t) == {n \in DOMAIN Grants(s) : IsLeast(n, Matches(s, e, t))}

(* The first grant that allows a statement is the least of those that do.     *)
LEMMA SameGrants ==
  ASSUME NEW s \in Submissions, NEW e, NEW t
  PROVE  FirstGrants(s, e, t) = {Grants(s)[n] : n \in FirstMatches(s, e, t)}
<1> DEFINE D == DOMAIN Grants(s)
           G(n) == Granted(s, Grants(s)[n], e, t)
<1>1. PICK N \in Nat : D = 1..N
  BY GrantsAreNumbered
<1>2. Matches(s, e, t) = {n \in D : G(n)}
  BY SameMatches DEF Matches
<1>3. \A n \in D : IsLeast(n, {k \in D : G(k)})
                     <=> G(n) /\ \A k \in 1..(n - 1) : ~G(k)
  <2> SUFFICES ASSUME NEW n \in D
               PROVE  IsLeast(n, {k \in D : G(k)})
                        <=> G(n) /\ \A k \in 1..(n - 1) : ~G(k)
    OBVIOUS
  <2> HIDE DEF G
  <2>1. \A k \in 1..(n - 1) : k \in D /\ ~(n <= k)
    BY <1>1
  <2>2. \A k \in D : ~(n <= k) => k \in 1..(n - 1)
    BY <1>1
  <2> QED  BY <2>1, <2>2 DEF IsLeast
<1>4. FirstMatches(s, e, t) = {n \in D : G(n) /\ \A k \in 1..(n - 1) : ~G(k)}
  BY <1>2, <1>3 DEF FirstMatches
<1> QED  BY <1>4 DEF FirstGrants

LEMMA SameAuthorities ==
  ASSUME NEW s \in Submissions, NEW b, NEW e, NEW t, e.locator # "unnormalized"
  PROVE  VerifierAuthorities(s, b, e, t) = Authorities(s, b, e, t)
<1>1. CASE e.key \in DOMAIN b.certificates
  BY <1>1, SameCertificates DEF VerifierAuthorities, Authorities
<1>2. CASE e.key \notin DOMAIN b.certificates
  <2> DEFINE Allowed == ~Revoked(b, e.key, t) /\ LocatorHolds(e)
  <2>1. Authorities(s, b, e, t) = {g \in FirstGrants(s, e, t) : Allowed}
    BY <1>2 DEF Authorities
  <2>2. FirstGrants(s, e, t) = {Grants(s)[n] : n \in FirstMatches(s, e, t)}
    BY SameGrants
  <2>3. VerifierAuthorities(s, b, e, t) =
          {Grants(s)[n] : n \in {k \in Matches(s, e, t) :
                                   IsLeast(k, Matches(s, e, t)) /\ Allowed}}
    BY <1>2 DEF VerifierAuthorities, LocatorHolds, VerifierRevoked, Revoked, Matches
  <2>4. \A k : IsLeast(k, Matches(s, e, t)) => k \in Matches(s, e, t)
    BY DEF IsLeast
  <2>5. {k \in Matches(s, e, t) : IsLeast(k, Matches(s, e, t))} = FirstMatches(s, e, t)
    BY <2>4 DEF Matches, FirstMatches
  <2> HIDE DEF Allowed
  <2>6. CASE Allowed
    BY <2>1, <2>2, <2>3, <2>5, <2>6
  <2>7. CASE ~Allowed
    BY <2>1, <2>3, <2>7
  <2> QED  BY <2>6, <2>7
<1> QED  BY <1>1, <1>2

LEMMA SamePassed ==
  ASSUME NEW s \in Submissions, NEW b, NEW t,
         \A e \in s.statements : e.locator # "unnormalized"
  PROVE  VerifierPassed(s, b, t) = Passed(s, b, t)
<1>1. \A e \in s.statements : VerifierAuthorities(s, b, e, t) = Authorities(s, b, e, t)
  BY SameAuthorities
<1>2. ASSUME NEW e \in s.statements
      PROVE  (\E w \in Authorities(s, b, e, t) :
                \A x \in {w, e} : x.from <= s.bounds.from /\ s.bounds.until <= x.until)
             <=> (\E w \in Authorities(s, b, e, t) : Covers(s, w)) /\ Covers(s, e)
  BY DEF Covers
<1> QED  BY <1>1, <1>2 DEF VerifierPassed, Passed

LEMMA SameExpiries ==
  ASSUME NEW s \in Submissions, NEW b, NEW t,
         \A e \in s.statements : e.locator # "unnormalized"
  PROVE  VerifierExpiries(s, b, t) = Expiries(s, b, t)
<1> DEFINE U(e) == {w.until : w \in Authorities(s, b, e, t)}
<1>1. \A e \in s.statements : VerifierAuthorities(s, b, e, t) = Authorities(s, b, e, t)
  BY SameAuthorities
<1>2. UNION {{w.until : w \in VerifierAuthorities(s, b, e, t)} : e \in s.statements}
        = UNION {U(e) : e \in s.statements}
  BY <1>1
<1>3. {e.until : e \in s.statements} \cup UNION {U(e) : e \in s.statements}
        = UNION {{e.until} \cup U(e) : e \in s.statements}
  <2> HIDE DEF U
  <2> QED  OBVIOUS
<1> QED  BY <1>2, <1>3 DEF VerifierExpiries, Expiries

LEMMA SameEvidence ==
  ASSUME NEW s, NEW b, NEW observed, NEW t, EvidenceHolds(s, b, observed, t)
  PROVE  VerifierEvidence(s, b, observed, t)
  BY DEF EvidenceHolds, VerifierEvidence, VerifierScoped, Scoped, NamespaceScope,
         VerifierRevoked, Revoked, Fresh, ValidManifest

-----------------------------------------------------------------------------
(* The invariant.                                                            *)

Rows ==
  [state: States, bundle: Bundles, observed: 0..clock, drawn: 0..clock,
   quoteUntil: 0..(clock + QuoteLife), after: Nat, before: Nat,
   evaluated: 0..clock, passed: SUBSET submission.statements,
   established: BOOLEAN, decisionUntil: 0..(clock + MaxValidity),
   issued: 0..clock, resultUntil: 0..(clock + MaxValidity)]

LEMMA TypeInit == Init => TypeOK
<1> SUFFICES ASSUME Init PROVE TypeOK
  OBVIOUS
<1>1. clock = 0 /\ deployed \in Bundles /\ submission \in Submissions
      /\ public \in BOOLEAN
  BY DEF Init
<1>2. seen \in Int /\ seen <= clock
  BY <1>1, Lives DEF Init, Never
<1>3. row \in Rows
  BY <1>1, Lives DEF Init, Rows, States
<1> QED  BY <1>1, <1>2, <1>3 DEF TypeOK, Rows

LEMMA InitInvariant == Init => IInv
<1> SUFFICES ASSUME Init PROVE IInv
  OBVIOUS
<1>1. SeenInv /\ ReservedInv /\ SettledInv /\ AssembledInv
  BY DEF Init, SeenInv, ReservedInv, SettledInv, AssembledInv
<1> QED  BY <1>1, TypeInit DEF IInv

(* What the request of a purchase changes of its row.                         *)
LEMMA TypeOfRequest ==
  ASSUME TypeOK, NEW next \in Rows, Request(next)
  PROVE  TypeOK'
  BY DEF TypeOK, Rows, Request

LEMMA RowFields ==
  ASSUME TypeOK
  PROVE  /\ clock \in Nat /\ submission \in Submissions /\ row \in Rows
         /\ clock \in 0..clock /\ row.evaluated \in Nat /\ row.issued \in Nat
         /\ row.evaluated <= clock
         /\ row.bundle \in Bundles /\ row.decisionUntil \in Nat
         /\ row.decisionUntil <= clock + MaxValidity
  BY Lives DEF TypeOK, Rows

LEMMA ResultTimes ==
  ASSUME NEW b \in Bundles, Issuer \in DOMAIN b.certificates, TypeOK
  PROVE  /\ ExpiresAt(b.certificates[Issuer]) \in 0..(clock + MaxValidity)
         /\ IsLeast(ExpiresAt(b.certificates[Issuer]),
                    {row.decisionUntil, b.certificates[Issuer].until})
         /\ ExpiresAt(b.certificates[Issuer]) \in Nat
         /\ ExpiresAt(b.certificates[Issuer]) <= row.decisionUntil
         /\ ExpiresAt(b.certificates[Issuer]) <= b.certificates[Issuer].until
<1>1. b.certificates[Issuer].until \in Nat
  BY BundleTimes
<1>2. row.decisionUntil \in Nat /\ row.decisionUntil <= clock + MaxValidity
  BY RowFields
<1>3. clock + MaxValidity \in Nat
  BY RowFields, Lives
<1> QED  BY <1>1, <1>2, <1>3 DEF ExpiresAt, IsLeast

LEMMA StepType ==
  ASSUME TypeOK, [Next]_vars
  PROVE  TypeOK'
<1> USE RowFields
<1>1. CASE Observe
  <2>1. [row EXCEPT !.state = "observed", !.observed = clock] \in Rows
    BY DEF Rows, States
  <2> QED  BY <1>1, <2>1, TypeOfRequest DEF Observe
<1>2. CASE Abandon
  <2>1. [row EXCEPT !.state = "none"] \in Rows
    BY DEF Rows, States
  <2> QED  BY <1>2, <2>1, TypeOfRequest DEF Abandon
<1>3. CASE Quote
  <2>1. PICK until \in Deadlines(deployed, clock) :
          /\ IsLeast(until, Deadlines(deployed, clock))
          /\ Request([row EXCEPT !.state = "QUOTED", !.bundle = deployed,
                                 !.drawn = clock, !.quoteUntil = until])
    BY <1>3 DEF Quote
  <2>2. deployed \in Bundles /\ Issuer \in DOMAIN deployed.certificates
    BY <1>3 DEF Quote, IssuerAuthority, TypeOK
  <2>3. until \in 0..(clock + QuoteLife)
    BY <2>1, <2>2, DeadlineTimes
  <2>4. [row EXCEPT !.state = "QUOTED", !.bundle = deployed,
                    !.drawn = clock, !.quoteUntil = until] \in Rows
    BY <2>2, <2>3 DEF Rows, States
  <2> QED  BY <2>1, <2>4, TypeOfRequest
<1>4. CASE \E p \in Payments : Ask(p)
  <2>1. PICK p \in Payments : Ask(p)
    BY <1>4
  <2>2. [row EXCEPT !.state = "asked", !.after = p.after, !.before = p.before] \in Rows
    BY PaymentTimes DEF Rows, States
  <2> QED  BY <2>1, <2>2, TypeOfRequest DEF Ask
<1>5. CASE GiveUp
  <2>1. [row EXCEPT !.state = "QUOTED", !.after = 0, !.before = 0] \in Rows
    BY DEF Rows, States
  <2> QED  BY <1>5, <2>1, TypeOfRequest DEF GiveUp
<1>6. CASE Reserve
  <2> DEFINE passed == Passed(submission, row.bundle, clock)
             holds == Established(submission, passed, clock)
  <2>1. PICK until : /\ IsLeast(until, Expiries(submission, row.bundle, clock))
                     /\ Request([row EXCEPT !.state = "PREPARED", !.evaluated = clock,
                                            !.passed = passed, !.established = holds,
                                            !.decisionUntil = until])
    BY <1>6 DEF Reserve
  <2>2. until \in 0..(clock + MaxValidity)
    BY <2>1, ExpiryTimes
  <2>3. passed \subseteq submission.statements /\ holds \in BOOLEAN
    BY DEF Passed, Established
  <2> HIDE DEF passed, holds
  <2>4. [row EXCEPT !.state = "PREPARED", !.evaluated = clock, !.passed = passed,
                    !.established = holds, !.decisionUntil = until] \in Rows
    BY <2>2, <2>3 DEF Rows, States
  <2> QED  BY <2>1, <2>4, TypeOfRequest
<1>7. CASE Settle
  <2>1. PICK now \in row.evaluated..clock :
          Request([row EXCEPT !.state = "SETTLED", !.issued = now])
    BY <1>7 DEF Settle
  <2>2. now \in 0..clock
    BY <2>1
  <2>3. [row EXCEPT !.state = "SETTLED", !.issued = now] \in Rows
    BY <2>2 DEF Rows, States
  <2> QED  BY <2>1, <2>3, TypeOfRequest
<1>8. CASE Assemble
  <2> DEFINE until == ExpiresAt(row.bundle.certificates[Issuer])
  <2>1. until \in 0..(clock + MaxValidity)
    BY <1>8, ResultTimes DEF Assemble, IssuerAuthority
  <2>2. Request([row EXCEPT !.state = "ISSUED", !.resultUntil = until])
    BY <1>8 DEF Assemble
  <2> HIDE DEF until
  <2>3. [row EXCEPT !.state = "ISSUED", !.resultUntil = until] \in Rows
    BY <2>1 DEF Rows, States
  <2> QED  BY <2>2, <2>3, TypeOfRequest
<1>9. CASE Redeploy
  BY <1>9 DEF Redeploy, TypeOK
<1>10. CASE Publish
  <2>1. public' \in BOOLEAN /\ seen' \in Int /\ seen' <= clock
    BY <1>10 DEF Publish, TypeOK
  <2> QED  BY <1>10, <2>1 DEF Publish, TypeOK
<1>11. CASE Tick
  <2>1. clock' = clock + 1 /\ UNCHANGED <<deployed, submission, public, row>>
    BY <1>11 DEF Tick
  <2>2. seen' \in Int /\ seen' <= clock'
    BY <1>11, <2>1 DEF Tick, TypeOK
  <2>3. /\ 0..clock \subseteq 0..(clock + 1)
        /\ 0..(clock + QuoteLife) \subseteq 0..(clock + 1 + QuoteLife)
        /\ 0..(clock + MaxValidity) \subseteq 0..(clock + 1 + MaxValidity)
    BY Lives
  <2>4. row \in Rows'
    BY <2>1, <2>3 DEF Rows
  <2>5. clock' \in Nat
    BY <2>1
  <2> QED  BY <2>1, <2>2, <2>4, <2>5 DEF TypeOK, Rows
<1>12. CASE UNCHANGED vars
  BY <1>12 DEF vars, TypeOK
<1> QED
  BY <1>1, <1>2, <1>3, <1>4, <1>5, <1>6, <1>7, <1>8, <1>9, <1>10, <1>11, <1>12 DEF Next
LEMMA StepInvariant ==
  ASSUME IInv, [Next]_vars
  PROVE  IInv'
<1>t. TypeOK /\ TypeOK'
  BY StepType DEF IInv
<1>r. /\ row \in Rows /\ clock \in Nat /\ seen \in Int
      /\ row.observed \in Nat /\ row.observed <= clock /\ row.drawn \in Nat
      /\ row.drawn <= clock /\ row.evaluated \in Nat /\ row.evaluated <= clock
  BY <1>t DEF TypeOK, Rows
<1>u. UNCHANGED <<row, submission>> =>
        ReservedInv' /\ SettledInv' /\ AssembledInv'
  BY DEF IInv, ReservedInv, SettledInv, AssembledInv, ExpiresAt
<1>s. ASSUME NEW next \in Rows, Request(next), row.state # "none"
      PROVE  next.observed = row.observed => SeenInv'
  BY <1>s DEF IInv, SeenInv, Request
<1>e. ASSUME NEW next \in Rows, Request(next),
             next.state \in {"none", "observed", "QUOTED", "asked"}
      PROVE  ReservedInv' /\ SettledInv' /\ AssembledInv'
  BY <1>e DEF Request, ReservedInv, SettledInv, AssembledInv
<1> USE <1>r
<1>1. CASE Observe
  <2> DEFINE next == [row EXCEPT !.state = "observed", !.observed = clock]
  <2>1. Request(next) /\ next \in Rows /\ next.state = "observed" /\ next.observed = clock
    BY <1>1, RowFields, <1>t DEF Observe, Rows, States
  <2>2. submission.authority # {} => public
    BY <1>1 DEF Observe
  <2> HIDE DEF next
  <2>3. SeenInv'
    BY <2>1, <2>2 DEF IInv, SeenInv, Request
  <2> QED  BY <1>t, <1>e, <2>1, <2>3 DEF IInv
<1>2. CASE Abandon
  <2> DEFINE next == [row EXCEPT !.state = "none"]
  <2>1. Request(next) /\ next \in Rows /\ next.state = "none"
        /\ next.observed = row.observed /\ row.state # "none"
    BY <1>2 DEF Abandon, Rows, States
  <2> HIDE DEF next
  <2> QED  BY <1>t, <1>e, <1>s, <2>1 DEF IInv
<1>3. CASE Quote
  <2>1. PICK until : Request([row EXCEPT !.state = "QUOTED", !.bundle = deployed,
                                         !.drawn = clock, !.quoteUntil = until])
    BY <1>3 DEF Quote
  <2>2. row' = [row EXCEPT !.state = "QUOTED", !.bundle = deployed,
                           !.drawn = clock, !.quoteUntil = until]
        /\ row' \in Rows' /\ UNCHANGED <<clock, submission>>
    BY <1>t, <2>1 DEF Request, TypeOK, Rows
  <2>3. Request(row') /\ row' \in Rows
    BY <2>1, <2>2 DEF Request, Rows
  <2>4. row'.state = "QUOTED" /\ row'.observed = row.observed /\ row.state # "none"
    BY <1>3, <2>2 DEF Quote, Rows
  <2> QED  BY <1>t, <1>e, <1>s, <2>3, <2>4 DEF IInv
<1>4. CASE \E p \in Payments : Ask(p)
  <2>1. PICK p \in Payments : Ask(p)
    BY <1>4
  <2> DEFINE next == [row EXCEPT !.state = "asked", !.after = p.after,
                                 !.before = p.before]
  <2>2. Request(next) /\ next \in Rows /\ next.state = "asked"
        /\ next.observed = row.observed /\ row.state # "none"
    BY <2>1, PaymentTimes DEF Ask, Rows, States
  <2> HIDE DEF next
  <2> QED  BY <1>t, <1>e, <1>s, <2>2 DEF IInv
<1>5. CASE GiveUp
  <2> DEFINE next == [row EXCEPT !.state = "QUOTED", !.after = 0, !.before = 0]
  <2>1. Request(next) /\ next \in Rows /\ next.state = "QUOTED"
        /\ next.observed = row.observed /\ row.state # "none"
    BY <1>5 DEF GiveUp, Rows, States
  <2> HIDE DEF next
  <2> QED  BY <1>t, <1>e, <1>s, <2>1 DEF IInv
<1>6. CASE Reserve
  <2>1. PICK passed, holds, until :
          Request([row EXCEPT !.state = "PREPARED", !.evaluated = clock,
                              !.passed = passed, !.established = holds,
                              !.decisionUntil = until])
    BY <1>6 DEF Reserve
  <2>2. /\ row.state = "asked" /\ row.drawn <= clock /\ clock < row.quoteUntil
        /\ row.after <= clock /\ clock < row.before
    BY <1>6 DEF Reserve, PaymentHolds, Rows
  <2>3. /\ row'.state = "PREPARED" /\ row'.evaluated = clock
        /\ row'.drawn = row.drawn /\ row'.quoteUntil = row.quoteUntil
        /\ row'.after = row.after /\ row'.before = row.before
        /\ row'.observed = row.observed
        /\ UNCHANGED <<clock, submission, public, seen>>
    BY <2>1 DEF Request, Rows
  <2>4. SeenInv'
    BY <2>2, <2>3 DEF IInv, SeenInv
  <2>5. ReservedInv' /\ SettledInv' /\ AssembledInv'
    BY <2>2, <2>3 DEF ReservedInv, SettledInv, AssembledInv
  <2> QED  BY <1>t, <2>4, <2>5 DEF IInv
<1>7. CASE Settle
  <2>1. PICK now \in row.evaluated..clock :
          Request([row EXCEPT !.state = "SETTLED", !.issued = now])
    BY <1>7 DEF Settle
  <2>2. row.state = "PREPARED" /\ row.evaluated <= now
    BY <1>7, <2>1 DEF Settle
  <2>3. /\ row'.state = "SETTLED" /\ row'.issued = now
        /\ row'.drawn = row.drawn /\ row'.quoteUntil = row.quoteUntil
        /\ row'.after = row.after /\ row'.before = row.before
        /\ row'.observed = row.observed /\ row'.evaluated = row.evaluated
        /\ UNCHANGED <<clock, submission, public, seen>>
    BY <2>1 DEF Request, Rows
  <2>4. SeenInv'
    BY <2>2, <2>3 DEF IInv, SeenInv
  <2>5. ReservedInv' /\ SettledInv' /\ AssembledInv'
    BY <2>2, <2>3 DEF IInv, ReservedInv, SettledInv, AssembledInv
  <2> QED  BY <1>t, <2>4, <2>5 DEF IInv
<1>8. CASE Assemble
  <2> DEFINE until == ExpiresAt(row.bundle.certificates[Issuer])
  <2>1. row.state = "SETTLED" /\ Request([row EXCEPT !.state = "ISSUED",
                                                     !.resultUntil = until])
    BY <1>8 DEF Assemble
  <2> HIDE DEF until
  <2>2. /\ row'.state = "ISSUED" /\ row'.resultUntil = until
        /\ row'.drawn = row.drawn /\ row'.quoteUntil = row.quoteUntil
        /\ row'.after = row.after /\ row'.before = row.before
        /\ row'.observed = row.observed /\ row'.evaluated = row.evaluated
        /\ row'.issued = row.issued /\ row'.bundle = row.bundle
        /\ row'.passed = row.passed /\ row'.established = row.established
        /\ row'.decisionUntil = row.decisionUntil
        /\ UNCHANGED <<clock, submission, public, seen>>
    BY <2>1 DEF Request, Rows
  <2>3. SeenInv'
    BY <2>1, <2>2 DEF IInv, SeenInv
  <2>4. ReservedInv' /\ SettledInv'
    BY <2>1, <2>2 DEF IInv, ReservedInv, SettledInv
  <2>5. row'.resultUntil = ExpiresAt(row.bundle.certificates[Issuer])'
    BY <2>2 DEF ExpiresAt, until
  <2>6. AssembledInv'
    BY <1>8, <2>2, <2>5 DEF Assemble, AssembledInv
  <2> QED  BY <1>t, <2>3, <2>4, <2>6 DEF IInv
<1>9. CASE Redeploy
  <2>1. SeenInv'
    BY <1>9 DEF Redeploy, IInv, SeenInv
  <2> QED  BY <1>t, <1>u, <1>9, <2>1 DEF Redeploy, IInv
<1>10. CASE Publish
  <2>1. SeenInv'
    BY <1>10 DEF Publish, IInv, SeenInv
  <2> QED  BY <1>t, <1>u, <1>10, <2>1 DEF Publish, IInv
<1>11. CASE Tick
  <2>1. SeenInv'
    BY <1>11 DEF Tick, IInv, SeenInv
  <2> QED  BY <1>t, <1>u, <1>11, <2>1 DEF Tick, IInv
<1>12. CASE UNCHANGED vars
  <2>1. SeenInv'
    BY <1>12 DEF vars, IInv, SeenInv
  <2> QED  BY <1>t, <1>u, <1>12, <2>1 DEF vars, IInv
<1> QED
  BY <1>1, <1>2, <1>3, <1>4, <1>5, <1>6, <1>7, <1>8, <1>9, <1>10, <1>11, <1>12 DEF Next

(* Issuance keeps its inductive invariant, whatever is submitted, deployed    *)
(* and published.                                                             *)
THEOREM IssuanceInvariant == Spec => []IInv
<1>1. Init => IInv
  BY InitInvariant
<1>2. IInv /\ [Next]_vars => IInv'
  BY StepInvariant
<1> QED  BY <1>1, <1>2, PTL DEF Spec

(* Type correctness: the row of a purchase keeps its type, and no decision or *)
(* result outlasts MaxValidity (evaluator.mjs, expiry; mark.mjs).             *)
THEOREM IssuanceTypeCorrect == Spec => []TypeOK
<1>1. IInv => TypeOK
  BY DEF IInv
<1> QED  BY <1>1, IssuanceInvariant, PTL

-----------------------------------------------------------------------------
(* What the verifier finds in an issued result.                               *)

LEMMA IssuedIsVerified == IInv => IssuedVerifies
<1> SUFFICES ASSUME IInv, row.state = "ISSUED", Normalized
             PROVE  Verifies
  BY DEF IssuedVerifies
<1> DEFINE b == row.bundle
           at == row.evaluated
<1>1. /\ submission \in Submissions /\ b \in Bundles /\ at \in Nat
      /\ TypeOK /\ \A e \in submission.statements : e.locator # "unnormalized"
  BY RowFields DEF IInv, Normalized
<1>2. /\ TrustValid(b, row.issued) /\ IssuerAuthority(b, submission.bounds, row.issued)
      /\ TrustValid(b, at)
      /\ EvidenceHolds(submission, b, row.observed, at)
      /\ row.passed = Passed(submission, b, at)
      /\ row.established = Established(submission, row.passed, at)
      /\ IsLeast(row.decisionUntil, Expiries(submission, b, at))
      /\ row.resultUntil = ExpiresAt(b.certificates[Issuer])
  BY DEF IInv, AssembledInv
<1>3. VerifierTrust(b, row.issued) /\ VerifierTrust(b, at)
  BY <1>2 DEF VerifierTrust, TrustValid
<1>4. VerifierGrant(b, Issuer, "ISSUER", submission.bounds, {}, row.issued)
  BY <1>2, SameCertificates DEF IssuerAuthority
<1>5. VerifierEvidence(submission, b, row.observed, at)
  BY <1>2, SameEvidence
<1>6. row.passed = VerifierPassed(submission, b, at)
  BY <1>1, <1>2, SamePassed
<1>7. row.established <=>
        row.passed = submission.statements /\ Within(at, submission.bounds)
  BY <1>2 DEF Established
<1>8. IsLeast(row.decisionUntil, VerifierExpiries(submission, b, at))
  BY <1>1, <1>2, SameExpiries
<1>9. IsLeast(row.resultUntil, {row.decisionUntil, b.certificates[Issuer].until})
  BY <1>1, <1>2, ResultTimes DEF IssuerAuthority
<1>10. /\ at <= row.issued /\ row.drawn <= at /\ at < row.quoteUntil
       /\ row.after <= at /\ at < row.before
  BY DEF IInv, ReservedInv, SettledInv
<1> HIDE DEF b, at
<1> QED
  BY <1>3, <1>4, <1>5, <1>6, <1>7, <1>8, <1>9, <1>10 DEF Verifies, b, at

(* Whatever was deployed, published and decided while the purchase was under  *)
(* way, the verifier finds in the result what the service found.              *)
THEOREM EveryIssuedVerifies == Spec => []IssuedVerifies
  BY IssuanceInvariant, IssuedIsVerified, PTL

(* What a statement of an established decision rests on.                      *)
LEMMA EstablishedIsBacked ==
  ASSUME IInv, row.state = "ISSUED", row.established, NEW e \in submission.statements
  PROVE  \E w \in Authorities(submission, row.bundle, e, row.evaluated) :
           /\ row.resultUntil <= w.until
           /\ w.from <= submission.bounds.from /\ submission.bounds.until <= w.until
<1>1. TypeOK /\ submission \in Submissions /\ row.bundle \in Bundles
      /\ row.evaluated \in Nat /\ row.decisionUntil \in Nat
  BY RowFields DEF IInv
<1>2. e \in Passed(submission, row.bundle, row.evaluated)
  BY DEF IInv, AssembledInv, Established
<1>3. PICK w \in Authorities(submission, row.bundle, e, row.evaluated) :
        Covers(submission, w)
  BY <1>2 DEF Passed
<1>4. w.until \in Expiries(submission, row.bundle, row.evaluated)
  BY <1>3 DEF Expiries
<1>5. row.decisionUntil <= w.until
  BY <1>4 DEF IInv, AssembledInv, IsLeast
<1>6. Issuer \in DOMAIN row.bundle.certificates
      /\ row.resultUntil = ExpiresAt(row.bundle.certificates[Issuer])
  BY DEF IInv, AssembledInv, IssuerAuthority
<1>7. row.resultUntil <= row.decisionUntil /\ row.resultUntil \in Nat
  BY <1>1, <1>6, ResultTimes
<1>8. w.until \in Nat
  BY <1>1, <1>3, AuthorityTimes
<1> QED  BY <1>1, <1>3, <1>5, <1>7, <1>8 DEF Covers

LEMMA MarksAreBacked == IInv => MarkIsBacked
<1> SUFFICES ASSUME IInv, row.state = "ISSUED", row.established
             PROVE  MarkIsBacked
  BY DEF MarkIsBacked
<1> DEFINE b == row.bundle
           at == row.evaluated
           s == submission
<1>1. /\ TypeOK /\ s \in Submissions /\ b \in Bundles /\ at \in Nat
      /\ row.decisionUntil \in Nat
  BY RowFields DEF IInv
<1>2. /\ IsLeast(row.decisionUntil, Expiries(s, b, at))
      /\ EvidenceHolds(s, b, row.observed, at)
      /\ Issuer \in DOMAIN b.certificates
      /\ row.resultUntil = ExpiresAt(b.certificates[Issuer])
  BY DEF IInv, AssembledInv, IssuerAuthority
<1>3. /\ row.resultUntil \in Nat /\ row.resultUntil <= row.decisionUntil
      /\ row.resultUntil <= b.certificates[Issuer].until
  BY <1>1, <1>2, ResultTimes
<1>4. row.decisionUntil <= s.bounds.until /\ s.bounds.until \in Nat
  BY <1>1, <1>2, SubmissionTimes DEF IsLeast, Expiries
<1>5. row.resultUntil <= s.bounds.until
  BY <1>1, <1>3, <1>4
<1>6. ASSUME NEW e \in s.statements
      PROVE  \/ /\ e.key \in DOMAIN b.certificates
                /\ LET c == b.certificates[e.key]
                   IN  e.role \in c.roles /\ s.bounds.scope \in c.scopes /\ Backs(c, e)
             \/ /\ seen >= at - EvidenceLife
                /\ \E i \in DOMAIN Grants(s) :
                     LET g == Grants(s)[i]
                     IN  /\ g.key = e.key /\ g.role = e.role /\ e.payload \in g.payloads
                         /\ g.scope = s.bounds.scope /\ Backs(g, e)
  <2>1. PICK w \in Authorities(s, b, e, at) :
          /\ row.resultUntil <= w.until
          /\ w.from <= s.bounds.from /\ s.bounds.until <= w.until
    BY EstablishedIsBacked
  <2>2. CASE e.key \in DOMAIN b.certificates
    <3>1. w = b.certificates[e.key] /\ Certified(b, e.key, e.role, s.bounds, e.operations, at)
      BY <2>1, <2>2 DEF Authorities
    <3>2. e.role \in {"SOURCE", "TRANSITION"}
      BY <1>1, SubmissionTimes
    <3>3. e.role \in w.roles /\ s.bounds.scope \in w.scopes
      BY <3>1, <3>2 DEF Certified, Scoped
    <3>4. Backs(w, e)
      BY <2>1, <3>1 DEF Backs, Certified, Within, Revoked
    <3> QED  BY <2>2, <3>1, <3>3, <3>4
  <2>3. CASE e.key \notin DOMAIN b.certificates
    <3>1. PICK i \in DOMAIN Grants(s) : /\ w = Grants(s)[i]
                                        /\ Granted(s, w, e, at)
                                        /\ ~Revoked(b, e.key, at)
      BY <2>1, <2>3 DEF Authorities, FirstGrants
    <3>2. Backs(w, e)
      BY <2>1, <3>1 DEF Backs, Granted, Within, Revoked
    <3>3. s.authority # {}
      BY <1>1, <3>1, GrantsAreNumbered
    <3>4. Fresh(row.observed, at)
      BY <1>2, <3>3 DEF EvidenceHolds
    <3>5. row.observed <= seen
      BY <3>3 DEF IInv, SeenInv
    <3>6. row.observed \in Nat /\ seen \in Int
      BY <1>1 DEF TypeOK
    <3>7. seen >= at - EvidenceLife
      BY <1>1, <3>4, <3>5, <3>6, Lives DEF Fresh
    <3> QED  BY <3>1, <3>2, <3>7 DEF Granted
  <2> QED  BY <2>2, <2>3
<1> HIDE DEF b, at, s
<1> QED  BY <1>3, <1>5, <1>6 DEF MarkIsBacked, b, at, s

(* A Mark rests, for every statement and for as long as it lasts, on a        *)
(* certificate of the root or on a grant its namespace had published.         *)
THEOREM EveryMarkIsBacked == Spec => []MarkIsBacked
  BY IssuanceInvariant, MarksAreBacked, PTL

-----------------------------------------------------------------------------
(* Resolutions.                                                               *)

LEMMA ResolutionServes ==
  ASSUME NEW b \in Bundles, NEW t \in Nat, Resolvable(b, t),
         NEW until, IsLeast(until, Deadlines(b, t)),
         NEW at \in t..(until - 1),
         \A r \in b.revocations : r.key = Issuer => at < r.at
  PROVE  VerifierResolves(b, t, until, at) /\ Bootstraps(b, t, until, at)
<1> DEFINE c == b.certificates[Issuer]
<1>1. Issuer \in DOMAIN b.certificates /\ TrustValid(b, t)
  BY DEF Resolvable, PublicResolution
<1>2. PICK scope \in c.scopes, jurisdiction \in c.jurisdictions :
        Certified(b, Issuer, "DISCOVERY",
                  [scope |-> scope, jurisdiction |-> jurisdiction], {}, t)
  BY DEF Resolvable, PublicResolution
<1>3. until \in Nat /\ until <= t + QuoteLife
  <2>1. until \in 0..(t + QuoteLife)
    BY <1>1, DeadlineTimes
  <2> QED  BY <2>1, Lives
<1>4. at \in Nat /\ t <= at /\ at < until
  BY <1>3
<1>5. until <= c.until /\ until <= b.profile.until /\ until <= b.status.until
  BY DEF IsLeast, Deadlines
<1>6. Within(at, b.profile) /\ Within(at, b.status)
  BY <1>1, <1>3, <1>4, <1>5, BundleTimes DEF TrustValid, Within
<1>7. Within(at, c)
  BY <1>1, <1>2, <1>3, <1>4, <1>5, BundleTimes DEF Certified, Within
<1>8. \A r \in b.revocations : ~(r.key = Issuer /\ r.at <= at)
  BY <1>4, BundleTimes
<1>9. Certified(b, Issuer, "DISCOVERY",
                [scope |-> scope, jurisdiction |-> jurisdiction], {}, at)
  BY <1>2, <1>7, <1>8 DEF Certified, Revoked
<1>10. "DISCOVERY" \in c.roles
  BY <1>2 DEF Certified
<1>11. VerifierGrant(b, Issuer, "DISCOVERY",
                     [scope |-> scope, jurisdiction |-> jurisdiction], {}, at)
  BY <1>1, <1>9, SameCertificates
<1>12. VerifierResolves(b, t, until, at)
  BY <1>2, <1>3, <1>4, <1>5, <1>6, <1>11 DEF VerifierResolves, VerifierTrust
<1>13. Bootstraps(b, t, until, at)
  BY <1>1, <1>3, <1>4, <1>6, <1>7, <1>8, <1>10 DEF Bootstraps
<1> QED  BY <1>12, <1>13

(* A resolution serves its whole life, whatever bundle it was drawn under.    *)
THEOREM EveryResolutionUsable == Spec => []ResolutionUsable
<1>1. TypeOK => ResolutionUsable
  BY ResolutionServes DEF TypeOK, ResolutionUsable
<1> QED  BY <1>1, IssuanceTypeCorrect, PTL
=============================================================================
