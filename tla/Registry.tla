------------------------------- MODULE Registry -------------------------------
(***************************************************************************)
(* The current standing of one issued result: the append-only event log    *)
(* (store.mjs), the root-signed commands that extend it                    *)
(* (applyRegistryCommand) and the signed snapshot GET /v1/registry/{id}    *)
(* answers with (src/src/service.mjs), as the independent verifier         *)
(* (verify/verify_mark.py) reads it later, by its own clock.               *)
(*                                                                         *)
(* The handler awaits between its two reads of the log, between them and   *)
(* the clock, and at each namespace it observes; commands, changes of the  *)
(* published manifests and redeployments happen at any of those points.    *)
(* A process keeps the trust bundle and the signing key it was started     *)
(* with, and processes of different deployments serve side by side.        *)
(* The hash of an event is its position: an event holds the hash of the    *)
(* one before it and the log is only appended to.                          *)
(***************************************************************************)
EXTENDS Integers, Sequences, FiniteSets

CONSTANTS
  Namespaces,  \* number of namespaces the submission asks authority from
  Window,      \* seconds a snapshot and an observation last: 300
  Skew,        \* seconds a clock may be ahead: 30
  ExpiresAt,   \* expires_at of the result
  Keys,        \* signing keys of the service's deployments
  Bundles,     \* trust bundles it is deployed with, each with its signing key
  CommandTimes, \* bound: the times commands may be dated with
  MaxTime,     \* bound: the clock stops here
  MaxEvents,   \* bound: events of the log
  MaxDeployments \* bound: bundles deployed in one behaviour

(* What a bundle says of a key: a certificate good from `from' until        *)
(* `until', the same time when there is none, and a revocation in effect    *)
(* from `revoked' on, announced or not. validateTrust holds the bundle      *)
(* itself from `from' until `until', the first end of its status snapshot   *)
(* and profile authorization. The certificates, manifests and revocations   *)
(* the result's statements rest on grant them within `sources'.             *)
Certificate == [from: Nat, until: Nat, revoked: Nat]
Bundle == [key: Keys, certificate: [Keys -> Certificate], from: Nat, until: Nat,
           sources: [from: Nat, until: Nat]]

ASSUME RegistryAssumption ==
  /\ {Namespaces, Window, Skew, ExpiresAt, MaxTime, MaxDeployments} \subseteq Nat
  /\ MaxEvents \in Nat \ {0}
  /\ CommandTimes \subseteq Nat
  /\ Bundles \subseteq Bundle /\ Bundles # {}

VARIABLES
  clock,      \* the service's clock
  published,  \* per namespace: its manifest is the submitted one
  seenAt,     \* per namespace: the last time that was so
  deployed,   \* the bundles of the processes that may still be running
  log,        \* registry_events of the result
  pc,         \* the await the GET handler is at
  job,        \* its local variables
  snapshot    \* what it answered with, until the next request begins

vars == <<clock, published, seenAt, deployed, log, pc, job, snapshot>>

(* SUSPENDED stands for SUSPENDED, DISPUTED and LIMITED as commands, all    *)
(* of which may be followed by others; WITHDRAWN for the terminal ones.     *)
Commanded == {"ACTIVE", "SUSPENDED", "WITHDRAWN"}
Terminal  == {"WITHDRAWN"}
Statuses  == Commanded \cup {"ASSESSED_NO_MARK", "EXPIRED", "LIMITED"}

(* `expected' is expected_previous_hash of the event's command, 0 for the   *)
(* first event; `key' signed it; `appended' is when the event was stored.   *)
Event == [status: Commanded \cup {"ASSESSED_NO_MARK"}, at: Nat,
          expected: Nat, key: Keys, appended: Nat]

Snapshot == [status: Statuses, observed: Nat, until: Nat, events: Nat,
             evidence: Seq(Nat), bundle: Bundles]

AnyBundle == CHOOSE bundle \in Bundles : TRUE

NoJob == [events |-> 0, evidence |-> <<>>, bundle |-> AnyBundle]

NoSnapshot == [status |-> "EXPIRED", observed |-> 0, until |-> 0, events |-> 0,
               evidence |-> <<>>, bundle |-> AnyBundle]

TypeOK ==
  /\ clock \in Nat
  /\ published \in [1..Namespaces -> BOOLEAN]
  /\ seenAt \in [1..Namespaces -> Nat]
  /\ deployed \subseteq Bundles
  /\ log \in Seq(Event) /\ log # <<>>
  /\ pc \in {"idle", "observe", "reread", "sign"}
  /\ job \in [events: 0..Len(log), evidence: Seq(Nat), bundle: Bundles]
  /\ snapshot \in Snapshot /\ snapshot.events <= Len(log)
  /\ Len(job.evidence) <= Namespaces /\ Len(snapshot.evidence) <= Namespaces

(* validateTrust, and issuerAuthority and authorize for one key, at a time. *)
Valid(bundle, at) == bundle.from <= at /\ at < bundle.until

Authorized(bundle, key, at) ==
  /\ bundle.certificate[key].from <= at /\ at < bundle.certificate[key].until
  /\ at < bundle.certificate[key].revoked

(* A process starts only with a bundle and a key that are good now.         *)
Starts(bundle, at) == Valid(bundle, at) /\ Authorized(bundle, bundle.key, at)

(* finish() stored the result and its first event together, both signed by  *)
(* the process that issued it; no other deployment has been made yet.       *)
Init ==
  /\ clock = 0
  /\ published = [n \in 1..Namespaces |-> TRUE]
  /\ seenAt = [n \in 1..Namespaces |-> 0]
  /\ \E bundle \in Bundles, status \in {"ACTIVE", "ASSESSED_NO_MARK"} :
       /\ Starts(bundle, 0)
       /\ deployed = {bundle}
       /\ log = <<[status |-> status, at |-> 0, expected |-> 0,
                   key |-> bundle.key, appended |-> 0]>>
  /\ pc = "idle"
  /\ job = NoJob
  /\ snapshot = NoSnapshot

LastEvent(events) == log[events]
Marked == log[1].status # "ASSESSED_NO_MARK"

-----------------------------------------------------------------------------
(* The clock, the published manifests and the deployed trust bundle.        *)
Tick ==
  /\ clock < MaxTime
  /\ clock' = clock + 1
  /\ seenAt' = [n \in 1..Namespaces |->
                  IF published[n] THEN clock + 1 ELSE seenAt[n]]
  /\ UNCHANGED <<published, deployed, log, pc, job, snapshot>>

(* A controller changes, removes or restores a manifest. *)
Publish(n) ==
  /\ published' = [published EXCEPT ![n] = ~@]
  /\ seenAt' = [seenAt EXCEPT ![n] = clock]
  /\ UNCHANGED <<clock, deployed, log, pc, job, snapshot>>

(* A process is started with another bundle; those before it run on.        *)
Redeploy(bundle) ==
  /\ bundle \notin deployed
  /\ Cardinality(deployed) < MaxDeployments
  /\ Starts(bundle, clock)
  /\ deployed' = deployed \cup {bundle}
  /\ UNCHANGED <<clock, published, seenAt, log, pc, job, snapshot>>

-----------------------------------------------------------------------------
(* A command was signed when the log had `expected' events; it reaches the  *)
(* service late, twice or never. appendEvent() holds the purchase's row     *)
(* lock while it decides. Neither the bundle nor the authority of the key   *)
(* the event is signed with is looked at.                                   *)
AcceptsUnchained(expected, status, at) ==  \* faulty: any predecessor will do
  /\ status \in Commanded
  /\ at <= clock + Skew
  /\ Marked
  /\ LastEvent(Len(log)).status \notin Terminal
  /\ at >= LastEvent(Len(log)).at

Accepts(expected, status, at) ==
  /\ status \in Commanded
  /\ at <= clock + Skew
  /\ expected = Len(log)
  /\ Marked
  /\ LastEvent(Len(log)).status \notin Terminal
  /\ at >= LastEvent(Len(log)).at

(* appendEvent(): in one transaction, after the events it is chained to. *)
AppendEvent(event) == log' = Append(log, event)

ApplyRegistryCommand(bundle, expected, status, at) ==
  /\ Len(log) < MaxEvents
  /\ Accepts(expected, status, at)
  /\ AppendEvent([status |-> status, at |-> at, expected |-> expected,
                  key |-> bundle.key, appended |-> clock])
  /\ UNCHANGED <<clock, published, seenAt, deployed, pc, job, snapshot>>

-----------------------------------------------------------------------------
(* GET /v1/registry/{id}: the first read decides whether to observe at all.  *)
(* A later answer does not depend on an earlier one: one snapshot at a time  *)
(* is judged, for as long as no other request begins.                        *)
Read(bundle) ==
  /\ pc = "idle"
  /\ job' = [events |-> Len(log), evidence |-> <<>>, bundle |-> bundle]
  /\ pc' = IF /\ LastEvent(Len(log)).status = "ACTIVE"
              /\ clock < ExpiresAt
              /\ Namespaces > 0
             THEN "observe" ELSE "reread"
  /\ snapshot' = NoSnapshot
  /\ UNCHANGED <<clock, published, seenAt, deployed, log>>

(* observeNamespaces: one request per namespace, in order; one that fails   *)
(* loses the others too.                                                    *)
Observe ==
  /\ pc = "observe"
  /\ LET n == Len(job.evidence) + 1 IN
     \/ /\ published[n]
        /\ job' = [job EXCEPT !.evidence = Append(@, clock)]
        /\ pc' = IF n = Namespaces THEN "reread" ELSE "observe"
     \/ /\ job' = [job EXCEPT !.evidence = <<>>]
        /\ pc' = "reread"
  /\ UNCHANGED <<clock, published, seenAt, deployed, log, snapshot>>

EventsBefore == job.events               \* faulty: keeps what the first read saw

EventsBeyond == Len(log) + 1         \* faulty: counts from zero

EventsNow == Len(log)

Reread ==
  /\ pc = "reread"
  /\ job' = [job EXCEPT !.events = EventsNow]
  /\ pc' = "sign"
  /\ UNCHANGED <<clock, published, seenAt, deployed, log, snapshot>>

(* attachNamespaceEvidence: one fresh observation per namespace, made       *)
(* before `at' by an observer in office from then on.                       *)
ObservedFreshly(bundle, evidence, at) ==
  /\ Len(evidence) = Namespaces
  /\ \A n \in DOMAIN evidence :
       /\ bundle.certificate[bundle.key].from <= evidence[n]
       /\ at < bundle.certificate[bundle.key].until
       /\ at < bundle.certificate[bundle.key].revoked
       /\ evidence[n] <= at /\ at <= evidence[n] + Window

(* The key that issued the result and the statements it rests on are still  *)
(* in force.                                                                *)
AuthorityHolds(bundle, at) ==
  /\ Authorized(bundle, log[1].key, at)
  /\ bundle.sources.from <= at /\ at < bundle.sources.until

(* liveAuthorityIntact *)
Intact(bundle, evidence, at) ==
  ObservedFreshly(bundle, evidence, at) /\ AuthorityHolds(bundle, at)

StandingAt(last, bundle, evidence, at) ==
  CASE last # "ACTIVE"                   -> last
    [] last = "ACTIVE" /\ at >= ExpiresAt -> "EXPIRED"
    [] OTHER -> IF Intact(bundle, evidence, at) THEN "ACTIVE" ELSE "LIMITED"

(* What is signed lasts as long as the observation, what it rests on, the   *)
(* bundle and the signer's certificate do: valid_until is the first of      *)
(* these times. A revocation announced for later is not among them.         *)
DeadlinesOfSnapshot(bundle, evidence) ==     \* faulty: the observations are forgotten
  {clock + Window, bundle.until, bundle.certificate[bundle.key].until}

Deadlines(bundle, evidence) ==
  {clock + Window, bundle.until, bundle.certificate[bundle.key].until} \cup
    {evidence[n] + Window : n \in DOMAIN evidence}

Answer(status, evidence) ==
  \E until \in Deadlines(job.bundle, evidence) :
    /\ \A t \in Deadlines(job.bundle, evidence) : until <= t
    /\ snapshot' = [status |-> status, observed |-> clock, until |-> until,
                    events |-> job.events, evidence |-> evidence,
                    bundle |-> job.bundle]

Sign ==
  /\ pc = "sign"
  /\ pc' = "idle"
  /\ job' = NoJob
  /\ IF Valid(job.bundle, clock) /\ Authorized(job.bundle, job.bundle.key, clock)
       THEN LET status == StandingAt(LastEvent(job.events).status, job.bundle,
                                     job.evidence, clock)
            IN  Answer(status, IF status = "ACTIVE" THEN job.evidence ELSE <<>>)
       ELSE UNCHANGED snapshot
  /\ UNCHANGED <<clock, published, seenAt, deployed, log>>

(* The answer is lost, the database fails, the process dies. *)
Abandon ==
  /\ pc # "idle"
  /\ pc' = "idle"
  /\ job' = NoJob
  /\ UNCHANGED <<clock, published, seenAt, deployed, log, snapshot>>

Next ==
  \/ Tick
  \/ \E bundle \in Bundles : Redeploy(bundle)
  \/ \E n \in 1..Namespaces : Publish(n)
  \/ \E bundle \in deployed, expected \in 1..Len(log), status \in Commanded,
        at \in CommandTimes : ApplyRegistryCommand(bundle, expected, status, at)
  \/ \E bundle \in deployed : Read(bundle)
  \/ Observe \/ Reread \/ Sign \/ Abandon

Spec == Init /\ [][Next]_vars

-----------------------------------------------------------------------------
(* verify_registry of verify_mark.py. Of the first k events, the links:     *)
(* each names the one before it, none follows a terminal one, dates do not  *)
(* go back.                                                                 *)
LinksVerify(k) ==
  /\ k > 0
  /\ log[1].expected = 0
  /\ \A i \in 2..k :
       /\ log[i].expected = i - 1
       /\ log[i - 1].status \notin Terminal
       /\ log[i].at >= log[i - 1].at

(* Their signers: grant() at the date of each event.                        *)
SignersVerify(bundle, k) ==
  \A i \in 1..k : Authorized(bundle, log[i].key, log[i].at)

Current(at) == snapshot.observed <= at + Skew /\ at < snapshot.until

(* namespace_keys *)
NamespacesVerify(at) ==
  LET observer == snapshot.bundle.certificate[snapshot.bundle.key] IN
  /\ Len(snapshot.evidence) = Namespaces
  /\ \A n \in DOMAIN snapshot.evidence :
       /\ observer.from <= snapshot.evidence[n]
       /\ snapshot.evidence[n] <= at
       /\ at < observer.until
       /\ at - snapshot.evidence[n] <= Window
       /\ at < observer.revoked

EvidenceVerifies ==
  snapshot.evidence # <<>> =>
    /\ NamespacesVerify(snapshot.observed)
    /\ \A n \in DOMAIN snapshot.evidence :
         snapshot.until <= snapshot.evidence[n] + Window

Expected(at) ==
  LET last == LastEvent(snapshot.events).status IN
  IF last = "ACTIVE"
    THEN IF at >= ExpiresAt THEN "EXPIRED"
         ELSE IF AuthorityHolds(snapshot.bundle, at) /\ NamespacesVerify(at)
           THEN "ACTIVE" ELSE "LIMITED"
    ELSE last

(* The standing it finds in the snapshot at its own time, or "REFUSED".     *)
Verdict(at) ==
  IF /\ Valid(snapshot.bundle, at)
     /\ Authorized(snapshot.bundle, snapshot.bundle.key, at)
     /\ Current(at)
     /\ snapshot.until <= snapshot.observed + Window
     /\ EvidenceVerifies
     /\ SignersVerify(snapshot.bundle, snapshot.events)
     /\ LinksVerify(snapshot.events)
     /\ snapshot.status = Expected(at)
    THEN snapshot.status ELSE "REFUSED"

(* The clocks a verifier may have now. *)
VerifierClocks == {at \in 0..(clock + Skew) : clock <= at + Skew}

-----------------------------------------------------------------------------
(* Commands that arrive late, twice or in competition, at processes of any  *)
(* deployment (service.mjs:146-157), leave a chain, and events dated no     *)
(* earlier than the issue and no later than Skew after they were stored. So *)
(* verify_registry accepts the log (verify_mark.py:352-362) under any bundle*)
(* that has the events' signers in office for all that time. For others it  *)
(* may not: what is dated before a rotated key's certificate begins or past *)
(* its end is stored nevertheless.                                          *)
InOffice(bundle, key, from, to) ==
  /\ bundle.certificate[key].from <= from
  /\ to < bundle.certificate[key].until
  /\ to < bundle.certificate[key].revoked

LogVerifies ==
  /\ LinksVerify(Len(log))
  /\ \A bundle \in Bundles :
       (\A i \in 1..Len(log) :
          InOffice(bundle, log[i].key, log[1].at, log[i].appended + Skew))
         => SignersVerify(bundle, Len(log))

(* The log said ACTIVE at some moment not before t. *)
WasActiveSince(t) ==
  \E i \in 1..Len(log) : /\ log[i].status = "ACTIVE"
                         /\ i < Len(log) => log[i + 1].appended >= t

(* docs/FIRST-PUBLIC-V1.md:13, "at-most-300-second observation of current   *)
(* standing", for a submission that asks namespaces for authority: who      *)
(* concludes ACTIVE from a snapshot does so at most Window after (by a      *)
(* clock that may be Skew behind) the log said so and every namespace       *)
(* published the submitted manifest, although both may change while the     *)
(* handler waits and after it answered; the Mark has not expired.           *)
Horizon == clock - (Window + Skew)

ActiveIsRecent ==
  \A at \in VerifierClocks :
    Namespaces > 0 /\ Verdict(at) = "ACTIVE" =>
      /\ WasActiveSince(Horizon)
      /\ \A n \in 1..Namespaces : seenAt[n] >= Horizon
      /\ at < ExpiresAt

(* What a verifier may hold against a snapshot within its validity, by a    *)
(* clock that is not behind it: an event dated outside its signer's office, *)
(* as the answering process's bundle has it; the announced revocation of    *)
(* the snapshot's own signer, which valid_until does not stop at            *)
(* (service.mjs:97); or, if the log says ACTIVE, that the Mark expired or   *)
(* the authority behind it began or ended in between. Nothing else: what    *)
(* the service checked (service.mjs:91-95) with its own program and at its  *)
(* own time, verify_mark.py:343-371 finds again later.                      *)
RefusalsExplained ==
  \A at \in VerifierClocks :
    Current(at) /\ snapshot.observed <= at /\ Verdict(at) = "REFUSED" =>
      \/ ~SignersVerify(snapshot.bundle, snapshot.events)
      \/ at >= snapshot.bundle.certificate[snapshot.bundle.key].revoked
      \/ /\ LastEvent(snapshot.events).status = "ACTIVE"
         /\ \/ at >= ExpiresAt
            \/ AuthorityHolds(snapshot.bundle, at)
                 # AuthorityHolds(snapshot.bundle, snapshot.observed)
=============================================================================
