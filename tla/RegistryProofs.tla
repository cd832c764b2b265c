---------------------------- MODULE RegistryProofs ----------------------------
(***************************************************************************)
(* Proofs about Registry, for any number of namespaces and commands and    *)
(* for all bundles, keys and times.                                        *)
(*                                                                         *)
(* ActiveIsRecent is about times long past: the inductive invariant keeps, *)
(* of each observation the handler or a snapshot holds, that the namespace *)
(* still published the manifest then and that whatever left the log the    *)
(* handler read was appended no earlier (it reads the log again last).     *)
(***************************************************************************)
EXTENDS Registry, TLAPS

(* A namespace seen at a time was seen no later than the record says. *)
SeenInv == \A n \in 1..Namespaces : published[n] => seenAt[n] = clock

Observed(evidence) ==
  \A n \in DOMAIN evidence : evidence[n] <= clock /\ evidence[n] <= seenAt[n]

(* The log was read, k events long, after every one of the observations. *)
ReadAfter(k, evidence) ==
  k < Len(log) => \A n \in DOMAIN evidence : evidence[n] <= log[k + 1].appended

JobInv ==
  /\ Observed(job.evidence)
  /\ pc = "observe" => Len(job.evidence) < Namespaces
  /\ pc = "sign" => job.events > 0 /\ ReadAfter(job.events, job.evidence)

SnapshotInv ==
  snapshot.status = "ACTIVE" =>
    /\ snapshot.events > 0
    /\ log[snapshot.events].status = "ACTIVE"
    /\ Len(snapshot.evidence) = Namespaces
    /\ Observed(snapshot.evidence)
    /\ ReadAfter(snapshot.events, snapshot.evidence)

LogIsChained == LinksVerify(Len(log))

IInv == TypeOK /\ LogIsChained /\ SeenInv /\ JobInv /\ SnapshotInv

-----------------------------------------------------------------------------
LEMMA EventType ==
  ASSUME TypeOK, NEW i \in 1..Len(log)
  PROVE  /\ log[i] \in Event
         /\ log[i].status \in Commanded \cup {"ASSESSED_NO_MARK"}
         /\ log[i].appended \in Nat
  <1>1. log[i] \in Event
    BY DEF TypeOK
  <1> QED BY <1>1 DEF Event

LEMMA BundleType ==
  ASSUME NEW bundle \in Bundles
  PROVE  /\ bundle.key \in Keys /\ bundle.from \in Nat /\ bundle.until \in Nat
         /\ bundle.sources.from \in Nat /\ bundle.sources.until \in Nat
         /\ \A key \in Keys : /\ bundle.certificate[key].from \in Nat
                              /\ bundle.certificate[key].until \in Nat
                              /\ bundle.certificate[key].revoked \in Nat
  BY RegistryAssumption DEF Bundle, Certificate

LEMMA NoSnapshotType ==
  /\ AnyBundle \in Bundles
  /\ NoSnapshot \in Snapshot /\ NoSnapshot.evidence = <<>>
  /\ NoSnapshot.events = 0 /\ NoSnapshot.status # "ACTIVE"
  <1>1. AnyBundle \in Bundles
    BY RegistryAssumption DEF AnyBundle
  <1> QED BY <1>1 DEF NoSnapshot, Snapshot, Statuses

LEMMA NoJobType ==
  /\ NoJob.events = 0 /\ NoJob.evidence = <<>>
  /\ \A k \in Nat : NoJob \in [events: 0..k, evidence: Seq(Nat), bundle: Bundles]
  BY NoSnapshotType DEF NoJob

LEMMA InitEstablishes == Init => IInv
  <1> SUFFICES ASSUME Init PROVE IInv
    OBVIOUS
  <1>1. PICK bundle \in Bundles, status \in {"ACTIVE", "ASSESSED_NO_MARK"} :
          /\ deployed = {bundle}
          /\ log = <<[status |-> status, at |-> 0, expected |-> 0,
                      key |-> bundle.key, appended |-> 0]>>
    BY DEF Init
  <1>2. log \in Seq(Event) /\ Len(log) = 1 /\ log # <<>> /\ log[1].expected = 0
    BY <1>1, BundleType DEF Event, Commanded
  <1>4. NoSnapshot \in Snapshot /\ NoSnapshot.evidence = <<>>
          /\ NoSnapshot.events = 0 /\ NoSnapshot.status # "ACTIVE"
    BY NoSnapshotType
  <1>5. TypeOK
    BY <1>1, <1>2, <1>4, NoJobType, RegistryAssumption DEF Init, TypeOK, NoJob
  <1>6. LogIsChained
    BY <1>2 DEF LogIsChained, LinksVerify
  <1>7. SeenInv /\ JobInv /\ SnapshotInv
    BY <1>4 DEF Init, SeenInv, JobInv, SnapshotInv, Observed, NoJob
  <1> QED BY <1>5, <1>6, <1>7 DEF IInv

(* What is known of an observation stays true while the clock, the sightings *)
(* and the log grow.                                                         *)
LEMMA ObservedStays ==
  ASSUME TypeOK, NEW evidence \in Seq(Nat), Len(evidence) <= Namespaces,
         Observed(evidence), clock' \in Nat, clock <= clock',
         seenAt' \in [1..Namespaces -> Nat],
         \A n \in 1..Namespaces : seenAt[n] <= seenAt'[n]
  PROVE  Observed(evidence)'
  <1> SUFFICES ASSUME NEW n \in DOMAIN evidence
               PROVE  evidence[n] <= clock' /\ evidence[n] <= seenAt'[n]
    BY DEF Observed
  <1>1. n \in 1..Namespaces /\ evidence[n] \in Nat
    BY RegistryAssumption
  <1>2. evidence[n] <= clock /\ evidence[n] <= seenAt[n]
    BY DEF Observed
  <1> QED BY <1>1, <1>2 DEF TypeOK

LEMMA TickPreserves == IInv /\ Tick => IInv'
  <1> SUFFICES ASSUME IInv, Tick PROVE IInv'
    OBVIOUS
  <1>1. /\ clock' = clock + 1 /\ clock' \in Nat
        /\ UNCHANGED <<published, deployed, log, pc, job, snapshot>>
        /\ seenAt' \in [1..Namespaces -> Nat]
        /\ \A n \in 1..Namespaces :
             seenAt'[n] = IF published[n] THEN clock + 1 ELSE seenAt[n]
    BY DEF Tick, IInv, TypeOK
  <1>2. \A n \in 1..Namespaces : seenAt[n] <= seenAt'[n]
    BY <1>1 DEF IInv, TypeOK, SeenInv
  <1>3. TypeOK' /\ LogIsChained' /\ SeenInv'
    BY <1>1 DEF IInv, TypeOK, LogIsChained, LinksVerify, SeenInv
  <1>4. JobInv'
    <2>1. Observed(job.evidence)'
      BY <1>1, <1>2, ObservedStays DEF IInv, TypeOK, JobInv
    <2> QED BY <1>1, <2>1 DEF IInv, JobInv, ReadAfter
  <1>5. SnapshotInv'
    <2>1. snapshot.status = "ACTIVE" => Observed(snapshot.evidence)'
      BY <1>1, <1>2, ObservedStays DEF IInv, TypeOK, SnapshotInv, Snapshot
    <2> QED BY <1>1, <2>1 DEF IInv, SnapshotInv, ReadAfter
  <1> QED BY <1>3, <1>4, <1>5 DEF IInv

LEMMA PublishPreserves ==
  ASSUME IInv, NEW n \in 1..Namespaces, Publish(n)
  PROVE  IInv'
  <1>1. /\ UNCHANGED <<clock, deployed, log, pc, job, snapshot>>
        /\ published' = [published EXCEPT ![n] = ~@]
        /\ seenAt' = [seenAt EXCEPT ![n] = clock]
        /\ seenAt' \in [1..Namespaces -> Nat]
    BY DEF Publish, IInv, TypeOK
  <1>2. published' \in [1..Namespaces -> BOOLEAN]
    BY <1>1 DEF IInv, TypeOK
  <1>3. TypeOK' /\ LogIsChained'
    BY <1>1, <1>2 DEF IInv, TypeOK, LogIsChained, LinksVerify
  <1>4. SeenInv'
    BY <1>1 DEF IInv, TypeOK, SeenInv
  <1>5. ASSUME NEW evidence \in Seq(Nat), Len(evidence) <= Namespaces,
               Observed(evidence)
        PROVE  Observed(evidence)'
    BY <1>1, <1>5 DEF IInv, TypeOK, Observed
  <1>6. JobInv'
    BY <1>1, <1>5 DEF IInv, TypeOK, JobInv, ReadAfter
  <1>7. SnapshotInv'
    BY <1>1, <1>5 DEF IInv, TypeOK, SnapshotInv, ReadAfter, Snapshot
  <1> QED BY <1>3, <1>4, <1>6, <1>7 DEF IInv

LEMMA RedeployPreserves ==
  ASSUME IInv, NEW bundle \in Bundles, Redeploy(bundle)
  PROVE  IInv'
  <1>1. /\ UNCHANGED <<clock, published, seenAt, log, pc, job, snapshot>>
        /\ deployed' \subseteq Bundles
    BY DEF Redeploy, IInv, TypeOK
  <1> QED
    BY <1>1 DEF IInv, TypeOK, LogIsChained, LinksVerify, SeenInv, JobInv,
                SnapshotInv, Observed, ReadAfter

LEMMA CommandPreserves ==
  ASSUME IInv, NEW bundle \in deployed, NEW expected \in 1..Len(log),
         NEW status \in Commanded, NEW at \in CommandTimes,
         ApplyRegistryCommand(bundle, expected, status, at)
  PROVE  IInv'
  <1> DEFINE event == [status |-> status, at |-> at, expected |-> expected,
                       key |-> bundle.key, appended |-> clock]
  <1>1. /\ UNCHANGED <<clock, published, seenAt, deployed, pc, job, snapshot>>
        /\ log' = Append(log, event)
        /\ expected = Len(log)
        /\ log[Len(log)].status \notin Terminal
        /\ at >= log[Len(log)].at
    BY DEF ApplyRegistryCommand, AppendEvent, Accepts, LastEvent
  <1>2. event \in Event /\ event.appended = clock
    <2>1. bundle.key \in Keys
      BY BundleType DEF IInv, TypeOK
    <2> QED BY <2>1, RegistryAssumption DEF IInv, TypeOK, Event
  <1>3. /\ log' \in Seq(Event) /\ log' # <<>>
        /\ Len(log') = Len(log) + 1 /\ Len(log) \in Nat \ {0}
        /\ \A i \in 1..Len(log) : log'[i] = log[i]
        /\ log'[Len(log) + 1] = event
    <2> HIDE DEF event
    <2> QED BY <1>1, <1>2 DEF IInv, TypeOK
  <1>4. TypeOK'
    <2>1. /\ job' \in [events: 0..Len(log'), evidence: Seq(Nat), bundle: Bundles]
          /\ snapshot' \in Snapshot /\ snapshot'.events <= Len(log')
      BY <1>1, <1>3 DEF IInv, TypeOK, Snapshot
    <2> QED BY <1>1, <1>3, <2>1 DEF IInv, TypeOK
  <1>5. LogIsChained'
    <2>1. log'[1].expected = 0
      BY <1>3 DEF IInv, LogIsChained, LinksVerify
    <2>2. ASSUME NEW i \in 2..Len(log')
          PROVE  /\ log'[i].expected = i - 1
                 /\ log'[i - 1].status \notin Terminal
                 /\ log'[i].at >= log'[i - 1].at
      <3>1. CASE i <= Len(log)
        <4>1. i \in 2..Len(log) /\ i \in 1..Len(log) /\ i - 1 \in 1..Len(log)
          BY <1>3, <3>1
        <4>2. log'[i] = log[i] /\ log'[i - 1] = log[i - 1]
          BY <1>3, <4>1
        <4> QED BY <4>1, <4>2 DEF IInv, LogIsChained, LinksVerify
      <3>2. CASE i = Len(log) + 1
        BY <1>1, <1>3, <3>2
      <3> QED BY <1>3, <3>1, <3>2
    <2> QED BY <1>3, <2>1, <2>2 DEF LogIsChained, LinksVerify
  <1>6. ASSUME NEW k \in 0..Len(log), NEW evidence \in Seq(Nat),
               Observed(evidence), ReadAfter(k, evidence)
        PROVE  ReadAfter(k, evidence)'
    <2> SUFFICES ASSUME k < Len(log'), NEW n \in DOMAIN evidence
                 PROVE  evidence[n] <= log'[k + 1].appended
      BY DEF ReadAfter
    <2>1. CASE k < Len(log)
      <3>1. log'[k + 1] = log[k + 1] /\ evidence[n] <= log[k + 1].appended
        BY <1>3, <1>6, <2>1 DEF ReadAfter
      <3> QED BY <3>1
    <2>2. CASE k = Len(log)
      BY <1>2, <1>3, <1>6, <2>2 DEF Observed
    <2> QED BY <2>1, <2>2
  <1>7. SeenInv' /\ \A evidence : Observed(evidence) => Observed(evidence)'
    BY <1>1 DEF IInv, SeenInv, Observed
  <1>8. JobInv'
    BY <1>1, <1>6, <1>7 DEF IInv, TypeOK, JobInv
  <1>9. SnapshotInv'
    BY <1>1, <1>3, <1>6, <1>7 DEF IInv, TypeOK, SnapshotInv, Snapshot
  <1> QED BY <1>4, <1>5, <1>7, <1>8, <1>9 DEF IInv

-----------------------------------------------------------------------------
LEMMA ReadPreserves ==
  ASSUME IInv, NEW bundle \in deployed, Read(bundle)
  PROVE  IInv'
  <1>1. /\ UNCHANGED <<clock, published, seenAt, deployed, log>>
        /\ job' = [events |-> Len(log), evidence |-> <<>>, bundle |-> bundle]
        /\ snapshot' = NoSnapshot
        /\ pc' \in {"observe", "reread"}
        /\ pc' = "observe" => Namespaces > 0
    BY DEF Read
  <1>2. /\ NoSnapshot \in Snapshot /\ NoSnapshot.status # "ACTIVE"
        /\ NoSnapshot.evidence = <<>> /\ NoSnapshot.events = 0
    BY NoSnapshotType
  <1>3. LogIsChained' /\ SeenInv' /\ SnapshotInv'
    BY <1>1, <1>2 DEF IInv, LogIsChained, LinksVerify, SeenInv, SnapshotInv
  <1>4. TypeOK'
    <2>1. /\ job' \in [events: 0..Len(log'), evidence: Seq(Nat), bundle: Bundles]
          /\ Len(job'.evidence) <= Namespaces
      BY <1>1, RegistryAssumption DEF IInv, TypeOK
    <2>2. /\ snapshot' \in Snapshot /\ snapshot'.events <= Len(log')
          /\ Len(snapshot'.evidence) <= Namespaces
      BY <1>1, <1>2, RegistryAssumption DEF IInv, TypeOK
    <2> QED BY <1>1, <2>1, <2>2 DEF IInv, TypeOK
  <1>5. JobInv'
    BY <1>1 DEF JobInv, Observed
  <1> QED BY <1>3, <1>4, <1>5 DEF IInv

LEMMA ObservePreserves == IInv /\ Observe => IInv'
  <1> SUFFICES ASSUME IInv, Observe PROVE IInv'
    OBVIOUS
  <1> DEFINE n == Len(job.evidence) + 1
  <1>1. /\ UNCHANGED <<clock, published, seenAt, deployed, log, snapshot>>
        /\ pc = "observe" /\ n \in 1..Namespaces
        /\ job.evidence \in Seq(Nat) /\ clock \in Nat
    BY RegistryAssumption DEF Observe, IInv, TypeOK, JobInv
  <1>2. \/ /\ published[n]
           /\ job' = [job EXCEPT !.evidence = Append(@, clock)]
           /\ pc' = IF n = Namespaces THEN "reread" ELSE "observe"
        \/ /\ job' = [job EXCEPT !.evidence = <<>>]
           /\ pc' = "reread"
    BY DEF Observe
  <1>3. /\ job'.events = job.events
        /\ job' \in [events: 0..Len(log), evidence: Seq(Nat), bundle: Bundles]
        /\ Len(job'.evidence) <= Namespaces
        /\ pc' \in {"observe", "reread"}
        /\ pc' = "observe" => Len(job'.evidence) < Namespaces
        /\ \A k \in DOMAIN job'.evidence :
             job'.evidence[k] <= clock /\ job'.evidence[k] <= seenAt[k]
    <2>1. CASE /\ published[n]
               /\ job' = [job EXCEPT !.evidence = Append(@, clock)]
               /\ pc' = IF n = Namespaces THEN "reread" ELSE "observe"
      <3> DEFINE longer == Append(job.evidence, clock)
      <3>0. longer \in Seq(Nat) /\ job' = [job EXCEPT !.evidence = longer]
        BY <1>1, <2>1
      <3>1. /\ job'.evidence = Append(job.evidence, clock)
            /\ job'.events = job.events
            /\ job' \in [events: 0..Len(log), evidence: Seq(Nat), bundle: Bundles]
        <4>1. job \in [events: 0..Len(log), evidence: Seq(Nat), bundle: Bundles]
          BY DEF IInv, TypeOK
        <4>2. job'.evidence = longer /\ job'.events = job.events
                /\ job' \in [events: 0..Len(log), evidence: Seq(Nat), bundle: Bundles]
          <5> HIDE DEF longer
          <5> QED BY <3>0, <4>1
        <4> QED BY <4>2
      <3>2. /\ Len(job'.evidence) = n
            /\ job'.evidence[n] = clock
            /\ \A k \in 1..Len(job.evidence) : job'.evidence[k] = job.evidence[k]
        BY <1>1, <3>1
      <3>3. seenAt[n] = clock
        BY <1>1, <2>1 DEF IInv, SeenInv
      <3>4. ASSUME NEW k \in DOMAIN job'.evidence
            PROVE  job'.evidence[k] <= clock /\ job'.evidence[k] <= seenAt[k]
        <4>1. k \in 1..n
          BY <3>1, <3>2
        <4>2. CASE k = n
          BY <1>1, <3>2, <3>3, <4>2
        <4>3. CASE k \in 1..Len(job.evidence)
          BY <1>1, <3>2, <4>3 DEF IInv, JobInv, Observed
        <4> QED BY <1>1, <4>1, <4>2, <4>3
      <3>5. n <= Namespaces /\ (n # Namespaces => n < Namespaces)
        BY <1>1, RegistryAssumption
      <3> HIDE DEF n
      <3> QED BY <2>1, <3>1, <3>2, <3>4, <3>5
    <2>2. CASE job' = [job EXCEPT !.evidence = <<>>] /\ pc' = "reread"
      <3>1. /\ job' \in [events: 0..Len(log), evidence: Seq(Nat), bundle: Bundles]
            /\ job'.events = job.events /\ job'.evidence = <<>>
        <4>1. job \in [events: 0..Len(log), evidence: Seq(Nat), bundle: Bundles]
          BY DEF IInv, TypeOK
        <4>2. <<>> \in Seq(Nat)
          OBVIOUS
        <4> QED BY <2>2, <4>1, <4>2
      <3> QED BY <2>2, <3>1, RegistryAssumption
    <2> QED BY <1>2, <2>1, <2>2
  <1>4. TypeOK' /\ LogIsChained' /\ SeenInv' /\ SnapshotInv'
    BY <1>1, <1>3
    DEF IInv, TypeOK, LogIsChained, LinksVerify, SeenInv, SnapshotInv,
        Observed, ReadAfter
  <1>5. JobInv'
    BY <1>1, <1>3 DEF JobInv, Observed
  <1> QED BY <1>4, <1>5 DEF IInv

LEMMA RereadPreserves == IInv /\ Reread => IInv'
  <1> SUFFICES ASSUME IInv, Reread PROVE IInv'
    OBVIOUS
  <1>1. /\ UNCHANGED <<clock, published, seenAt, deployed, log, snapshot>>
        /\ job' = [job EXCEPT !.events = Len(log)]
        /\ pc' = "sign"
        /\ Len(log) \in Nat \ {0}
    BY DEF Reread, EventsNow, IInv, TypeOK
  <1>2. /\ job' \in [events: 0..Len(log), evidence: Seq(Nat), bundle: Bundles]
        /\ job'.events = Len(log)
        /\ job'.evidence = job.evidence
    <2>1. job \in [events: 0..Len(log), evidence: Seq(Nat), bundle: Bundles]
      BY DEF IInv, TypeOK
    <2> QED BY <1>1, <2>1
  <1>3. TypeOK' /\ LogIsChained' /\ SeenInv' /\ SnapshotInv'
    BY <1>1, <1>2
    DEF IInv, TypeOK, LogIsChained, LinksVerify, SeenInv, SnapshotInv,
        Observed, ReadAfter
  <1>4. JobInv'
    BY <1>1, <1>2 DEF IInv, JobInv, Observed, ReadAfter
  <1> QED BY <1>3, <1>4 DEF IInv

(* The status in a snapshot, and what ACTIVE says about the evidence. *)
LEMMA StandingFacts ==
  ASSUME NEW last \in Commanded \cup {"ASSESSED_NO_MARK"}, NEW bundle,
         NEW evidence, NEW at
  PROVE  /\ StandingAt(last, bundle, evidence, at) \in Statuses
         /\ StandingAt(last, bundle, evidence, at) = "ACTIVE" =>
              /\ last = "ACTIVE"
              /\ Intact(bundle, evidence, at)
              /\ ~(at >= ExpiresAt)
  BY DEF StandingAt, Statuses, Commanded

LEMMA SignPreserves == IInv /\ Sign => IInv'
  <1> DEFINE Signs == Valid(job.bundle, clock)
                        /\ Authorized(job.bundle, job.bundle.key, clock)
  <1> SUFFICES ASSUME IInv, Sign PROVE IInv'
    OBVIOUS
  <1>1. /\ UNCHANGED <<clock, published, seenAt, deployed, log>>
        /\ pc = "sign" /\ pc' = "idle" /\ job' = NoJob
    BY DEF Sign
  <1>2. NoJob.events = 0 /\ NoJob.evidence = <<>>
          /\ NoJob \in [events: 0..Len(log), evidence: Seq(Nat), bundle: Bundles]
    BY NoJobType DEF IInv, TypeOK
  <1>3. LogIsChained' /\ SeenInv' /\ JobInv'
    BY <1>1, <1>2 DEF IInv, LogIsChained, LinksVerify, SeenInv, JobInv, Observed
  <1>4. ASSUME snapshot' \in Snapshot, snapshot'.events <= Len(log),
               Len(snapshot'.evidence) <= Namespaces
        PROVE  TypeOK'
    BY <1>1, <1>2, <1>4, RegistryAssumption DEF IInv, TypeOK
  <1>5. CASE Signs
    <2> DEFINE last == log[job.events].status
               status == StandingAt(last, job.bundle, job.evidence, clock)
               evidence == IF status = "ACTIVE" THEN job.evidence ELSE <<>>
    <2>1. job.events \in 1..Len(log) /\ last \in Commanded \cup {"ASSESSED_NO_MARK"}
      BY <1>1, EventType DEF IInv, TypeOK, JobInv
    <2>2. /\ status \in Statuses
          /\ status = "ACTIVE" => /\ last = "ACTIVE"
                                  /\ Len(job.evidence) = Namespaces
      BY <2>1, StandingFacts DEF Intact, ObservedFreshly
    <2>3. evidence \in Seq(Nat) /\ Len(evidence) <= Namespaces
      BY RegistryAssumption DEF IInv, TypeOK
    <2>4. PICK until \in Deadlines(job.bundle, evidence) :
            snapshot' = [status |-> status, observed |-> clock, until |-> until,
                         events |-> job.events, evidence |-> evidence,
                         bundle |-> job.bundle]
      BY <1>5 DEF Sign, Answer, LastEvent
    <2>5. until \in Nat /\ job.bundle \in Bundles
      <3>1. job.bundle \in Bundles /\ clock + Window \in Nat
        BY RegistryAssumption DEF IInv, TypeOK
      <3> HIDE DEF status, evidence
      <3>2. \A n \in DOMAIN evidence : evidence[n] + Window \in Nat
        BY <2>3, RegistryAssumption
      <3> QED BY <3>1, <3>2, BundleType DEF Deadlines
    <2> HIDE DEF status, evidence
    <2>6. /\ snapshot' \in Snapshot
          /\ snapshot'.status = status /\ snapshot'.events = job.events
          /\ snapshot'.evidence = evidence
      BY <2>1, <2>2, <2>3, <2>4, <2>5 DEF Snapshot, IInv, TypeOK
    <2>7. TypeOK'
      BY <1>4, <2>1, <2>3, <2>6
    <2>8. SnapshotInv'
      <3> SUFFICES ASSUME status = "ACTIVE"
                   PROVE  /\ job.events > 0
                          /\ last = "ACTIVE"
                          /\ Len(job.evidence) = Namespaces
                          /\ Observed(job.evidence)
                          /\ ReadAfter(job.events, job.evidence)
        BY <1>1, <2>6 DEF SnapshotInv, Observed, ReadAfter, evidence
      <3> QED BY <1>1, <2>1, <2>2 DEF IInv, JobInv
    <2> QED BY <1>3, <2>7, <2>8 DEF IInv
  <1>6. CASE ~Signs
    <2>1. UNCHANGED snapshot
      BY <1>6 DEF Sign
    <2>2. TypeOK'
      BY <1>4, <2>1 DEF IInv, TypeOK
    <2>3. SnapshotInv'
      BY <1>1, <2>1 DEF IInv, SnapshotInv, Observed, ReadAfter
    <2> QED BY <1>3, <2>2, <2>3 DEF IInv
  <1> QED BY <1>5, <1>6

LEMMA AbandonPreserves == IInv /\ Abandon => IInv'
  <1> SUFFICES ASSUME IInv, Abandon PROVE IInv'
    OBVIOUS
  <1>1. /\ UNCHANGED <<clock, published, seenAt, deployed, log, snapshot>>
        /\ pc' = "idle" /\ job' = NoJob
    BY DEF Abandon
  <1>2. NoJob.events = 0 /\ NoJob.evidence = <<>>
          /\ NoJob \in [events: 0..Len(log), evidence: Seq(Nat), bundle: Bundles]
    BY NoJobType DEF IInv, TypeOK
  <1>3. TypeOK' /\ LogIsChained' /\ SeenInv' /\ SnapshotInv'
    BY <1>1, <1>2, RegistryAssumption
    DEF IInv, TypeOK, LogIsChained, LinksVerify, SeenInv, SnapshotInv,
        Observed, ReadAfter
  <1>4. JobInv'
    BY <1>1, <1>2 DEF JobInv, Observed
  <1> QED BY <1>3, <1>4 DEF IInv

-----------------------------------------------------------------------------
LEMMA NextPreserves == IInv /\ [Next]_vars => IInv'
  <1> SUFFICES ASSUME IInv, [Next]_vars PROVE IInv'
    OBVIOUS
  <1>1. CASE UNCHANGED vars
    BY <1>1 DEF vars, IInv, TypeOK, LogIsChained, LinksVerify, SeenInv, JobInv,
                SnapshotInv, Observed, ReadAfter
  <1>2. CASE \E n \in 1..Namespaces : Publish(n)
    BY <1>2, PublishPreserves
  <1>3. CASE \E bundle \in deployed, expected \in 1..Len(log),
                status \in Commanded, at \in CommandTimes :
               ApplyRegistryCommand(bundle, expected, status, at)
    BY <1>3, CommandPreserves
  <1>4. CASE \E bundle \in Bundles : Redeploy(bundle)
    BY <1>4, RedeployPreserves
  <1>5. CASE \E bundle \in deployed : Read(bundle)
    BY <1>5, ReadPreserves
  <1> QED
    BY <1>1, <1>2, <1>3, <1>4, <1>5, TickPreserves, ObservePreserves, RereadPreserves,
       SignPreserves, AbandonPreserves
    DEF Next

THEOREM RegistryInvariant == Spec => []IInv
  BY InitEstablishes, NextPreserves, PTL DEF Spec

(* The state of the log, the handler and the snapshot is well formed: in    *)
(* particular a snapshot never covers events the log does not hold.         *)
THEOREM RegistryTypeCorrect == Spec => []TypeOK
  <1>1. IInv => TypeOK
    BY DEF IInv
  <1> QED BY <1>1, RegistryInvariant, PTL

(* The dates of the events: not before the issue, not long after they were  *)
(* stored.                                                                  *)
DatesInv ==
  \A i \in 1..Len(log) : log[1].at <= log[i].at /\ log[i].at <= log[i].appended + Skew

LEMMA DatesBegin == Init => DatesInv
  <1> SUFFICES ASSUME Init PROVE DatesInv
    OBVIOUS
  <1>1. PICK bundle \in Bundles, status \in {"ACTIVE", "ASSESSED_NO_MARK"} :
          log = <<[status |-> status, at |-> 0, expected |-> 0,
                   key |-> bundle.key, appended |-> 0]>>
    BY DEF Init
  <1>2. Len(log) = 1 /\ log[1].at = 0 /\ log[1].appended = 0 /\ Skew \in Nat
    BY <1>1, RegistryAssumption
  <1> QED BY <1>2 DEF DatesInv

LEMMA DatesKept == IInv /\ DatesInv /\ [Next]_vars => DatesInv'
  <1> SUFFICES ASSUME IInv, DatesInv, [Next]_vars PROVE DatesInv'
    OBVIOUS
  <1>1. CASE UNCHANGED log
    BY <1>1 DEF DatesInv
  <1>2. ASSUME NEW bundle \in deployed, NEW expected \in 1..Len(log),
               NEW status \in Commanded, NEW at \in CommandTimes,
               ApplyRegistryCommand(bundle, expected, status, at)
        PROVE  DatesInv'
    <2> DEFINE event == [status |-> status, at |-> at, expected |-> expected,
                         key |-> bundle.key, appended |-> clock]
    <2>1. /\ log' = Append(log, event)
          /\ log[Len(log)].at <= at /\ at <= clock + Skew
      BY <1>2, RegistryAssumption, EventType
      DEF ApplyRegistryCommand, AppendEvent, Accepts, LastEvent
    <2>2. /\ Len(log) \in Nat \ {0} /\ Len(log') = Len(log) + 1
          /\ \A i \in 1..Len(log) : log'[i] = log[i]
          /\ log'[Len(log) + 1].at = at /\ log'[Len(log) + 1].appended = clock
      BY <2>1 DEF IInv, TypeOK
    <2>3. /\ log[1].at \in Nat /\ log[Len(log)].at \in Nat
          /\ at \in Nat /\ log[1].at <= log[Len(log)].at
      <3>1. 1 \in 1..Len(log) /\ Len(log) \in 1..Len(log)
        BY <2>2
      <3>2. log[1] \in Event /\ log[Len(log)] \in Event
        BY <3>1, EventType DEF IInv
      <3> QED BY <3>1, <3>2, RegistryAssumption DEF Event, DatesInv
    <2>4. ASSUME NEW i \in 1..Len(log')
          PROVE  log'[1].at <= log'[i].at /\ log'[i].at <= log'[i].appended + Skew
      <3>1. CASE i <= Len(log)
        BY <2>2, <3>1 DEF DatesInv
      <3>2. CASE i = Len(log) + 1
        BY <2>1, <2>2, <2>3, <3>2
      <3> QED BY <2>2, <3>1, <3>2
    <2> QED BY <2>4 DEF DatesInv
  <1>3. \/ UNCHANGED log
        \/ \E bundle \in deployed, expected \in 1..Len(log), status \in Commanded,
              at \in CommandTimes : ApplyRegistryCommand(bundle, expected, status, at)
    BY DEF Next, vars, Tick, Redeploy, Publish, Read, Observe, Reread, Sign, Abandon
  <1> QED BY <1>1, <1>2, <1>3

(* However the commands come, the log is one chain, and the verifier finds  *)
(* its events' signers in office under every bundle that has them so from   *)
(* the issue until the skew after each event was stored.                    *)
THEOREM EveryLogVerifies == Spec => []LogVerifies
  <1>1. IInv /\ DatesInv => LogVerifies
    <2> SUFFICES ASSUME IInv, DatesInv, NEW bundle \in Bundles, NEW i \in 1..Len(log),
                        InOffice(bundle, log[i].key, log[1].at, log[i].appended + Skew)
                 PROVE  Authorized(bundle, log[i].key, log[i].at)
      BY DEF LogVerifies, SignersVerify, IInv, LogIsChained
    <2>1. log[i] \in Event /\ log[1] \in Event
      BY EventType DEF IInv, TypeOK
    <2>2. /\ log[i].key \in Keys /\ log[i].at \in Nat /\ log[i].appended \in Nat
          /\ log[1].at \in Nat /\ Skew \in Nat
      BY <2>1, RegistryAssumption DEF Event
    <2>3. log[1].at <= log[i].at /\ log[i].at <= log[i].appended + Skew
      BY DEF DatesInv
    <2>4. /\ bundle.certificate[log[i].key].from \in Nat
          /\ bundle.certificate[log[i].key].until \in Nat
          /\ bundle.certificate[log[i].key].revoked \in Nat
      BY <2>2, BundleType
    <2> QED BY <2>2, <2>3, <2>4 DEF InOffice, Authorized
  <1> QED BY <1>1, DatesBegin, DatesKept, RegistryInvariant, PTL DEF Spec

(* Who concludes ACTIVE from a snapshot, by a clock at most Skew behind,    *)
(* does so at most Window + Skew after the log said so and every namespace  *)
(* published the submitted manifest.                                        *)
LEMMA ActiveVerdictIsRecent == IInv => ActiveIsRecent
  <1> SUFFICES ASSUME IInv, NEW at \in VerifierClocks,
                      Namespaces > 0, Verdict(at) = "ACTIVE"
               PROVE  /\ WasActiveSince(Horizon)
                      /\ \A n \in 1..Namespaces : seenAt[n] >= Horizon
                      /\ at < ExpiresAt
    BY DEF ActiveIsRecent
  <1>1. /\ at \in Nat /\ clock \in Nat /\ clock <= at + Skew
        /\ Window \in Nat /\ Skew \in Nat
    BY RegistryAssumption DEF VerifierClocks, IInv, TypeOK
  <1>2. /\ snapshot.status = "ACTIVE" /\ at < snapshot.until
        /\ EvidenceVerifies
        /\ snapshot.status = Expected(at)
    BY DEF Verdict, Current
  <1>3. /\ snapshot.events \in 1..Len(log)
        /\ log[snapshot.events].status = "ACTIVE"
        /\ snapshot.evidence \in Seq(Nat)
        /\ Len(snapshot.evidence) = Namespaces
        /\ snapshot.until \in Nat
        /\ Observed(snapshot.evidence)
        /\ ReadAfter(snapshot.events, snapshot.evidence)
    BY <1>2 DEF IInv, TypeOK, SnapshotInv, Snapshot
  <1>4. ~(at >= ExpiresAt)
    BY <1>2, <1>3 DEF Expected, LastEvent
  <1>5. \A n \in 1..Namespaces :
          /\ n \in DOMAIN snapshot.evidence
          /\ snapshot.evidence[n] \in Nat
          /\ snapshot.evidence[n] >= Horizon
    <2> TAKE n \in 1..Namespaces
    <2>1. n \in DOMAIN snapshot.evidence /\ snapshot.evidence[n] \in Nat
            /\ snapshot.evidence # <<>>
      BY <1>3
    <2>2. snapshot.until <= snapshot.evidence[n] + Window
      BY <1>2, <2>1 DEF EvidenceVerifies
    <2> QED BY <1>1, <1>2, <1>3, <2>1, <2>2 DEF Horizon
  <1>6. \A n \in 1..Namespaces : seenAt[n] >= Horizon
    <2> TAKE n \in 1..Namespaces
    <2>1. snapshot.evidence[n] <= seenAt[n] /\ seenAt[n] \in Nat
      BY <1>3, <1>5 DEF Observed, IInv, TypeOK
    <2> QED BY <1>1, <1>5, <2>1 DEF Horizon
  <1>7. WasActiveSince(Horizon)
    <2>1. 1 \in 1..Namespaces
      BY RegistryAssumption
    <2>2. snapshot.events < Len(log) =>
            log[snapshot.events + 1].appended >= Horizon
      <3> SUFFICES ASSUME snapshot.events < Len(log)
                   PROVE  log[snapshot.events + 1].appended >= Horizon
        OBVIOUS
      <3>1. snapshot.evidence[1] <= log[snapshot.events + 1].appended
        BY <1>3, <1>5, <2>1 DEF ReadAfter
      <3>2. log[snapshot.events + 1].appended \in Nat
        BY <1>3, EventType DEF IInv
      <3> QED BY <1>1, <1>5, <2>1, <3>1, <3>2 DEF Horizon
    <2> QED BY <1>3, <2>2 DEF WasActiveSince
  <1> QED BY <1>1, <1>4, <1>6, <1>7, RegistryAssumption

THEOREM CurrentStandingIsRecent == Spec => []ActiveIsRecent
  BY ActiveVerdictIsRecent, RegistryInvariant, PTL

-----------------------------------------------------------------------------
(* What was signed is what the verifier finds in the same evidence at the   *)
(* snapshot's own time; only an ACTIVE snapshot carries evidence, and none  *)
(* outlasts the bundle or the signer's certificate.                         *)
SignedInv ==
  snapshot.until > 0 =>
    /\ snapshot.events > 0
    /\ snapshot.until <= snapshot.observed + Window
    /\ snapshot.until <= snapshot.bundle.until
    /\ snapshot.until <= snapshot.bundle.certificate[snapshot.bundle.key].until
    /\ Valid(snapshot.bundle, snapshot.observed)
    /\ Authorized(snapshot.bundle, snapshot.bundle.key, snapshot.observed)
    /\ EvidenceVerifies
    /\ snapshot.evidence # <<>> => snapshot.status = "ACTIVE"
    /\ snapshot.status = Expected(snapshot.observed)

(* An answer without evidence has the status the evidence gave it, unless   *)
(* that status was ACTIVE.                                                  *)
LEMMA EvidenceDropped ==
  ASSUME NEW last, NEW bundle, NEW evidence \in Seq(Nat), NEW at,
         Len(evidence) <= Namespaces, StandingAt(last, bundle, evidence, at) # "ACTIVE"
  PROVE  StandingAt(last, bundle, <<>>, at) = StandingAt(last, bundle, evidence, at)
  <1>1. CASE last = "ACTIVE" /\ ~(at >= ExpiresAt)
    <2>1. ~Intact(bundle, evidence, at)
      BY <1>1 DEF StandingAt
    <2>2. ~Intact(bundle, <<>>, at)
      <3> SUFFICES ASSUME Intact(bundle, <<>>, at) PROVE FALSE
        OBVIOUS
      <3>1. Namespaces = 0
        BY DEF Intact, ObservedFreshly
      <3>2. evidence = <<>>
        BY <3>1
      <3> QED BY <2>1, <3>2
    <2> QED BY <1>1, <2>1, <2>2 DEF StandingAt
  <1> QED BY <1>1 DEF StandingAt

LEMMA SignSigns == IInv /\ SignedInv /\ Sign => SignedInv'
  <1> SUFFICES ASSUME IInv, SignedInv, Sign PROVE SignedInv'
    OBVIOUS
  <1> DEFINE Signs == Valid(job.bundle, clock)
                        /\ Authorized(job.bundle, job.bundle.key, clock)
  <1>1. UNCHANGED <<clock, log>> /\ pc = "sign"
    BY DEF Sign
  <1>2. CASE Signs
    <2> DEFINE last == log[job.events].status
               status == StandingAt(last, job.bundle, job.evidence, clock)
               evidence == IF status = "ACTIVE" THEN job.evidence ELSE <<>>
    <2>1. /\ job.events \in 1..Len(log)
          /\ last \in Commanded \cup {"ASSESSED_NO_MARK"}
          /\ job.evidence \in Seq(Nat) /\ Len(job.evidence) <= Namespaces
          /\ job.bundle \in Bundles
          /\ clock \in Nat /\ Namespaces \in Nat
      BY <1>1, EventType, RegistryAssumption DEF IInv, TypeOK, JobInv
    <2>2. PICK until \in Deadlines(job.bundle, evidence) :
            /\ \A t \in Deadlines(job.bundle, evidence) : until <= t
            /\ snapshot' = [status |-> status, observed |-> clock, until |-> until,
                            events |-> job.events, evidence |-> evidence,
                            bundle |-> job.bundle]
      BY <1>2 DEF Sign, Answer, LastEvent
    <2>3. evidence \in Seq(Nat) /\ (evidence # <<>> =>
                                      status = "ACTIVE" /\ evidence = job.evidence)
      BY <2>1
    <2>4. evidence # <<>> => ObservedFreshly(job.bundle, evidence, clock)
      <3> HIDE DEF last
      <3>1. status = "ACTIVE" => Intact(job.bundle, job.evidence, clock)
        BY <2>1, StandingFacts
      <3> QED BY <2>3, <3>1 DEF Intact
    <2>5. status = StandingAt(last, job.bundle, evidence, clock)
      <3> HIDE DEF last
      <3>1. CASE status = "ACTIVE"
        BY <3>1
      <3>2. CASE status # "ACTIVE"
        BY <2>1, <3>2, EvidenceDropped
      <3> QED BY <3>1, <3>2
    <2> HIDE DEF status, evidence
    <2>6. /\ snapshot'.status = status /\ snapshot'.observed = clock
          /\ snapshot'.until = until /\ snapshot'.events = job.events
          /\ snapshot'.evidence = evidence /\ snapshot'.bundle = job.bundle
      BY <2>2
    <2>7. /\ until <= clock + Window /\ until <= job.bundle.until
          /\ until <= job.bundle.certificate[job.bundle.key].until
          /\ \A n \in DOMAIN evidence : until <= evidence[n] + Window
      BY <2>2 DEF Deadlines
    <2>8. (NamespacesVerify(clock))' <=> ObservedFreshly(job.bundle, evidence, clock)
      <3>1. \A n \in DOMAIN evidence :
              evidence[n] \in Nat /\ (clock - evidence[n] <= Window <=> clock <= evidence[n] + Window)
        BY <2>1, <2>3, RegistryAssumption
      <3> QED BY <1>1, <2>6, <3>1 DEF NamespacesVerify, ObservedFreshly
    <2>9. EvidenceVerifies'
      BY <1>1, <2>4, <2>6, <2>7, <2>8 DEF EvidenceVerifies
    <2>10. snapshot'.status = Expected(snapshot.observed)'
      <3>1. AuthorityHolds(snapshot.bundle, clock)' <=> AuthorityHolds(job.bundle, clock)
        BY <1>1, <2>6 DEF AuthorityHolds, Authorized
      <3>2. LastEvent(snapshot.events)'.status = last
        BY <1>1, <2>6 DEF LastEvent
      <3> HIDE DEF last
      <3> QED BY <1>1, <2>5, <2>6, <2>8, <3>1, <3>2
              DEF Expected, StandingAt, Intact
    <2> QED BY <1>2, <2>1, <2>3, <2>6, <2>7, <2>9, <2>10
            DEF SignedInv, Valid, Authorized
  <1>3. CASE ~Signs
    <2>1. UNCHANGED snapshot
      BY <1>3 DEF Sign
    <2> QED BY <1>1, <2>1
            DEF SignedInv, EvidenceVerifies, NamespacesVerify, Expected, LastEvent,
                AuthorityHolds, Authorized, Valid
  <1> QED BY <1>2, <1>3

LEMMA SignedStays ==
  ASSUME IInv, SignedInv, UNCHANGED snapshot,
         \A i \in 1..Len(log) : log'[i] = log[i]
  PROVE  SignedInv'
  <1> SUFFICES ASSUME snapshot.until > 0 PROVE SignedInv'
    BY DEF SignedInv
  <1>1. snapshot.events \in 1..Len(log) /\ 1 \in 1..Len(log)
    BY DEF IInv, TypeOK, SignedInv, Snapshot
  <1> QED BY <1>1 DEF SignedInv, EvidenceVerifies, NamespacesVerify, Expected,
                      LastEvent, AuthorityHolds, Authorized, Valid

LEMMA NextSigns == IInv /\ SignedInv /\ [Next]_vars => SignedInv'
  <1> SUFFICES ASSUME IInv, SignedInv, [Next]_vars PROVE SignedInv'
    OBVIOUS
  <1>1. CASE Sign
    BY <1>1, SignSigns
  <1>2. CASE \E bundle \in deployed : Read(bundle)
    BY <1>2 DEF Read, NoSnapshot, SignedInv
  <1>3. ASSUME NEW bundle \in deployed, NEW expected, NEW status \in Commanded,
               NEW at \in CommandTimes,
               ApplyRegistryCommand(bundle, expected, status, at)
        PROVE  SignedInv'
    <2> DEFINE event == [status |-> status, at |-> at, expected |-> expected,
                         key |-> bundle.key, appended |-> clock]
    <2>1. log' = Append(log, event) /\ UNCHANGED snapshot
      BY <1>3 DEF ApplyRegistryCommand, AppendEvent
    <2> HIDE DEF event
    <2>2. \A i \in 1..Len(log) : log'[i] = log[i]
      BY <2>1 DEF IInv, TypeOK
    <2> QED BY <2>1, <2>2, SignedStays
  <1>4. CASE UNCHANGED <<log, snapshot>>
    BY <1>4, SignedStays
  <1> QED BY <1>1, <1>2, <1>3, <1>4
          DEF Next, vars, Tick, Redeploy, Publish, Observe, Reread, Abandon

LEMMA EverySnapshotIsSigned == Spec => []SignedInv
  <1>1. Init => SignedInv
    BY DEF Init, NoSnapshot, SignedInv
  <1> QED BY <1>1, RegistryInvariant, NextSigns, PTL DEF Spec

(* While a snapshot is valid and its signer in office, its observations are *)
(* found as fresh later as when it was signed.                              *)
LEMMA EvidenceStays ==
  ASSUME IInv, SignedInv, NEW at \in Nat, snapshot.observed <= at,
         at < snapshot.until,
         at < snapshot.bundle.certificate[snapshot.bundle.key].revoked
  PROVE  /\ Valid(snapshot.bundle, at)
         /\ Authorized(snapshot.bundle, snapshot.bundle.key, at)
         /\ NamespacesVerify(at) <=> NamespacesVerify(snapshot.observed)
  <1> DEFINE observer == snapshot.bundle.certificate[snapshot.bundle.key]
  <1>1. /\ snapshot.until \in Nat /\ snapshot.observed \in Nat
        /\ snapshot.evidence \in Seq(Nat) /\ snapshot.bundle \in Bundles
    BY DEF IInv, TypeOK, Snapshot
  <1>2. /\ snapshot.bundle.key \in Keys
        /\ snapshot.bundle.from \in Nat /\ snapshot.bundle.until \in Nat
        /\ observer.from \in Nat /\ observer.until \in Nat /\ observer.revoked \in Nat
    BY <1>1, BundleType
  <1>3. /\ snapshot.until > 0
        /\ snapshot.until <= snapshot.bundle.until
        /\ snapshot.until <= observer.until
        /\ Valid(snapshot.bundle, snapshot.observed)
        /\ Authorized(snapshot.bundle, snapshot.bundle.key, snapshot.observed)
        /\ EvidenceVerifies
    BY <1>1 DEF SignedInv
  <1>4. Valid(snapshot.bundle, at) /\ Authorized(snapshot.bundle, snapshot.bundle.key, at)
    BY <1>1, <1>2, <1>3 DEF Valid, Authorized
  <1>5. ASSUME NEW n \in DOMAIN snapshot.evidence
        PROVE  /\ observer.from <= snapshot.evidence[n]
               /\ snapshot.evidence[n] <= snapshot.observed
               /\ snapshot.evidence[n] <= at /\ at < observer.until
               /\ at < observer.revoked /\ at - snapshot.evidence[n] <= Window
    <2>1. snapshot.evidence # <<>> /\ snapshot.evidence[n] \in Nat
      BY <1>1
    <2>2. /\ observer.from <= snapshot.evidence[n]
          /\ snapshot.evidence[n] <= snapshot.observed
          /\ snapshot.until <= snapshot.evidence[n] + Window
      BY <1>3, <2>1 DEF EvidenceVerifies, NamespacesVerify
    <2> HIDE DEF observer
    <2>3. snapshot.evidence[n] <= at
      BY <1>1, <2>1, <2>2
    <2>4. at < observer.until /\ at < snapshot.evidence[n] + Window
      <3>1. snapshot.until <= observer.until
        BY <1>3
      <3>2. at < observer.until
        BY <1>1, <1>2, <3>1
      <3>3. Window \in Nat /\ snapshot.evidence[n] + Window \in Nat
        BY <2>1, RegistryAssumption
      <3>4. at < snapshot.evidence[n] + Window
        BY <1>1, <2>2, <3>3
      <3> QED BY <3>2, <3>4
    <2>5. at - snapshot.evidence[n] <= Window
      BY <1>1, <2>1, <2>4, RegistryAssumption
    <2>6. at < observer.revoked
      BY DEF observer
    <2> QED BY <2>2, <2>3, <2>4, <2>5, <2>6
  <1>6. NamespacesVerify(at) <=> Len(snapshot.evidence) = Namespaces
    BY <1>5 DEF NamespacesVerify
  <1>7. NamespacesVerify(snapshot.observed) <=> Len(snapshot.evidence) = Namespaces
    <2>1. snapshot.evidence # <<>> => NamespacesVerify(snapshot.observed)
      BY <1>3 DEF EvidenceVerifies
    <2>2. snapshot.evidence = <<>> => DOMAIN snapshot.evidence = {}
      OBVIOUS
    <2> QED BY <2>1, <2>2 DEF NamespacesVerify
  <1> QED BY <1>4, <1>6, <1>7

LEMMA RefusalIsExplained == IInv /\ SignedInv => RefusalsExplained
  <1> SUFFICES ASSUME IInv, SignedInv, NEW at \in VerifierClocks,
                      Current(at), snapshot.observed <= at, Verdict(at) = "REFUSED",
                      SignersVerify(snapshot.bundle, snapshot.events),
                      ~(at >= snapshot.bundle.certificate[snapshot.bundle.key].revoked)
               PROVE  /\ LastEvent(snapshot.events).status = "ACTIVE"
                      /\ \/ at >= ExpiresAt
                         \/ AuthorityHolds(snapshot.bundle, at)
                              # AuthorityHolds(snapshot.bundle, snapshot.observed)
    BY DEF RefusalsExplained
  <1>1. /\ at \in Nat /\ snapshot \in Snapshot /\ at < snapshot.until
        /\ snapshot.until \in Nat /\ snapshot.observed \in Nat
        /\ snapshot.bundle \in Bundles /\ snapshot.status \in Statuses
        /\ ExpiresAt \in Nat
    BY RegistryAssumption DEF VerifierClocks, IInv, TypeOK, Current, Snapshot
  <1>2. at < snapshot.bundle.certificate[snapshot.bundle.key].revoked
    BY <1>1, BundleType
  <1>3. /\ snapshot.until > 0
        /\ snapshot.until <= snapshot.observed + Window
        /\ EvidenceVerifies
        /\ snapshot.events \in 1..Len(log)
        /\ snapshot.status = Expected(snapshot.observed)
    BY <1>1 DEF SignedInv, IInv, TypeOK, Snapshot
  <1>4. LinksVerify(snapshot.events)
    BY <1>3 DEF IInv, LogIsChained, LinksVerify
  <1>5. /\ Valid(snapshot.bundle, at)
        /\ Authorized(snapshot.bundle, snapshot.bundle.key, at)
        /\ NamespacesVerify(at) <=> NamespacesVerify(snapshot.observed)
    BY <1>1, <1>2, EvidenceStays
  <1>6. snapshot.status # "REFUSED"
    BY <1>1 DEF Statuses, Commanded
  <1>7. Expected(at) # Expected(snapshot.observed)
    BY <1>3, <1>4, <1>5, <1>6 DEF Verdict
  <1>8. LastEvent(snapshot.events).status = "ACTIVE"
    BY <1>7 DEF Expected
  <1>9. ASSUME ~(at >= ExpiresAt),
               AuthorityHolds(snapshot.bundle, at)
                 = AuthorityHolds(snapshot.bundle, snapshot.observed)
        PROVE  FALSE
    <2>1. ~(snapshot.observed >= ExpiresAt)
      BY <1>1, <1>9
    <2> QED BY <1>5, <1>7, <1>8, <1>9, <2>1 DEF Expected
  <1> QED BY <1>8, <1>9

(* Whatever bundles and keys are deployed side by side, and whatever a      *)
(* verifier's clock not behind the snapshot: within its validity it is      *)
(* refused only for an event dated outside its signer's office, for the     *)
(* announced revocation of its own signer, or, if the log says ACTIVE, for  *)
(* what began or ended since it was signed.                                 *)
THEOREM EveryRefusalIsExplained == Spec => []RefusalsExplained
  BY RefusalIsExplained, EverySnapshotIsSigned, RegistryInvariant, PTL
=============================================================================
