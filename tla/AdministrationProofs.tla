-------------------------- MODULE AdministrationProofs --------------------------
(***************************************************************************)
(* Proofs about Administration, for every length of life, number of        *)
(* directories, crashes and commands. The invariant to carry is how far a  *)
(* bundle that may still be installed, from a directory or by the command  *)
(* under way, is ahead of the site and of the publication.                 *)
(***************************************************************************)
EXTENDS Administration, TLAPS

NothingAbsent == site.bundle # Absent /\ public.root # Absent

Near(b) ==
  /\ Len(b) <= Len(Base(site.bundle)) + 1
  /\ public.root # Previous => Len(b) <= Len(public.root) + 2

StagedNear == \A d \in Directories : Near(staged[d].trust)

JobNear == Near(job.bundle)

Staged == {"trust", "record", "check", "names", "readback", "publish"}

StagedForSync ==
  pc \in Staged /\ job.mode = "sync" => staged[job.dir].root = job.bundle

CheckedBefore == pc = "names" => Follows(job.bundle, site.bundle)

InstalledBefore == pc = "publish" => job.mode = "sync" /\ site.bundle = job.bundle

IInv ==
  /\ TypeOK /\ NothingAbsent /\ StagedNear /\ JobNear
  /\ StagedForSync /\ CheckedBefore /\ InstalledBefore
  /\ PublishedIsBehind

(* Bundles.                                                                  *)

LEMMA Constant_Bundles ==
  /\ Previous \in Bundles /\ Approved \in Bundles /\ Absent \in Bundles
  /\ Len(Previous) = 0 /\ Len(Approved) = 1 /\ Len(Absent) = 1
  /\ Approved # Absent /\ Previous # Absent /\ Previous # Approved
  BY DEF Previous, Approved, Absent, Bundles

LEMMA OnlyPreviousIsEmpty ==
  ASSUME NEW b \in Bundles, b # Previous
  PROVE  Len(b) \in Nat /\ Len(b) >= 1
  BY DEF Previous, Bundles

LEMMA BaseIsNotEmpty ==
  ASSUME NEW b \in Bundles
  PROVE  /\ Base(b) \in Bundles /\ Base(b) # Previous
         /\ Len(Base(b)) \in Nat /\ Len(Base(b)) >= 1
         /\ Len(Base(b)) >= Len(b)
         /\ b # Absent => Base(b) # Absent
  BY Constant_Bundles, OnlyPreviousIsEmpty DEF Base, Bundles

LEMMA AppendGrows ==
  ASSUME NEW b \in Bundles, NEW s \in Nat
  PROVE  /\ Append(b, s) \in Bundles
         /\ Len(Append(b, s)) = Len(b) + 1
         /\ \A i \in 1..Len(b) : Append(b, s)[i] = b[i]
  BY DEF Bundles

LEMMA PrefixGrows ==
  ASSUME NEW a \in Bundles, NEW b \in Bundles, NEW s \in Nat, Prefix(a, b)
  PROVE  Prefix(a, Append(b, s))
<1>1. Len(a) \in Nat /\ Len(b) \in Nat /\ Len(a) <= Len(b)
  BY DEF Bundles, Prefix
<1>2. \A i \in 1..Len(a) : Append(b, s)[i] = a[i]
  BY <1>1, AppendGrows DEF Prefix
<1> QED  BY <1>1, <1>2, AppendGrows DEF Prefix

LEMMA PrefixOfItself ==
  ASSUME NEW b \in Bundles
  PROVE  Prefix(b, b)
  BY DEF Prefix, Bundles

LEMMA NothingPrecedes ==
  ASSUME NEW a \in Bundles, Prefix(a, Previous)
  PROVE  a = Previous
<1>1. Len(a) \in Nat /\ Len(a) <= 0
  BY Constant_Bundles DEF Prefix, Bundles
<1> QED  BY <1>1, OnlyPreviousIsEmpty

LEMMA PreviousPrecedes ==
  ASSUME NEW b \in Bundles
  PROVE  Prefix(Previous, b)
  BY Constant_Bundles DEF Prefix, Bundles

-----------------------------------------------------------------------------
LEMMA SealedUntil ==
  ASSUME TypeOK
  PROVE  NewUntil \in Nat
<1>1. clock + Life \in Nat /\ AuthorityUntil \in Nat
  BY AdministrationAssumption DEF TypeOK
<1> QED  BY <1>1 DEF NewUntil, Lower

LEMMA InitType == Init => TypeOK
<1> SUFFICES ASSUME Init PROVE TypeOK
  OBVIOUS
<1>1. sealed \in Seq(Nat) /\ sealed # <<>>
  BY AdministrationAssumption DEF Init
<1>2. site \in [bundle: Bundles, missing: SUBSET Names]
  BY Constant_Bundles DEF Init
<1>3. public \in [root: Bundles, history: SUBSET Bundles]
  BY Constant_Bundles DEF Init
<1>4. staged \in [Directories -> [root: Bundles, trust: Bundles, history: SUBSET Bundles]]
  BY Constant_Bundles DEF Init, Nowhere
<1>5. job \in [mode: {"none", "prepare", "install", "renew", "sync"},
               dir: Directories \cup {"none"}, bundle: Bundles, current: Bundles]
  BY Constant_Bundles DEF Init, NoJob
<1> QED  BY <1>1, <1>2, <1>3, <1>4, <1>5 DEF Init, TypeOK

Modes == {"none", "prepare", "install", "renew", "sync"}

LEMMA NoJobType ==
  NoJob \in [mode: Modes, dir: Directories \cup {"none"}, bundle: Bundles, current: Bundles]
  BY Constant_Bundles DEF NoJob, Modes

(* What a command given by hand starts with.                                 *)
LEMMA ByHandType ==
  ASSUME TypeOK, NEW mode \in Modes \ {"none"}, NEW d \in Directories, NEW at,
         NEW bundle \in Bundles, NEW current \in Bundles,
         ByHand(mode, d, at, bundle, current),
         \/ at = "gate"
         \/ at \in {"history", "check"} /\ bundle \notin {Absent, Previous}
  PROVE  TypeOK'
<1>1. job' \in [mode: Modes, dir: Directories \cup {"none"}, bundle: Bundles, current: Bundles]
  BY DEF ByHand
<1>2. /\ job'.dir = d /\ job'.mode = mode /\ job'.bundle = bundle
      /\ pc' = at /\ due' = TRUE /\ commands' = commands + 1
      /\ UNCHANGED <<clock, sealed, site, public, staged, interrupted>>
  BY DEF ByHand
<1> QED  BY <1>1, <1>2 DEF TypeOK, Modes

LEMMA CommandType ==
  ASSUME TypeOK, NothingAbsent,
         \E d \in Directories : Prepare(d) \/ Install(d) \/ Renew(d)
  PROVE  TypeOK'
<1> PICK d \in Directories : Prepare(d) \/ Install(d) \/ Renew(d)
  OBVIOUS
<1>1. CASE Prepare(d)
  <2>1. public.root \in Bundles /\ public.root # Absent
    BY DEF TypeOK, NothingAbsent
  <2>2. Base(public.root) \in Bundles /\ Base(public.root) \notin {Absent, Previous}
    BY <2>1, BaseIsNotEmpty
  <2> QED  BY <1>1, <2>2, ByHandType, Constant_Bundles DEF Prepare, Modes
<1>2. CASE Install(d)
  <2>1. staged[d].trust \in Bundles /\ site.bundle \in Bundles
    BY DEF TypeOK
  <2>2. staged[d].trust \notin {Absent, Previous}
    BY <1>2 DEF Install, Installable, Candidate
  <2> QED  BY <1>2, <2>1, <2>2, ByHandType DEF Install, Modes
<1>3. CASE Renew(d)
  BY <1>3, ByHandType, Constant_Bundles DEF Renew, Modes
<1> QED  BY <1>1, <1>2, <1>3

LEMMA SyncType ==
  ASSUME TypeOK, Sync
  PROVE  TypeOK'
<1>1. staged' \in [Directories -> [root: Bundles, trust: Bundles, history: SUBSET Bundles]]
  BY Constant_Bundles DEF TypeOK, Sync, Nowhere
<1>2. job' \in [mode: Modes, dir: Directories \cup {"none"}, bundle: Bundles, current: Bundles]
  BY NoJobType, AdministrationAssumption DEF Sync, Modes, NoJob
<1>3. job'.dir = Workspace /\ job'.mode = "sync"
  BY DEF Sync, NoJob
<1> QED  BY <1>1, <1>2, <1>3, AdministrationAssumption DEF Sync, TypeOK, Modes

(* A step within a command: what Goto() leaves to say.                       *)
LEMMA GotoType ==
  ASSUME TypeOK, pc # "idle", NEW label \in {"idle", "history", "root", "trust", "record",
                   "check", "names", "readback", "publish"},
         Goto(label),
         site' \in [bundle: Bundles, missing: SUBSET Names],
         staged' \in [Directories -> [root: Bundles, trust: Bundles, history: SUBSET Bundles]],
         pc = "gate" => label = "idle"
  PROVE  TypeOK'
<1>1. CASE label = "idle"
  <2>1. job' = NoJob /\ pc' = "idle" /\ UNCHANGED <<clock, sealed, public, due, interrupted, commands>>
    BY <1>1 DEF Goto
  <2> QED  BY <2>1, NoJobType DEF TypeOK, Modes
<1>2. CASE label # "idle"
  <2>1. job' = job /\ pc' = label /\ UNCHANGED <<clock, sealed, public, due, interrupted, commands>>
    BY <1>2 DEF Goto
  <2> QED  BY <1>2, <2>1 DEF TypeOK
<1> QED  BY <1>1, <1>2

LEMMA DecideType ==
  ASSUME TypeOK, pc = "gate", NEW bundle \in Bundles, Decide(bundle),
         bundle \notin {Absent, Previous}, sealed' \in Seq(Nat), sealed' # <<>>
  PROVE  TypeOK'
<1>1. job' \in [mode: Modes, dir: Directories \cup {"none"}, bundle: Bundles, current: Bundles]
  BY DEF Decide, TypeOK, Modes
<1>2. /\ job'.dir = job.dir /\ job'.mode = job.mode /\ job'.bundle = bundle
      /\ pc' = "history"
      /\ UNCHANGED <<clock, site, public, staged, due, interrupted, commands>>
  BY DEF Decide, TypeOK
<1> QED  BY <1>1, <1>2 DEF TypeOK, Modes

LEMMA GateType ==
  ASSUME TypeOK, NothingAbsent, Reuse \/ Seal
  PROVE  TypeOK'
<1>1. /\ Base(site.bundle) \in Bundles
      /\ Base(site.bundle) \notin {Absent, Previous}
      /\ Len(Base(site.bundle)) \in Nat /\ Len(Base(site.bundle)) >= 1
  BY BaseIsNotEmpty DEF TypeOK, NothingAbsent
<1>2. CASE Reuse
  BY <1>1, <1>2, DecideType DEF Reuse, TypeOK
<1>3. CASE Seal
  <2>1. Len(sealed) + 1 \in Nat
    BY DEF TypeOK
  <2>2. /\ Append(Base(site.bundle), Len(sealed) + 1) \in Bundles
        /\ Append(Base(site.bundle), Len(sealed) + 1) \notin {Absent, Previous}
    BY <1>1, <2>1, AppendGrows, Constant_Bundles
  <2>3. sealed' \in Seq(Nat) /\ sealed' # <<>>
    BY <1>3, SealedUntil DEF Seal, TypeOK
  <2> QED  BY <1>3, <2>2, <2>3, DecideType DEF Seal
<1> QED  BY <1>2, <1>3

LEMMA StageType ==
  ASSUME TypeOK, StageHistory \/ StageRoot \/ StageTrust \/ RecordCurrent
  PROVE  TypeOK'
<1> USE DEF TypeOK
<1>1. job.dir \in Directories /\ job.bundle \in Bundles /\ job.current \in Bundles
      /\ staged[job.dir] \in [root: Bundles, trust: Bundles, history: SUBSET Bundles]
  BY DEF StageHistory, StageRoot, StageTrust, RecordCurrent
<1>2. CASE StageHistory
  <2>1. staged' \in [Directories -> [root: Bundles, trust: Bundles, history: SUBSET Bundles]]
    BY <1>1, <1>2, Constant_Bundles DEF StageHistory, Retain
  <2> QED  BY <1>2, <2>1, GotoType DEF StageHistory
<1>3. CASE StageRoot
  <2>1. staged' \in [Directories -> [root: Bundles, trust: Bundles, history: SUBSET Bundles]]
    BY <1>1, <1>3 DEF StageRoot
  <2> QED  BY <1>3, <2>1, GotoType DEF StageRoot
<1>4. CASE StageTrust
  <2>1. staged' \in [Directories -> [root: Bundles, trust: Bundles, history: SUBSET Bundles]]
    BY <1>1, <1>4 DEF StageTrust
  <2> QED  BY <1>4, <2>1, GotoType DEF StageTrust
<1>5. CASE RecordCurrent
  <2>1. staged' \in [Directories -> [root: Bundles, trust: Bundles, history: SUBSET Bundles]]
    BY <1>1, <1>5 DEF RecordCurrent, Retain, Unpublished
  <2> QED  BY <1>5, <2>1, GotoType DEF RecordCurrent
<1> QED  BY <1>2, <1>3, <1>4, <1>5

LEMMA InstallType ==
  ASSUME TypeOK,
         CheckInstall \/ (\E n \in Names : PutName(n)) \/ PutBundle \/ Readback \/ Refuse
  PROVE  TypeOK'
<1> USE DEF TypeOK
<1>1. CASE CheckInstall
  BY <1>1, GotoType DEF CheckInstall
<1>2. CASE \E n \in Names : PutName(n)
  <2> PICK n \in Names : PutName(n)
    BY <1>2
  <2>1. site' \in [bundle: Bundles, missing: SUBSET Names]
    BY DEF PutName
  <2> QED  BY <2>1, GotoType DEF PutName
<1>3. CASE PutBundle
  <2>1. site' \in [bundle: Bundles, missing: SUBSET Names]
    BY <1>3 DEF PutBundle
  <2> QED  BY <1>3, <2>1, GotoType DEF PutBundle
<1>4. CASE Readback
  BY <1>4, GotoType DEF Readback
<1>5. CASE Refuse
  BY <1>5, GotoType DEF Refuse
<1> QED  BY <1>1, <1>2, <1>3, <1>4, <1>5

LEMMA RestType ==
  ASSUME TypeOK, Publish \/ Crash \/ Tick \/ UNCHANGED vars
  PROVE  TypeOK'
<1>1. CASE Publish
  <2>1. job.dir \in Directories
    BY <1>1 DEF Publish, TypeOK
  <2>2. public' \in [root: Bundles, history: SUBSET Bundles]
    BY <1>1, <2>1 DEF Publish, TypeOK
  <2> QED  BY <1>1, <2>2, NoJobType DEF Publish, TypeOK, Modes
<1>2. CASE Crash
  BY <1>2, NoJobType, AdministrationAssumption DEF Crash, TypeOK, Modes
<1>3. CASE Tick
  BY <1>3, AdministrationAssumption DEF Tick, TypeOK
<1>4. CASE UNCHANGED vars
  BY <1>4 DEF vars, TypeOK
<1> QED  BY <1>1, <1>2, <1>3, <1>4

LEMMA TypeStep ==
  ASSUME TypeOK, NothingAbsent, [Next]_vars
  PROVE  TypeOK'
  BY CommandType, SyncType, GateType, StageType, InstallType, RestType DEF Next, Step

-----------------------------------------------------------------------------
LEMMA InitEstablishes == Init => IInv
<1> SUFFICES ASSUME Init PROVE IInv
  OBVIOUS
<1>1. TypeOK
  BY InitType
<1>2. /\ site.bundle \in {Previous, Approved} /\ public.root \in {Previous, Approved}
      /\ public.root = Approved => site.bundle = Approved
      /\ pc = "idle" /\ job.bundle = Absent
      /\ \A d \in Directories : staged[d].trust = Absent
  BY DEF Init, NoJob, Nowhere
<1>3. NothingAbsent
  BY <1>2, Constant_Bundles DEF NothingAbsent
<1>4. Near(Absent)
  BY <1>2, Constant_Bundles DEF Near, Base
<1>5. PublishedIsBehind
  BY <1>2, Constant_Bundles, PrefixOfItself, PreviousPrecedes DEF PublishedIsBehind
<1> QED  BY <1>1, <1>2, <1>3, <1>4, <1>5
         DEF IInv, StagedNear, JobNear, StagedForSync, Staged, CheckedBefore, InstalledBefore

(* Most steps move neither the site nor the publication.                     *)
LEMMA NothingMoves ==
  ASSUME site'.bundle = site.bundle, public'.root = public.root
  PROVE  /\ NothingAbsent => NothingAbsent'
         /\ PublishedIsBehind => PublishedIsBehind'
         /\ \A b \in Bundles : Near(b) => Near(b)'
  BY DEF NothingAbsent, PublishedIsBehind, Prefix, Near, Base

LEMMA StillNear ==
  ASSUME TypeOK, TypeOK', NothingAbsent, PublishedIsBehind, StagedNear,
         site'.bundle = site.bundle, public'.root = public.root,
         \A d \in Directories :
            staged'[d].trust = staged[d].trust \/ Near(staged'[d].trust)
  PROVE  NothingAbsent' /\ PublishedIsBehind' /\ StagedNear'
<1>1. \A d \in Directories : staged'[d].trust \in Bundles /\ Near(staged'[d].trust)
  BY DEF StagedNear, TypeOK
<1> QED  BY <1>1, NothingMoves DEF StagedNear

LEMMA AbsentIsNear ==
  ASSUME TypeOK, NothingAbsent
  PROVE  Near(Absent)
<1>1. Len(Base(site.bundle)) \in Nat /\ Len(Base(site.bundle)) >= 1
  BY BaseIsNotEmpty DEF TypeOK
<1>2. public.root # Previous => Len(public.root) \in Nat /\ Len(public.root) >= 1
  BY OnlyPreviousIsEmpty DEF TypeOK
<1> QED  BY <1>1, <1>2, Constant_Bundles DEF Near

LEMMA LengthsOrdered ==
  ASSUME TypeOK, PublishedIsBehind
  PROVE  /\ Len(public.root) \in Nat /\ Len(site.bundle) \in Nat
         /\ Len(public.root) <= Len(site.bundle)
         /\ public.root # Previous =>
              site.bundle # Previous /\ Base(site.bundle) = site.bundle
  BY Constant_Bundles, OnlyPreviousIsEmpty
     DEF TypeOK, PublishedIsBehind, Prefix, Base, Bundles

(* The bundle prepare stages.                                                *)
LEMMA PublishedIsNear ==
  ASSUME TypeOK, PublishedIsBehind
  PROVE  Near(Base(public.root))
<1>1. /\ Len(Base(site.bundle)) \in Nat /\ Len(Base(site.bundle)) >= 1
      /\ Len(Base(site.bundle)) >= Len(site.bundle)
  BY BaseIsNotEmpty DEF TypeOK
<1>2. CASE public.root = Previous
  <2>1. Base(public.root) = Approved
    BY <1>2 DEF Base
  <2> QED  BY <2>1, <1>1, <1>2, Constant_Bundles DEF Near
<1>3. CASE public.root # Previous
  <2>1. Base(public.root) = public.root
    BY <1>3 DEF Base
  <2> QED  BY <2>1, <1>1, LengthsOrdered DEF Near
<1> QED  BY <1>2, <1>3

LEMMA CommandKeeps ==
  ASSUME IInv, TypeOK',
         \E d \in Directories : Prepare(d) \/ Install(d) \/ Renew(d)
  PROVE  IInv'
<1> USE DEF IInv
<1> PICK d \in Directories : Prepare(d) \/ Install(d) \/ Renew(d)
  OBVIOUS
<1>1. UNCHANGED <<site, public, staged>>
  BY DEF Prepare, Install, Renew, ByHand
<1>2. NothingAbsent' /\ PublishedIsBehind' /\ StagedNear'
  BY <1>1, StillNear
<1>3. /\ pc' \in {"history", "check", "gate"} /\ job'.mode # "sync"
      /\ job'.bundle \in {Base(public.root), staged[d].trust, Absent}
  BY DEF Prepare, Install, Renew, ByHand
<1>4. Near(job'.bundle) /\ job'.bundle \in Bundles
  BY <1>3, PublishedIsNear, AbsentIsNear DEF StagedNear, TypeOK
<1>5. JobNear'
  BY <1>1, <1>4, NothingMoves DEF JobNear
<1> QED  BY <1>2, <1>3, <1>5 DEF StagedForSync, Staged, CheckedBefore, InstalledBefore

LEMMA SyncKeeps ==
  ASSUME IInv, TypeOK', Sync
  PROVE  IInv'
<1> USE DEF IInv
<1>1. /\ UNCHANGED <<site, public>>
      /\ pc' = "gate" /\ job'.bundle = Absent
      /\ \A d \in Directories : staged'[d].trust \in {staged[d].trust, Absent}
  BY DEF Sync, NoJob, Nowhere, TypeOK
<1>2. NothingAbsent' /\ PublishedIsBehind' /\ StagedNear'
  BY <1>1, StillNear, AbsentIsNear
<1>3. JobNear'
  BY <1>1, AbsentIsNear, NothingMoves, Constant_Bundles DEF JobNear
<1> QED  BY <1>1, <1>2, <1>3 DEF StagedForSync, Staged, CheckedBefore, InstalledBefore

(* What reuse and renewal decide on, the published authority being the       *)
(* runtime's or the one before.                                              *)
LEMMA DecidedIsNear ==
  ASSUME TypeOK, PublishedIsBehind, Chained
  PROVE  /\ Near(Base(site.bundle))
         /\ Near(Append(Base(site.bundle), Len(sealed) + 1))
<1>1. /\ Base(site.bundle) \in Bundles
      /\ Len(Base(site.bundle)) \in Nat
  BY BaseIsNotEmpty DEF TypeOK
<1>2. Len(sealed) + 1 \in Nat
  BY DEF TypeOK
<1>3. Len(Append(Base(site.bundle), Len(sealed) + 1)) = Len(Base(site.bundle)) + 1
  BY <1>1, <1>2, AppendGrows
<1>4. ASSUME public.root # Previous
      PROVE  Len(Base(site.bundle)) <= Len(public.root) + 1
  <2>1. Base(site.bundle) = site.bundle /\ public.root \in Bundles
    BY <1>4, LengthsOrdered DEF TypeOK
  <2>2. CASE site.bundle = public.root
    BY <2>1, <2>2, LengthsOrdered
  <2>3. CASE Extends(site.bundle, public.root)
    <3> PICK s \in Seals : site.bundle = Append(public.root, s)
      BY <2>3 DEF Extends
    <3>1. s \in Nat
      BY DEF Seals, TypeOK
    <3> QED  BY <2>1, <3>1, AppendGrows, LengthsOrdered
  <2> QED  BY <1>4, <2>2, <2>3 DEF Chained
<1> QED  BY <1>1, <1>3, <1>4, LengthsOrdered DEF Near

LEMMA GateKeeps ==
  ASSUME IInv, TypeOK', Reuse \/ Seal
  PROVE  IInv'
<1> USE DEF IInv
<1>1. /\ UNCHANGED <<site, public, staged>> /\ Chained /\ pc' = "history"
      /\ job'.bundle \in {Base(site.bundle), Append(Base(site.bundle), Len(sealed) + 1)}
  BY DEF Reuse, Seal, Decide, TypeOK
<1>2. NothingAbsent' /\ PublishedIsBehind' /\ StagedNear'
  BY <1>1, StillNear
<1>3. job'.bundle \in Bundles /\ Near(job'.bundle)
  BY <1>1, DecidedIsNear DEF TypeOK
<1>4. JobNear'
  BY <1>1, <1>3, NothingMoves DEF JobNear
<1> QED  BY <1>1, <1>2, <1>4 DEF StagedForSync, Staged, CheckedBefore, InstalledBefore

(* The bundle of a step within a command stays, or the command is over.      *)
LEMMA SameJob ==
  ASSUME IInv, TypeOK', NEW label, Goto(label), site'.bundle = site.bundle
  PROVE  /\ JobNear'
         /\ label # "idle" => job' = job
         /\ pc' = label /\ public' = public
<1>1. CASE label = "idle"
  <2>1. job' = NoJob /\ public' = public /\ pc' = label
    BY <1>1 DEF Goto
  <2>2. Near(Absent)'
    BY <2>1, AbsentIsNear, NothingMoves, Constant_Bundles DEF IInv
  <2> QED  BY <1>1, <2>1, <2>2 DEF JobNear, NoJob
<1>2. CASE label # "idle"
  <2>1. job' = job /\ public' = public /\ pc' = label
    BY <1>2 DEF Goto
  <2> QED  BY <2>1, NothingMoves DEF JobNear, IInv, TypeOK
<1> QED  BY <1>1, <1>2

LEMMA StageKeeps ==
  ASSUME IInv, TypeOK', StageHistory \/ StageRoot \/ StageTrust \/ RecordCurrent
  PROVE  IInv'
<1> USE DEF IInv
<1>1. job.dir \in Directories
  BY DEF StageHistory, StageRoot, StageTrust, RecordCurrent, TypeOK
<1>2. PICK label \in {"idle", "root", "trust", "record", "check"} : Goto(label)
  BY DEF StageHistory, StageRoot, StageTrust, RecordCurrent
<1>3. site' = site
  BY DEF StageHistory, StageRoot, StageTrust, RecordCurrent
<1>4. /\ JobNear' /\ (label # "idle" => job' = job) /\ pc' = label /\ public' = public
  BY <1>2, <1>3, SameJob
<1>5. /\ \A d \in Directories : staged'[d].trust \in {staged[d].trust, job.bundle}
      /\ \/ staged'[job.dir].root = staged[job.dir].root
         \/ staged'[job.dir].root = job.bundle
      /\ pc = "root" => staged'[job.dir].root = job.bundle
  BY <1>1 DEF StageHistory, StageRoot, StageTrust, RecordCurrent, Retain, TypeOK
<1>6. NothingAbsent' /\ PublishedIsBehind' /\ StagedNear'
  BY <1>3, <1>4, <1>5, StillNear DEF JobNear
<1>7. pc \in {"history", "root", "trust", "record"} /\ (pc = "history" => pc' = "root")
  BY DEF StageHistory, StageRoot, StageTrust, RecordCurrent, Goto
<1>8. StagedForSync'
  BY <1>4, <1>5, <1>7 DEF StagedForSync, Staged
<1> QED  BY <1>4, <1>6, <1>8 DEF CheckedBefore, InstalledBefore

LEMMA CheckKeeps ==
  ASSUME IInv, TypeOK',
         CheckInstall \/ (\E n \in Names : PutName(n)) \/ Readback \/ Refuse
  PROVE  IInv'
<1> USE DEF IInv
<1>1. PICK label \in {"idle", "names", "publish"} : Goto(label)
  BY DEF CheckInstall, PutName, Readback, Refuse
<1>2. site'.bundle = site.bundle /\ staged' = staged
  BY DEF CheckInstall, PutName, Readback, Refuse, TypeOK
<1>3. JobNear' /\ (label # "idle" => job' = job) /\ pc' = label /\ public' = public
  BY <1>1, <1>2, SameJob
<1>4. NothingAbsent' /\ PublishedIsBehind' /\ StagedNear'
  BY <1>2, <1>3, StillNear
<1>5. /\ label # "idle" => pc \in Staged
      /\ label = "publish" => job.mode = "sync" /\ site.bundle = job.bundle
      /\ sealed' = sealed
  BY <1>1, <1>3 DEF CheckInstall, PutName, Readback, Refuse, Goto, Staged
<1>6. label = "names" => Follows(job.bundle, site.bundle)
  BY <1>1, <1>3 DEF CheckInstall, PutName, Readback, Refuse, CheckedBefore, Goto
<1>7. StagedForSync' /\ InstalledBefore'
  BY <1>2, <1>3, <1>5 DEF StagedForSync, Staged, InstalledBefore
<1>8. CheckedBefore'
  BY <1>2, <1>3, <1>5, <1>6 DEF CheckedBefore, Follows, Extends, Base, Seals
<1> QED  BY <1>3, <1>4, <1>7, <1>8

-----------------------------------------------------------------------------
LEMMA InstalledFollows ==
  ASSUME IInv, PutBundle
  PROVE  /\ Follows(job.bundle, site.bundle)
         /\ job.bundle \in Bundles /\ job.bundle \notin {Absent, Previous}
         /\ Base(job.bundle) = job.bundle
         /\ Len(job.bundle) \in Nat
         /\ Len(Base(site.bundle)) \in Nat /\ Len(Base(site.bundle)) <= Len(job.bundle)
         /\ Prefix(site.bundle, job.bundle)
         /\ site'.bundle = job.bundle
         /\ UNCHANGED <<public, staged, job, sealed>> /\ pc' = "readback"
<1> USE DEF IInv
<1>1. Follows(job.bundle, site.bundle) /\ job.bundle \notin {Absent, Previous}
  BY DEF PutBundle, CheckedBefore, TypeOK
<1>2. /\ job.bundle \in Bundles /\ site.bundle \in Bundles
      /\ site'.bundle = job.bundle
      /\ UNCHANGED <<public, staged, job, sealed>> /\ pc' = "readback"
  BY DEF PutBundle, Goto, TypeOK
<1>3. Base(site.bundle) \in Bundles /\ Len(Base(site.bundle)) \in Nat
  BY <1>2, BaseIsNotEmpty
<1>4. Prefix(site.bundle, Base(site.bundle))
  BY <1>2, <1>3, PrefixOfItself, PreviousPrecedes DEF Base
<1>5. CASE job.bundle = Base(site.bundle)
  BY <1>1, <1>2, <1>3, <1>4, <1>5 DEF Base
<1>6. CASE Extends(job.bundle, Base(site.bundle))
  <2> PICK s \in Seals : job.bundle = Append(Base(site.bundle), s)
    BY <1>6 DEF Extends
  <2>1. s \in Nat
    BY DEF Seals, TypeOK
  <2>2. Prefix(site.bundle, job.bundle)
    BY <1>2, <1>3, <1>4, <2>1, PrefixGrows
  <2>3. Len(job.bundle) = Len(Base(site.bundle)) + 1
    BY <1>3, <2>1, AppendGrows
  <2> QED  BY <1>1, <1>2, <1>3, <2>2, <2>3 DEF Base
<1> QED  BY <1>1, <1>5, <1>6 DEF Follows

LEMMA PrefixOfPrefix ==
  ASSUME NEW a \in Bundles, NEW b \in Bundles, NEW c \in Bundles,
         Prefix(a, b), Prefix(b, c)
  PROVE  Prefix(a, c)
<1>1. Len(a) \in Nat /\ Len(b) \in Nat /\ Len(c) \in Nat
  BY DEF Bundles
<1> QED  BY <1>1 DEF Prefix

LEMMA PutBundleKeeps ==
  ASSUME IInv, TypeOK', PutBundle
  PROVE  IInv'
<1> USE DEF IInv
<1>1. Prefix(public.root, job.bundle)
  BY InstalledFollows, PrefixOfPrefix DEF PublishedIsBehind, TypeOK
<1>2. PublishedIsBehind'
  BY <1>1, InstalledFollows DEF PublishedIsBehind, JobNear, Near
<1>3. ASSUME NEW b \in Bundles, Near(b) PROVE Near(b)'
  <2>1. Len(b) \in Nat
    BY DEF Bundles
  <2> QED  BY <1>3, <2>1, InstalledFollows DEF Near
<1>4. StagedNear' /\ JobNear'
  BY <1>3, InstalledFollows DEF StagedNear, JobNear, TypeOK
<1>5. NothingAbsent'
  BY InstalledFollows DEF NothingAbsent
<1>6. StagedForSync' /\ CheckedBefore' /\ InstalledBefore'
  BY InstalledFollows DEF StagedForSync, CheckedBefore, InstalledBefore, Staged, PutBundle
<1> QED  BY <1>2, <1>4, <1>5, <1>6

LEMMA PublishKeeps ==
  ASSUME IInv, TypeOK', Publish
  PROVE  IInv'
<1> USE DEF IInv
<1>1. site.bundle = job.bundle /\ staged[job.dir].root = job.bundle
  BY DEF Publish, InstalledBefore, StagedForSync, Staged
<1>2. /\ public'.root = site.bundle /\ UNCHANGED <<site, staged, sealed>>
      /\ pc' = "idle" /\ job'.bundle = Absent
  BY <1>1 DEF Publish, NoJob
<1>3. site.bundle \in Bundles /\ site.bundle \notin {Absent, Previous} /\ Base(site.bundle) = site.bundle
  BY <1>1 DEF TypeOK, Publish, Base
<1>4. Len(site.bundle) \in Nat
  BY <1>3 DEF Bundles
<1>5. PublishedIsBehind'
  BY <1>2, <1>3, <1>4, PrefixOfItself DEF PublishedIsBehind
<1>6. ASSUME NEW b \in Bundles, Near(b) PROVE Near(b)'
  <2>1. Len(b) \in Nat
    BY DEF Bundles
  <2> QED  BY <1>2, <1>3, <1>4, <1>6, <2>1 DEF Near
<1>7. StagedNear'
  BY <1>2, <1>6 DEF StagedNear, TypeOK
<1>8. JobNear'
  BY <1>2, <1>6, AbsentIsNear, Constant_Bundles DEF JobNear
<1> QED  BY <1>2, <1>3, <1>5, <1>7, <1>8
         DEF NothingAbsent, StagedForSync, Staged, CheckedBefore, InstalledBefore

LEMMA RestKeeps ==
  ASSUME IInv, TypeOK', Crash \/ Tick \/ UNCHANGED vars
  PROVE  IInv'
<1> USE DEF IInv
<1>1. UNCHANGED <<site, public, staged, sealed>>
  BY DEF Crash, Tick, vars
<1>2. NothingAbsent' /\ PublishedIsBehind' /\ StagedNear'
  BY <1>1, StillNear
<1>3. CASE pc' = "idle" /\ job' = NoJob
  <2>1. JobNear'
    BY <1>1, <1>3, AbsentIsNear, NothingMoves, Constant_Bundles DEF JobNear, NoJob
  <2> QED  BY <1>2, <1>3, <2>1 DEF StagedForSync, Staged, CheckedBefore, InstalledBefore
<1>4. CASE pc' = pc /\ job' = job
  <2>1. JobNear'
    BY <1>1, <1>4, NothingMoves DEF JobNear, TypeOK
  <2> QED  BY <1>1, <1>2, <1>4, <2>1
           DEF StagedForSync, CheckedBefore, InstalledBefore, Follows, Extends, Base, Seals
<1> QED  BY <1>3, <1>4 DEF Crash, Tick, vars

LEMMA Inductive ==
  ASSUME IInv, [Next]_vars
  PROVE  IInv'
<1>1. TypeOK'
  BY TypeStep DEF IInv
<1> QED  BY <1>1, CommandKeeps, SyncKeeps, GateKeeps, StageKeeps, CheckKeeps,
            PutBundleKeeps, PublishKeeps, RestKeeps DEF Next, Step

THEOREM Invariant == Spec => []IInv
  BY InitEstablishes, Inductive, PTL DEF Spec

(* Types, and no command beyond its gate without a bundle of the ratified    *)
(* rules.                                                                    *)
THEOREM Typed == Spec => []TypeOK
<1>1. IInv => TypeOK
  BY DEF IInv
<1> QED  BY <1>1, Invariant, PTL

(* The publication is a prefix of the runtime's chain and at most two        *)
(* snapshots behind, whatever died or was installed from where.              *)
THEOREM PublicationIsBehind == Spec => []PublishedIsBehind
<1>1. IInv => PublishedIsBehind
  BY DEF IInv
<1> QED  BY <1>1, Invariant, PTL

LEMMA OnlyPutBundleInstalls ==
  ASSUME IInv, [Next]_vars, site'.bundle # site.bundle
  PROVE  PutBundle
  BY DEF Next, Step, vars, Prepare, Install, Renew, ByHand, Sync, Reuse, Seal, Decide,
         StageHistory, StageRoot, StageTrust, RecordCurrent, CheckInstall, PutName,
         Readback, Publish, Refuse, Crash, Tick, IInv, TypeOK

(* The runtime moves along one chain, one snapshot at a time, after both     *)
(* names are in place.                                                       *)
THEOREM InstallationIsInOrder == Spec => InstalledInOrder
<1>1. ASSUME IInv, [Next]_vars
      PROVE  [site'.bundle # site.bundle =>
               /\ site.missing = {}
               /\ \/ site.bundle = Previous /\ site'.bundle = Approved
                  \/ \E s \in Seals : site'.bundle = Append(Base(site.bundle), s)]_vars
  <2> SUFFICES ASSUME site'.bundle # site.bundle
               PROVE  /\ site.missing = {}
                      /\ \/ site.bundle = Previous /\ site'.bundle = Approved
                         \/ \E s \in Seals : site'.bundle = Append(Base(site.bundle), s)
    OBVIOUS
  <2>1. PutBundle
    BY <1>1, OnlyPutBundleInstalls
  <2>2. site.missing = {} /\ site'.bundle = job.bundle /\ Follows(job.bundle, site.bundle)
    BY <1>1, <2>1, InstalledFollows DEF PutBundle
  <2> QED  BY <2>2 DEF Follows, Extends, Base
<1> QED  BY <1>1, Invariant, PTL DEF Spec, InstalledInOrder

-----------------------------------------------------------------------------
(* The history. What sync publishes is decided on the runtime's bundle, which *)
(* continues what is published; its directory was emptied before, so that     *)
(* nothing else is published with it.                                         *)

Continues(b, a) == \E s \in Nat : b = Append(a, s)

LastRetained(b) ==
  /\ Len(b) <= Len(public.root)
  /\ \/ SubSeq(b, 1, Len(b) - 1) \in Published
     \/ \A a \in Published \ {Previous} : Len(b) <= Len(a)

PublicHistory ==
  /\ public.root = Previous => public.history = {}
  /\ public.root # Previous =>
       /\ Previous \in public.history
       /\ \A b \in Published \ {Previous} : LastRetained(b)

Syncing == pc # "idle" /\ job.mode = "sync"

SyncJob ==
  Syncing /\ pc # "gate" =>
    /\ public.root # Previous =>
         job.current = public.root \/ Continues(job.current, public.root)
    /\ job.bundle = Base(job.current) \/ Continues(job.bundle, Base(job.current))

Kept == {Previous} \cup ({public.root} \ {job.bundle})

SyncHistory ==
  Syncing =>
    /\ pc \in {"gate", "history"} => staged[job.dir].history = {}
    /\ pc \in {"root", "trust", "record"} => staged[job.dir].history = Kept
    /\ pc \in {"check", "names", "readback", "publish"} =>
         staged[job.dir].history = Kept \cup Unpublished

HInv == PublicHistory /\ SyncJob /\ SyncHistory

LEMMA Continuation ==
  ASSUME NEW a \in Bundles, NEW b \in Bundles, Continues(b, a)
  PROVE  Len(b) = Len(a) + 1 /\ SubSeq(b, 1, Len(b) - 1) = a
<1>1. PICK s \in Nat : b = Append(a, s)
  BY DEF Continues
<1>2. Len(b) = Len(a) + 1 /\ \A i \in 1..Len(a) : b[i] = a[i]
  BY <1>1, AppendGrows
<1>3. a \in Seq(Nat) /\ b \in Seq(Nat) /\ Len(a) \in Nat
  BY DEF Bundles
<1>4. SubSeq(b, 1, Len(b) - 1) = a
  BY <1>2, <1>3
<1> QED  BY <1>2, <1>4

LEMMA ExtensionContinues ==
  ASSUME TypeOK, NEW a, NEW b, Extends(b, a)
  PROVE  Continues(b, a)
  BY DEF TypeOK, Extends, Continues, Seals

LEMMA PublicStays ==
  ASSUME HInv, UNCHANGED public
  PROVE  PublicHistory'
  BY DEF HInv, PublicHistory, LastRetained, Published

(* A step that ends the command, or is not one of a sync.                     *)
LEMMA NotSyncing ==
  ASSUME HInv, UNCHANGED public, ~Syncing'
  PROVE  HInv'
  BY PublicStays DEF HInv, SyncJob, SyncHistory

(* A step of a command that leaves its directory's history alone.             *)
LEMMA SameHistory ==
  ASSUME HInv, UNCHANGED <<public, job>>, pc # "idle",
         staged'[job.dir].history = staged[job.dir].history,
         \/ pc' = pc
         \/ pc \in {"root", "trust", "record"} /\ pc' \in {"root", "trust", "record"}
         \/ /\ pc \in {"check", "names", "readback", "publish"}
            /\ pc' \in {"check", "names", "readback", "publish"}
  PROVE  HInv'
<1>1. Continues(job.current, public.root)' = Continues(job.current, public.root)
  BY DEF Continues
<1>2. Base(job.current)' = Base(job.current)
  BY DEF Base
<1>3. Continues(job.bundle, Base(job.current))' = Continues(job.bundle, Base(job.current))
  BY <1>2 DEF Continues
<1>4. Kept' = Kept /\ Unpublished' = Unpublished
  BY DEF Kept, Unpublished
<1>5. SyncJob'
  BY <1>1, <1>2, <1>3 DEF HInv, SyncJob, Syncing
<1>6. SyncHistory'
  BY <1>4 DEF HInv, SyncHistory, Syncing
<1> QED  BY <1>5, <1>6, PublicStays DEF HInv

LEMMA GotoIdle ==
  ASSUME HInv, Goto("idle")
  PROVE  HInv'
  BY NotSyncing DEF Goto, Syncing

LEMMA SyncHistoryStart ==
  ASSUME TypeOK, HInv, Sync
  PROVE  HInv'
<1>1. /\ public' = public /\ pc' = "gate" /\ job'.dir = Workspace
      /\ staged'[Workspace].history = {}
  BY AdministrationAssumption DEF Sync, NoJob, Nowhere, TypeOK
<1> QED  BY <1>1, PublicStays DEF HInv, SyncJob, SyncHistory

LEMMA GateHistory ==
  ASSUME TypeOK, HInv, Reuse \/ Seal
  PROVE  HInv'
<1>1. /\ UNCHANGED <<public, staged, site>> /\ Chained
      /\ pc = "gate" /\ pc' = "history"
      /\ job'.dir = job.dir /\ job'.mode = job.mode /\ job'.current = site.bundle
      /\ job'.bundle \in {Base(site.bundle), Append(Base(site.bundle), Len(sealed) + 1)}
  BY DEF Reuse, Seal, Decide, TypeOK
<1>2. Len(sealed) + 1 \in Nat
  BY DEF TypeOK
<1>3. \/ job'.bundle = Base(site.bundle)
      \/ Continues(job'.bundle, Base(site.bundle))
  BY <1>1, <1>2 DEF Continues
<1>4. public.root # Previous =>
        site.bundle = public.root \/ Continues(site.bundle, public.root)
  BY <1>1, ExtensionContinues DEF Chained
<1>5. SyncJob'
  BY <1>1, <1>3, <1>4 DEF SyncJob, Continues, Base
<1>6. SyncHistory'
  BY <1>1 DEF HInv, SyncHistory, Syncing
<1> QED  BY <1>1, <1>5, <1>6, PublicStays DEF HInv

LEMMA StageHistoryRetains ==
  ASSUME TypeOK, HInv, StageHistory
  PROVE  HInv'
<1>1. /\ public' = public /\ job' = job /\ pc = "history" /\ pc' = "root"
      /\ job.dir \in Directories
      /\ staged'[job.dir].history = staged[job.dir].history \cup Kept
  BY DEF StageHistory, Goto, Retain, TypeOK, Kept
<1>2. SyncJob'
  BY <1>1 DEF HInv, SyncJob, Syncing, Continues, Base
<1>3. Kept' = Kept
  BY <1>1 DEF Kept
<1>4. SyncHistory'
  BY <1>1, <1>3 DEF HInv, SyncHistory, Syncing
<1> QED  BY <1>1, <1>2, <1>4, PublicStays DEF HInv

LEMMA RecordHistory ==
  ASSUME TypeOK, HInv, RecordCurrent
  PROVE  HInv'
<1>1. /\ public' = public /\ job' = job /\ pc = "record" /\ pc' = "check"
      /\ job.dir \in Directories
      /\ staged'[job.dir].history = staged[job.dir].history \cup Unpublished
  BY DEF RecordCurrent, Goto, Retain, TypeOK
<1>2. SyncJob'
  BY <1>1 DEF HInv, SyncJob, Syncing, Continues, Base
<1>3. Kept' = Kept /\ Unpublished' = Unpublished
  BY <1>1 DEF Kept, Unpublished
<1>4. SyncHistory'
  BY <1>1, <1>3 DEF HInv, SyncHistory, Syncing
<1> QED  BY <1>1, <1>2, <1>4, PublicStays DEF HInv

LEMMA StepHistory ==
  ASSUME TypeOK, HInv,
         \/ StageRoot \/ StageTrust \/ CheckInstall \/ (\E n \in Names : PutName(n))
         \/ PutBundle \/ Readback \/ Refuse
  PROVE  HInv'
<1>1. PICK label \in {"idle", "trust", "record", "names", "readback", "publish"} :
        Goto(label)
  BY DEF StageRoot, StageTrust, CheckInstall, PutName, PutBundle, Readback, Refuse
<1>2. CASE label = "idle"
  BY <1>1, <1>2, GotoIdle
<1>3. CASE label # "idle"
  <2>1. UNCHANGED <<public, job>> /\ pc' = label
    BY <1>1, <1>3 DEF Goto
  <2>2. staged'[job.dir].history = staged[job.dir].history
    BY DEF StageRoot, StageTrust, CheckInstall, PutName, PutBundle, Readback, Refuse,
           TypeOK
  <2>3. \/ pc = "root" /\ pc' = "trust"
        \/ pc = "trust" /\ pc' = "record"
        \/ pc = "check" /\ pc' = "names"
        \/ pc = "names" /\ pc' \in {"names", "readback"}
        \/ pc = "readback" /\ pc' = "publish"
    BY <1>3, <2>1
       DEF StageRoot, StageTrust, CheckInstall, PutName, PutBundle, Readback, Refuse, Goto
  <2> QED  BY <2>1, <2>2, <2>3, SameHistory
<1> QED  BY <1>2, <1>3

(* The publication of what sync staged: the runtime's bundle, the one before  *)
(* it and what was published, in one chain.                                   *)
LEMMA PublishHistory ==
  ASSUME IInv, HInv, Publish
  PROVE  HInv'
<1> DEFINE old == public.root
           cur == job.current
           new == job.bundle
<1>1. /\ pc = "publish" /\ Syncing /\ ~Syncing'
      /\ public' = [root |-> staged[job.dir].root,
                    history |-> public.history \cup staged[job.dir].history]
  BY DEF Publish, IInv, InstalledBefore, Syncing
<1>2. /\ public'.root = new
      /\ public'.history = public.history \cup Kept \cup Unpublished
  BY <1>1 DEF IInv, StagedForSync, Staged, HInv, SyncHistory, Syncing
<1>3. /\ old \in Bundles /\ cur \in Bundles /\ new \in Bundles
      /\ new \notin {Absent, Previous}
      /\ Base(cur) \in Bundles /\ Len(old) \in Nat /\ Len(cur) \in Nat /\ Len(new) \in Nat
      /\ public.history \subseteq Bundles
  BY <1>1, BaseIsNotEmpty DEF IInv, TypeOK, Bundles
<1>4. /\ old # Previous => cur = old \/ Continues(cur, old)
      /\ new = Base(cur) \/ Continues(new, Base(cur))
  BY <1>1 DEF HInv, SyncJob
<1>5. Published' = public.history \cup {Previous, old, new} \cup
                     ({cur} \ {Previous, new, old})
  BY <1>2 DEF Published, Kept, Unpublished
<1>6. Previous \in public'.history
  BY <1>2 DEF Kept
<1>7. cur # Previous => Base(cur) = cur /\ cur \in Published'
  BY <1>5 DEF Base
<1>8. cur # Previous /\ new # cur =>
        Len(new) = Len(cur) + 1 /\ SubSeq(new, 1, Len(new) - 1) = cur
  BY <1>3, <1>4, <1>7, Continuation
<1>9. ASSUME NEW b \in Published' \ {Previous}
      PROVE  LastRetained(b)'
  <2> SUFFICES /\ Len(b) <= Len(new)
               /\ \/ SubSeq(b, 1, Len(b) - 1) \in Published'
                  \/ \A a \in Published' \ {Previous} : Len(b) <= Len(a)
    BY <1>2 DEF LastRetained
  <2>1. b \in Bundles /\ Len(b) \in Nat
    BY <1>3, <1>5, <1>9 DEF Bundles
  <2>2. CASE old = Previous
    <3>1. Published' \ {Previous} = {new} \cup ({cur} \ {Previous, new})
      BY <1>3, <1>5, <2>2 DEF HInv, PublicHistory
    <3>2. CASE b = new
      <4>1. CASE cur \in {Previous, new}
        BY <1>3, <3>1, <3>2, <4>1
      <4>2. CASE cur \notin {Previous, new}
        <5>1. SubSeq(new, 1, Len(new) - 1) = cur /\ cur \in Published'
          BY <1>7, <1>8, <4>2
        <5>2. Len(b) <= Len(new)
          BY <1>3, <3>2
        <5>3. SubSeq(b, 1, Len(b) - 1) \in Published'
          BY <3>2, <5>1
        <5> QED  BY <5>2, <5>3
      <4> QED  BY <4>1, <4>2
    <3>3. CASE b = cur /\ cur \notin {Previous, new}
      BY <1>3, <1>8, <3>1, <3>3
    <3> QED  BY <1>9, <3>1, <3>2, <3>3
  <2>3. CASE old # Previous
    <3>1. cur # Previous /\ Len(cur) >= Len(old) /\ Len(new) >= Len(cur)
      <4>1. Len(cur) >= Len(old) /\ cur # Previous
        BY <1>3, <1>4, <2>3, Continuation, OnlyPreviousIsEmpty, Constant_Bundles
      <4> QED  BY <1>3, <1>8, <4>1
    <3>2. CASE b \in Published
      <4>1. LastRetained(b)
        BY <1>9, <2>3, <3>2 DEF HInv, PublicHistory
      <4>2. Len(b) <= Len(old) /\ Len(b) <= Len(cur) /\ Len(b) <= Len(new)
        BY <1>3, <2>1, <3>1, <4>1 DEF LastRetained
      <4>3. Published \subseteq Published'
        BY <1>5 DEF Published
      <4>4. \A a \in Published' \ {Previous} : a \in Published \/ a \in {cur, new}
        BY <1>5 DEF Published
      <4> QED  BY <4>1, <4>2, <4>3, <4>4 DEF LastRetained
    <3>3. CASE b = cur /\ b # old
      <4>1. SubSeq(b, 1, Len(b) - 1) = old
        BY <1>3, <1>4, <2>3, <3>3, Continuation
      <4> QED  BY <1>5, <3>1, <3>3, <4>1
    <3>4. CASE b = new /\ b # cur
      <4>1. SubSeq(new, 1, Len(new) - 1) = cur /\ cur \in Published'
        BY <1>7, <1>8, <3>1, <3>4
      <4>2. Len(b) <= Len(new)
        BY <1>3, <3>4
      <4>3. SubSeq(b, 1, Len(b) - 1) \in Published'
        BY <3>4, <4>1
      <4> QED  BY <4>2, <4>3
    <3> QED  BY <1>5, <1>9, <3>2, <3>3, <3>4 DEF Published
  <2> QED  BY <2>2, <2>3
<1>10. PublicHistory'
  BY <1>2, <1>3, <1>6, <1>9 DEF PublicHistory
<1> QED  BY <1>1, <1>10 DEF HInv, SyncJob, SyncHistory

LEMMA NextHistory ==
  ASSUME IInv, HInv, [Next]_vars
  PROVE  HInv'
<1> USE DEF IInv
<1>1. CASE \E d \in Directories : Prepare(d) \/ Install(d) \/ Renew(d)
  BY <1>1, NotSyncing DEF Prepare, Install, Renew, ByHand, Syncing
<1>2. CASE Crash
  BY <1>2, NotSyncing DEF Crash, Syncing
<1>3. CASE Tick \/ UNCHANGED vars
  <2>1. UNCHANGED <<public, staged, pc, job>>
    BY <1>3 DEF Tick, vars
  <2>2. CASE pc = "idle"
    BY <2>1, <2>2, NotSyncing DEF Syncing
  <2> QED  BY <2>1, <2>2, SameHistory
<1> QED  BY <1>1, <1>2, <1>3, SyncHistoryStart, GateHistory, StageHistoryRetains,
            RecordHistory, StepHistory, PublishHistory DEF Next, Step

LEMMA HistoryInvariant == Spec => []HInv
<1>1. Init => HInv
  <2> SUFFICES ASSUME Init PROVE HInv
    OBVIOUS
  <2>1. /\ pc = "idle"
        /\ \/ public.root = Previous /\ public.history = {}
           \/ public.root = Approved /\ public.history = {Previous}
    BY DEF Init
  <2>2. public.root # Previous => Published \ {Previous} = {Approved}
    BY <2>1, Constant_Bundles DEF Published
  <2>3. PublicHistory
    BY <2>1, <2>2, Constant_Bundles DEF PublicHistory, LastRetained
  <2> QED  BY <2>1, <2>3 DEF HInv, SyncJob, SyncHistory, Syncing
<1> QED  BY <1>1, NextHistory, Invariant, PTL DEF Spec

LEMMA RetainedIsGapless == TypeOK /\ HInv => HistoryGapless
<1> SUFFICES ASSUME TypeOK, HInv, public.root # Previous,
                    NEW b \in Published \ {Previous},
                    NEW a \in Published \ {Previous, b}, Prefix(a, b)
             PROVE  SubSeq(b, 1, Len(b) - 1) \in Published
  BY DEF HistoryGapless, HInv, PublicHistory
<1>1. a \in Seq(Nat) /\ b \in Seq(Nat)
  BY DEF TypeOK, Published, Bundles
<1>2. Len(a) # Len(b)
  BY <1>1 DEF Prefix
<1>3. ~(Len(b) <= Len(a))
  BY <1>1, <1>2 DEF Prefix
<1> QED  BY <1>3 DEF HInv, PublicHistory, LastRetained

(* The published history has no gap, whatever died between an installation    *)
(* and its publication.                                                       *)
THEOREM PublishedHistoryIsGapless == Spec => []HistoryGapless
<1>1. IInv /\ HInv => HistoryGapless
  BY RetainedIsGapless DEF IInv
<1> QED  BY <1>1, Invariant, HistoryInvariant, PTL
=============================================================================
