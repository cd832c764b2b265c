---------------------------- MODULE Administration ----------------------------
(***************************************************************************)
(* The administration of the ratified v1.1 authority: the commands         *)
(* prepare, install, renew and sync of                                     *)
(* scripts/open-authority-administration.mjs and syncV11Authority of       *)
(* scripts/sync-v11-authority.mjs around it, from one await to the next,   *)
(* with the crashes that may come at each of them.                         *)
(*                                                                         *)
(* Three things must agree and are changed one after the other: the files  *)
(* staged in a directory, the variables of the production site and the     *)
(* files published with the repository. Commands do not overlap: the       *)
(* operating instructions (docs/OPEN-ACQUISITION-v1.1.md) have them        *)
(* serialized by a workflow's concurrency group, nothing in the code does  *)
(* it. Each works in a fresh checkout, and what it publishes is committed  *)
(* as a whole: deploy-netlify.yml refuses a tree that is not a commit.     *)
(*                                                                         *)
(* A trust bundle of the ratified rules is the chain of its status         *)
(* snapshots, a sequence of seals: previous_hash is a hash, so the last    *)
(* snapshot determines the chain. A publication is determined by its       *)
(* bundle. Previous is the v1 authority, whatever its own status.          *)
(***************************************************************************)
EXTENDS Integers, Sequences

CONSTANTS
  Directories,    \* preparation directories
  Workspace,      \* the one of the schedule: artifacts/authority-prepared
  Life,           \* a status snapshot lasts that long at most: 86400
  RenewBelow,     \* sync renews what has less left: 64800
  Margin,         \* nothing is sealed that lasts this or less: 3600
  FirstUntil,     \* valid_until of the snapshot ratified with the rules
  AuthorityUntil, \* when the profile authorization or a certificate runs out
  MaxTime,        \* bound: the clock stops here
  MaxInterrupted, \* bound: commands that die
  MaxCommands     \* bound: commands given by hand

ASSUME AdministrationAssumption ==
  /\ Workspace \in Directories
  /\ {Life, RenewBelow, Margin, FirstUntil, AuthorityUntil} \subseteq Nat
  /\ {MaxTime, MaxInterrupted, MaxCommands} \subseteq Nat
  /\ Margin < RenewBelow /\ RenewBelow <= Life
  /\ FirstUntil <= AuthorityUntil

VARIABLES
  clock,
  sealed,       \* valid_until of every snapshot the root has sealed
  site,         \* the runtime variables of the production site
  public,       \* public/authority of the main branch
  staged,       \* the preparation directories
  pc,           \* the await the command is at
  job,          \* its local variables
  due,          \* the schedule has a sync to run
  interrupted,  \* how many commands died
  commands      \* how many commands were given by hand

vars == <<clock, sealed, site, public, staged, pc, job, due, interrupted, commands>>

Previous == <<>>
Approved == <<1>>
Absent   == <<0>>     \* no such file

Seals   == 1..Len(sealed)
Bundles == Seq(Nat)
Names   == {"WHP_ROOT_PIN", "WHP_ORIGIN"}
Nowhere == [root |-> Absent, trust |-> Absent, history |-> {}]
NoJob   == [mode |-> "none", dir |-> "none", bundle |-> Absent, current |-> Absent]

TypeOK ==
  /\ clock \in Nat
  /\ sealed \in Seq(Nat) /\ sealed # <<>>
  /\ site \in [bundle: Bundles, missing: SUBSET Names]
  /\ public \in [root: Bundles, history: SUBSET Bundles]
  /\ staged \in [Directories -> [root: Bundles, trust: Bundles, history: SUBSET Bundles]]
  /\ pc \in {"idle", "gate", "history", "root", "trust", "record", "check",
             "names", "readback", "publish"}
  /\ job \in [mode: {"none", "prepare", "install", "renew", "sync"},
              dir: Directories \cup {"none"}, bundle: Bundles, current: Bundles]
  /\ pc # "idle" => job.dir \in Directories /\ job.mode # "none"
  /\ pc \notin {"idle", "gate"} => job.bundle \notin {Absent, Previous}
  /\ due \in BOOLEAN
  /\ interrupted \in Nat /\ commands \in Nat

(* The rules are ratified; their first installation and publication may be  *)
(* still to come. The names may be missing with either authority: the       *)
(* origin moved after the first installation.                               *)
Init ==
  /\ clock = 0
  /\ sealed = <<FirstUntil>>
  /\ site \in [bundle: {Previous, Approved}, missing: SUBSET Names]
  /\ public \in {[root |-> Previous, history |-> {}],
                 [root |-> Approved, history |-> {Previous}]}
  /\ public.root = Approved => site.bundle = Approved
  /\ staged = [d \in Directories |-> Nowhere]
  /\ pc = "idle"
  /\ job = NoJob
  /\ due = TRUE
  /\ interrupted = 0 /\ commands = 0

Lower(a, b) == IF a < b THEN a ELSE b

Until(b) == sealed[b[Len(b)]]

(* candidate() at the time it is called: a bundle of the ratified rules whose *)
(* snapshot is valid. Read with statusTime(), as runtime() and                *)
(* publicCandidate() do, it is valid at any time.                             *)
Candidate(b) == b \notin {Previous, Absent} /\ clock < Until(b)

Base(current) == IF current = Previous THEN Approved ELSE current

Extends(next, base) == \E s \in Seals : next = Append(base, s)

FollowsAnything(next, current) == TRUE                 \* faulty

Follows(next, current) == next = Base(current) \/ Extends(next, Base(current))

ChainedAnyhow == TRUE   \* faulty

ChainedExactly == public.root \in {Previous, site.bundle}   \* faulty

(* What is published is what the site has, or the snapshot before it.       *)
Chained ==
  public.root # Previous =>
    /\ site.bundle # Previous
    /\ site.bundle = public.root \/ Extends(site.bundle, public.root)

LongEnough(b) == Until(b) >= clock + RenewBelow

NewUntil == Lower(clock + Life, AuthorityUntil)

-----------------------------------------------------------------------------
(* The commands. `due' keeps the schedule going: a sync is run again after   *)
(* time has passed, after one that died and after a command given by hand.   *)

ByHand(mode, d, at, bundle, current) ==
  /\ pc = "idle" /\ commands < MaxCommands
  /\ commands' = commands + 1
  /\ pc' = at
  /\ job' = [mode |-> mode, dir |-> d, bundle |-> bundle, current |-> current]
  /\ due' = TRUE
  /\ UNCHANGED <<clock, sealed, site, public, staged, interrupted>>

Prepare(d) == ByHand("prepare", d, "history", Base(public.root), Absent)

InstallableUnread(d) == Previous \in staged[d].history   \* faulty

Installable(d) ==
  /\ Candidate(staged[d].trust)
  /\ staged[d].root = staged[d].trust
  /\ Previous \in staged[d].history

Install(d) ==
  /\ Installable(d)
  /\ ByHand("install", d, "check", staged[d].trust, site.bundle)

Renew(d) ==
  /\ site.bundle # Previous
  /\ ByHand("renew", d, "gate", Absent, Absent)

(* syncV11Authority() empties its directory before it asks for anything.     *)
Sync ==
  /\ pc = "idle" /\ due
  /\ due' = FALSE
  /\ staged' = [staged EXCEPT ![Workspace] = Nowhere]
  /\ pc' = "gate"
  /\ job' = [NoJob EXCEPT !.mode = "sync", !.dir = Workspace]
  /\ UNCHANGED <<clock, sealed, site, public, interrupted, commands>>

-----------------------------------------------------------------------------
(* The steps of a command.                                                   *)

Goto(label) ==
  /\ pc' = label
  /\ job' = IF label = "idle" THEN NoJob ELSE job
  /\ UNCHANGED <<clock, sealed, public, due, interrupted, commands>>

Decide(bundle) ==
  /\ job' = [job EXCEPT !.bundle = bundle, !.current = site.bundle]
  /\ pc' = "history"
  /\ UNCHANGED <<clock, site, public, staged, due, interrupted, commands>>

(* The full TEST gate has passed and the runtime was read.                   *)
Reuse ==
  /\ pc = "gate" /\ Chained
  /\ job.mode = "sync" /\ LongEnough(Base(site.bundle))
  /\ Decide(Base(site.bundle))
  /\ UNCHANGED sealed

Seal ==
  /\ pc = "gate" /\ Chained
  /\ job.mode = "renew" \/ ~LongEnough(Base(site.bundle))
  /\ NewUntil > clock + Margin
  /\ sealed' = Append(sealed, NewUntil)
  /\ Decide(Append(Base(site.bundle), Len(sealed) + 1))

Retain(d, bundles) ==
  staged' = [staged EXCEPT ![d].history = @ \cup bundles]

(* stage(): the previous authority and what is published now; the files of   *)
(* one publication never differ, so these writes never conflict. A file is   *)
(* written as a whole or not at all: one that a crash left in parts makes    *)
(* every later write of it a PREPARED_FILE_CONFLICT, which only ends the     *)
(* commands of its directory, and is left out.                               *)
StageHistory ==
  /\ pc = "history" /\ Candidate(job.bundle)
  /\ Retain(job.dir, {Previous} \cup ({public.root} \ {job.bundle}))
  /\ Goto("root")
  /\ UNCHANGED site

Writable(file) == file = Absent \/ file = job.bundle

StageRoot ==
  /\ pc = "root" /\ Writable(staged[job.dir].root)
  /\ staged' = [staged EXCEPT ![job.dir].root = job.bundle]
  /\ Goto("trust")
  /\ UNCHANGED site

StageTrust ==
  /\ pc = "trust" /\ Writable(staged[job.dir].trust)
  /\ staged' = [staged EXCEPT ![job.dir].trust = job.bundle]
  /\ Goto(IF job.mode = "prepare" THEN "idle" ELSE "record")
  /\ UNCHANGED site

NothingUnpublished == {}   \* faulty

(* What the site has and nobody published goes to the history as well.       *)
Unpublished ==
  {b \in {job.current} : b \notin {Previous, job.bundle, public.root}}

RecordCurrent ==
  /\ pc = "record"
  /\ Retain(job.dir, Unpublished)
  /\ Goto("check")
  /\ UNCHANGED site

CheckInstall ==
  /\ pc = "check"
  /\ Candidate(job.bundle)
  /\ site.bundle = job.current
  /\ Follows(job.bundle, job.current)
  /\ Goto("names")
  /\ UNCHANGED <<site, staged>>

PutName(n) ==
  /\ pc = "names" /\ n \in site.missing
  /\ n = "WHP_ORIGIN" => "WHP_ROOT_PIN" \notin site.missing
  /\ site' = [site EXCEPT !.missing = @ \ {n}]
  /\ Goto("names")
  /\ UNCHANGED staged

PutBundle ==
  /\ pc = "names" /\ site.missing = {}
  /\ site' = [site EXCEPT !.bundle = job.bundle]
  /\ Goto("readback")
  /\ UNCHANGED staged

Readback ==
  /\ pc = "readback"
  /\ site.bundle = job.bundle /\ site.missing = {}
  /\ Goto(IF job.mode = "sync" THEN "publish" ELSE "idle")
  /\ UNCHANGED <<site, staged>>

(* Only what sync staged is published; the copies become one commit.         *)
Publish ==
  /\ pc = "publish"
  /\ public' = [root |-> staged[job.dir].root,
                history |-> public.history \cup staged[job.dir].history]
  /\ pc' = "idle" /\ job' = NoJob
  /\ UNCHANGED <<clock, sealed, site, staged, due, interrupted, commands>>

Demanded ==
  CASE pc = "gate"    -> Chained /\ \/ job.mode = "sync" /\ LongEnough(Base(site.bundle))
                                    \/ NewUntil > clock + Margin
    [] pc = "history" -> Candidate(job.bundle)
    [] pc = "root"    -> Writable(staged[job.dir].root)
    [] pc = "trust"   -> Writable(staged[job.dir].trust)
    [] pc = "check"   -> /\ Candidate(job.bundle) /\ site.bundle = job.current
                         /\ Follows(job.bundle, job.current)
    [] OTHER          -> TRUE

Refuse ==
  /\ pc # "idle" /\ ~Demanded
  /\ Goto("idle")
  /\ UNCHANGED <<site, staged>>

Crash ==
  /\ pc # "idle" /\ interrupted < MaxInterrupted
  /\ interrupted' = interrupted + 1
  /\ pc' = "idle" /\ job' = NoJob /\ due' = TRUE
  /\ UNCHANGED <<clock, sealed, site, public, staged, commands>>

Tick ==
  /\ clock < MaxTime
  /\ clock' = clock + 1
  /\ due' = TRUE
  /\ UNCHANGED <<sealed, site, public, staged, pc, job, interrupted, commands>>

Step ==
  \/ Reuse \/ Seal \/ StageHistory \/ StageRoot \/ StageTrust \/ RecordCurrent
  \/ CheckInstall \/ \E n \in Names : PutName(n)
  \/ PutBundle \/ Readback \/ Publish \/ Refuse

Next ==
  \/ \E d \in Directories : Prepare(d) \/ Install(d) \/ Renew(d)
  \/ Sync \/ Step \/ Crash \/ Tick

Spec == Init /\ [][Next]_vars

(* A command runs to its end unless it dies; the schedule runs what is due.  *)
FairSpec == Spec /\ WF_vars(Step) /\ WF_vars(Sync)

-----------------------------------------------------------------------------
(* PROPERTIES                                                                *)

(* The runtime never loses or forks its status: whatever was staged, sealed   *)
(* and abandoned before, one installation moves it by at most one snapshot    *)
(* along one chain, and only after both names are in place (follows(),        *)
(* installBundle()).                                                          *)
InstalledInOrder ==
  [][site'.bundle # site.bundle =>
       /\ site.missing = {}
       /\ \/ site.bundle = Previous /\ site'.bundle = Approved
          \/ \E s \in Seals : site'.bundle = Append(Base(site.bundle), s)]_vars

Prefix(a, b) == Len(a) <= Len(b) /\ \A i \in 1..Len(a) : a[i] = b[i]

(* What is published is the runtime's bundle or one it had before, and once   *)
(* something is published, never more than two snapshots before: commands     *)
(* check the published authority before they seal, and an installation of an  *)
(* older directory, which checks nothing published, cannot add to it          *)
(* (administer() lines 179-185).                                              *)
PublishedIsBehind ==
  /\ Prefix(public.root, site.bundle)
  /\ public.root # Previous => Len(site.bundle) <= Len(public.root) + 2

Published == public.history \cup {public.root}

(* The published history has no gap: the v1 authority is kept, and every      *)
(* published bundle but the first ratified one follows a published one,       *)
(* even when the one before was installed and its publication was lost        *)
(* (stage(), administer() lines 202-206).                                     *)
HistoryGapless ==
  public.root # Previous =>
    /\ Previous \in public.history
    /\ \A b \in Published \ {Previous} :
         (\E a \in Published \ {Previous, b} : Prefix(a, b))
           => SubSeq(b, 1, Len(b) - 1) \in Published

Settled ==
  /\ public.root = site.bundle /\ site.bundle # Previous
  /\ Until(site.bundle) >= Lower(clock + RenewBelow, AuthorityUntil)

Stranded == Len(site.bundle) = Len(public.root) + 2 /\ public.root # Previous

Expiring == NewUntil <= clock + Margin

(* Whatever died in between, the schedule ends with a runtime and a           *)
(* publication that agree and have long enough to live, unless the root's     *)
(* authority is about to run out or two installations were left unpublished   *)
(* in a row, which no command gets out of (administer() line 184).            *)
RenewedAndPublished == []<>(Settled \/ Stranded \/ Expiring)
=============================================================================
