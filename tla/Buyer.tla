-------------------------------- MODULE Buyer --------------------------------
(***************************************************************************)
(* The purchasing client: StandingBuyer (src/src/buyer.mjs), its durable   *)
(* journal (src/src/buyer-journal.mjs) and the loop of scripts/buy.mjs     *)
(* that calls purchase() again, against the service as the client sees it. *)
(*                                                                         *)
(* A worker is one process running the command; several share a journal    *)
(* file. Every await of purchase() and accept() ends a step; the journal's *)
(* methods are synchronous transactions. A process that dies, and a        *)
(* request or answer that is lost, forget the worker's local variables     *)
(* only. A second submission or policy under the same purchase id is       *)
(* refused by begin() before anything is written, and left out here.       *)
(***************************************************************************)
EXTENDS Integers, FiniteSets, Functions

CONSTANTS
  Workers, Purchases,
  Prices,          \* amounts the service may ask for
  MaxPerPurchase,  \* the policy's max_per_purchase
  MaxTotal,        \* the policy's max_total
  Bundles,         \* [sequence, digest]: status snapshots under the root pin
  MaxSigned        \* bound: authorizations the wallet signs

ASSUME BuyerAssumption ==
  /\ IsFiniteSet(Purchases) /\ Purchases # {}
  /\ Prices \subseteq Nat \ {0}
  /\ {MaxPerPurchase, MaxTotal, MaxSigned} \subseteq Nat
  /\ \A b \in Bundles : b.sequence \in Nat

VARIABLES
  journal,  \* buyer_purchases
  head,     \* buyer_trust_heads
  signed,   \* number of authorizations signed; each has a nonce of its own
  sent,     \* payments that left this buyer: they can be settled
  server,   \* the service's row of each purchase
  expired,  \* the purchases whose quote has expired
  pc,       \* the await each worker is at
  job       \* the local variables of each worker

durable == <<journal, head>>
world == <<signed, sent, server, expired>>
vars == <<durable, world, pc, job>>

NoBundle == [sequence |-> -1, digest |-> "none"]
Nonces == 1..MaxSigned

(* An amount or a payment that is not there is 0; `trust' is the status     *)
(* snapshot in the registry response stored with the result.                *)
Row == [state: {"ABSENT", "STARTED", "RESERVED", "AUTHORIZED", "VERIFIED"},
        amount: Prices \cup {0}, payment: Nonces \cup {0},
        trust: Bundles \cup {NoBundle}]

ServerRow == [state: {"ABSENT", "QUOTED", "BOUND", "ISSUED"},
              price: Prices \cup {0}, payment: Nonces \cup {0}]

Payment == [purchase: Purchases, amount: Prices, nonce: Nonces]

(* `known' is the trust head when the command began; no code reads it. *)
Job == [purchase: Purchases, nonce: Nonces \cup {0},
        trust: Bundles \cup {NoBundle}, known: Bundles \cup {NoBundle}]

Places == {"idle", "discover", "quote", "reserve", "sign", "authorize",
           "submit", "result", "recover", "registry", "verify", "accept"}

TypeOK ==
  /\ journal \in [Purchases -> Row]
  /\ head \in Bundles \cup {NoBundle}
  /\ signed \in 0..MaxSigned
  /\ sent \subseteq Payment
  /\ server \in [Purchases -> ServerRow]
  /\ expired \subseteq Purchases
  /\ pc \in [Workers -> Places]
  /\ job \in [Workers -> Job]

NoJob == [purchase |-> CHOOSE p \in Purchases : TRUE, nonce |-> 0,
          trust |-> NoBundle, known |-> NoBundle]

Init ==
  /\ journal = [p \in Purchases |-> [state |-> "ABSENT", amount |-> 0, payment |-> 0,
                                     trust |-> NoBundle]]
  /\ head = NoBundle
  /\ signed = 0
  /\ sent = {}
  /\ server = [p \in Purchases |-> [state |-> "ABSENT", price |-> 0, payment |-> 0]]
  /\ expired = {}
  /\ pc = [w \in Workers |-> "idle"]
  /\ job = [w \in Workers |-> NoJob]

Mine(w) == job[w].purchase

Goto(w, place) ==
  /\ pc' = [pc EXCEPT ![w] = place]
  /\ UNCHANGED job

(* purchase() returns or throws. *)
Leave(w) ==
  /\ pc' = [pc EXCEPT ![w] = "idle"]
  /\ job' = [job EXCEPT ![w] = NoJob]

-----------------------------------------------------------------------------
(* rememberTrust() of the journal. *)
AdvancesAnyway(bundle) == TRUE                     \* faulty: the newest answer wins

AdvancesOrRepeats(bundle) ==                       \* faulty: sequence alone decides
  bundle.sequence >= head.sequence

Advances(bundle) == bundle.sequence > head.sequence \/ bundle = head

RememberTrust(bundle) == Advances(bundle) /\ head' = bundle

-----------------------------------------------------------------------------
(* purchase() starts with journal.begin(): what is journaled decides whether  *)
(* the wallet may still be asked.                                             *)
Resumes(row) ==
  CASE row.payment # 0                     -> "result"
    [] row.payment = 0 /\ row.amount # 0   -> "sign"
    [] OTHER                               -> "discover"

BeginRow(p) ==
  IF journal[p].state = "ABSENT"
    THEN journal' = [journal EXCEPT ![p].state = "STARTED"]
    ELSE UNCHANGED journal

Begin(w, p) ==
  /\ pc[w] = "idle"
  /\ job' = [job EXCEPT ![w] = [NoJob EXCEPT !.purchase = p, !.known = head]]
  /\ BeginRow(p)
  /\ pc' = [pc EXCEPT ![w] = Resumes(journal[p])]
  /\ UNCHANGED <<head, world>>

(* discover(): the bundle is remembered, or the command stops. *)
Discover(w) ==
  /\ pc[w] = "discover"
  /\ \/ \E bundle \in Bundles : RememberTrust(bundle) /\ Goto(w, "quote")
     \/ UNCHANGED head /\ Leave(w)
  /\ UNCHANGED <<journal, world>>

(* POST without a payment: the service stores one quote per purchase.         *)
AskQuote(w) ==
  LET p == Mine(w) IN
  /\ pc[w] = "quote"
  /\ \/ /\ server[p].state = "ABSENT"
        /\ \E price \in Prices :
             server' = [server EXCEPT ![p].state = "QUOTED", ![p].price = price]
     \/ /\ server[p].state # "ABSENT"
        /\ UNCHANGED server
  /\ IF p \notin expired /\ server[p].state \in {"ABSENT", "QUOTED"}
       THEN Goto(w, "reserve") ELSE Leave(w)
  /\ UNCHANGED <<durable, signed, sent, expired>>

(* quoteCheck(), then journal.reserve(): the second of two processes gets the *)
(* reservation of the first.                                                  *)
ReservedByOpen ==                    \* faulty: settled purchases free their share
  SumFunction([q \in Purchases |->
                 IF journal[q].state = "VERIFIED" THEN 0 ELSE journal[q].amount])

Reserved == SumFunction([q \in Purchases |-> journal[q].amount])

QuoteCheck(p) == p \notin expired /\ server[p].price <= MaxPerPurchase

Reserve(w) ==
  LET p == Mine(w)  price == server[p].price IN
  /\ pc[w] = "reserve"
  /\ \/ /\ QuoteCheck(p)
        /\ \/ journal[p].amount # 0 /\ UNCHANGED journal
           \/ /\ journal[p].amount = 0
              /\ Reserved + price <= MaxTotal
              /\ journal' = [journal EXCEPT ![p].state = "RESERVED",
                                            ![p].amount = price]
        /\ Goto(w, "sign")
     \/ UNCHANGED journal /\ Leave(w)      \* a limit, an expired or a foreign quote
  /\ UNCHANGED <<head, world>>

(* The wallet signs an authorization with a fresh nonce; it may take long.    *)
Sign(w) ==
  /\ pc[w] = "sign"
  /\ signed < MaxSigned
  /\ Mine(w) \notin expired
  /\ signed' = signed + 1
  /\ job' = [job EXCEPT ![w].nonce = signed + 1]
  /\ pc' = [pc EXCEPT ![w] = "authorize"]
  /\ UNCHANGED <<durable, sent, server, expired>>

(* journal.authorize(): the row keeps the payment it already has, and the     *)
(* request that follows carries the row's payment, not the one just signed.   *)
SignedOver(row, nonce) == nonce            \* faulty: the last signature wins

SignedTwice(row, nonce) ==                 \* faulty: signs once more to retry
  IF row.payment # 0 THEN row.payment ELSE nonce + 1

Signed(row, nonce) == IF row.payment # 0 THEN row.payment ELSE nonce

Authorize(w) ==
  LET p       == Mine(w)
      payment == Signed(journal[p], job[w].nonce)
  IN
  /\ pc[w] = "authorize"
  /\ IF journal[p].payment = payment
       THEN UNCHANGED journal
       ELSE journal' = [journal EXCEPT ![p].state = "AUTHORIZED",
                                       ![p].payment = payment]
  /\ job' = [job EXCEPT ![w].nonce = payment]
  /\ pc' = [pc EXCEPT ![w] = "submit"]
  /\ UNCHANGED <<head, world>>

(* The service works on a purchase only while it serves a request for it.     *)
Served(p, nonce) ==
  LET row == server[p] IN
  {row} \cup
  {[row EXCEPT !.state = state, !.payment = nonce] :
     state \in IF row.state = "QUOTED" /\ p \notin expired
                 THEN {"BOUND", "ISSUED"} ELSE {}} \cup
  {[row EXCEPT !.state = "ISSUED"] :
     state \in IF row.state = "BOUND" /\ row.payment = nonce THEN {1} ELSE {}}

(* A request with the journaled payment leaves; whatever it led to, the       *)
(* answer may be lost.                                                        *)
Submit(w) ==
  LET p == Mine(w) IN
  /\ pc[w] = "submit"
  /\ sent' = sent \cup {[purchase |-> p, amount |-> journal[p].amount,
                         nonce |-> job[w].nonce]}
  /\ \E row \in Served(p, job[w].nonce) :
       /\ server' = [server EXCEPT ![p] = row]
       /\ \/ row.state = "ISSUED" /\ Goto(w, "registry")
          \/ Leave(w)                 \* 202, an error, or no answer
  /\ UNCHANGED <<durable, signed, expired>>

(* A purchase with a journaled payment: GET its result, and follow the state  *)
(* the answer names. (retrieve() is the same without recovery or submission.) *)
FollowsWaiting(state) ==              \* faulty: 202 is only waited for
  CASE state = "ISSUED" -> "registry"
    [] state = "BOUND"  -> "idle"
    [] OTHER            -> "submit"

Follows(state) ==
  CASE state = "ISSUED" -> "registry"
    [] state = "BOUND"  -> "recover"
    [] OTHER            -> "submit"

GetResult(w) ==
  /\ pc[w] = "result"
  /\ pc' = [pc EXCEPT ![w] = Follows(server[Mine(w)].state)]
  /\ job' = [job EXCEPT ![w].nonce = journal[Mine(w)].payment]
  /\ UNCHANGED <<durable, world>>

Recover(w) ==
  LET p == Mine(w) IN
  /\ pc[w] = "recover"
  /\ \/ /\ server' = [server EXCEPT ![p].state = "ISSUED"]
        /\ Goto(w, "registry")
     \/ UNCHANGED server /\ Leave(w)
  /\ UNCHANGED <<durable, signed, sent, expired>>

(* accept(): the registry snapshot comes with a trust bundle of its own; the  *)
(* independent verifier runs; then the bundle is remembered and the result    *)
(* accepted, in two transactions.                                             *)
GetRegistry(w) ==
  /\ pc[w] = "registry"
  /\ \E bundle \in Bundles : job' = [job EXCEPT ![w].trust = bundle]
  /\ pc' = [pc EXCEPT ![w] = "verify"]
  /\ UNCHANGED <<durable, world>>

VerifyAndRemember(w) ==
  /\ pc[w] = "verify"
  /\ \/ RememberTrust(job[w].trust) /\ Goto(w, "accept")
     \/ UNCHANGED head /\ Leave(w)
  /\ UNCHANGED <<journal, world>>

Accept(w) ==
  /\ pc[w] = "accept"
  /\ journal' = [journal EXCEPT ![Mine(w)].state = "VERIFIED",
                                ![Mine(w)].trust = job[w].trust]
  /\ Leave(w)
  /\ UNCHANGED <<head, world>>

-----------------------------------------------------------------------------
(* A request fails or times out, the wallet or a check refuses, the process   *)
(* dies: at any await.                                                        *)
Fail(w) ==
  /\ pc[w] # "idle"
  /\ Leave(w)
  /\ UNCHANGED <<durable, world>>

Expire(p) ==
  /\ server[p].state # "ABSENT" /\ p \notin expired
  /\ expired' = expired \cup {p}
  /\ UNCHANGED <<durable, signed, sent, server, pc, job>>

Step(w) ==
  \/ Discover(w) \/ AskQuote(w) \/ Reserve(w) \/ Sign(w) \/ Authorize(w)
  \/ Submit(w) \/ GetResult(w) \/ Recover(w) \/ GetRegistry(w)
  \/ VerifyAndRemember(w) \/ Accept(w)

Next ==
  \/ \E w \in Workers : Step(w) \/ Fail(w) \/ \E p \in Purchases : Begin(w, p)
  \/ \E p \in Purchases : Expire(p)

Spec == Init /\ [][Next]_vars

-----------------------------------------------------------------------------
(* docs/SECURITY-AND-RECOVERY.md:37: whatever the processes sent out can     *)
(* never move more than the policy's allowances, however they are            *)
(* interrupted, repeated and interleaved (buyer-journal.mjs, reserve).       *)
SpendingWithinAllowance ==
  /\ \A payment \in sent : payment.amount <= MaxPerPurchase
  /\ SumFunction([payment \in sent |-> payment.amount]) <= MaxTotal

(* Only the payment of the durable row is ever sent, so a purchase has one:  *)
(* two processes that both asked the wallet send the same authorization, and *)
(* a restart finds what was sent (buyer.mjs, row=journal.authorize).         *)
SentIsJournaled ==
  \A payment \in sent :
    /\ journal[payment.purchase].payment = payment.nonce
    /\ journal[payment.purchase].amount = payment.amount

(* Whatever processes accepted results, at whatever times and after whatever *)
(* restarts: the stored results rest on one history of trust. Two of them    *)
(* never rest on different status snapshots of one sequence, although each   *)
(* process got its own from the service, remembered it and accepted in       *)
(* separate transactions (buyer.mjs:56-59, buyer-journal.mjs:37-47;          *)
(* docs/SECURITY-AND-RECOVERY.md:27).                                        *)
AcceptedOnOneHistory ==
  \A p, q \in Purchases :
    journal[p].trust.sequence = journal[q].trust.sequence =>
      journal[p].trust = journal[q].trust

(* A result is accepted only with a trust bundle no older than the newest    *)
(* one that any process using the journal knew when the command began.       *)
AcceptedUnderKnownTrust ==
  \A w \in Workers :
    pc[w] = "accept" =>
      \/ job[w].trust.sequence > job[w].known.sequence
      \/ job[w].trust = job[w].known

-----------------------------------------------------------------------------
(* Fairness. The owner runs the command again until it has the result        *)
(* (scripts/buy.mjs), processes run, and neither the network, the service,   *)
(* nor the verifier fails every process forever; the service's bundle        *)
(* catches up with the one the buyer knows.                                  *)
Fairness ==
  /\ \A p \in Purchases :
       SF_vars(\E w \in Workers : Begin(w, p) /\ pc'[w] = "result")
  /\ WF_vars(\E w \in Workers : Step(w) \/ Fail(w))
  /\ SF_vars(\E w \in Workers : GetResult(w))
  /\ SF_vars(\E w \in Workers : Recover(w) /\ pc'[w] = "registry")
  /\ SF_vars(\E w \in Workers : GetRegistry(w) /\ job'[w].trust = head)
  /\ SF_vars(\E w \in Workers : VerifyAndRemember(w) /\ pc'[w] = "accept")
  /\ SF_vars(\E w \in Workers : Accept(w))

FairSpec == Spec /\ Fairness

(* A payment the service has bound is not lost on the buyer: its result is   *)
(* accepted in the end, after any crashes, lost answers and refused bundles, *)
(* without asking the wallet again.                                          *)
BoundIsDelivered ==
  \A p \in Purchases :
    server[p].state \in {"BOUND", "ISSUED"} ~> journal[p].state = "VERIFIED"
=============================================================================
