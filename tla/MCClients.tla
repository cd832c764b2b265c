------------------------------ MODULE MCClients ------------------------------
(* Either client for TLC: the one with a journal (Buyer), or the one without  *)
(* a library (ColdPurchaser). A behaviour is of one of them, and the other    *)
(* takes no step.                                                             *)
EXTENDS ColdPurchaser

CONSTANTS Workers, Purchases, Prices, MaxPerPurchase, MaxTotal

VARIABLES client, journal, head, signed, sent, server, expired, pc, job

TwoBundles == {[sequence |-> 1, digest |-> "a"], [sequence |-> 2, digest |-> "a"]}

Journaled == INSTANCE Buyer WITH Bundles <- TwoBundles

journaling == <<journal, head, signed, sent, server, expired, pc, job>>
clientVars == <<client, vars, journaling>>

ClientInit == Init /\ Journaled!Init /\ client \in {"journaled", "cold"}

ClientNext ==
  /\ \/ client = "journaled" /\ Journaled!Next /\ UNCHANGED vars
     \/ client = "cold" /\ Next /\ UNCHANGED journaling
  /\ UNCHANGED client

Either(journaled, cold) ==
  /\ \/ journaled /\ UNCHANGED vars
     \/ cold /\ UNCHANGED journaling
  /\ UNCHANGED client

(* Buyer!Fairness and Fairness, a conjunct of each at a time: what the client *)
(* that takes no step may do is never enabled, so fairness of a disjunction   *)
(* is fairness of the other's action. (TLC's work doubles with a conjunct.)   *)
ClientFairness ==
  /\ SF_clientVars(Either(\E w \in Workers, p \in Purchases :
                            Journaled!Begin(w, p) /\ pc'[w] = "result",
                          Start /\ saved # NoPayment /\ ~acquired))
  /\ WF_clientVars(Either(\E w \in Workers : Journaled!Step(w) \/ Journaled!Fail(w),
                          Step \/ Fail))
  /\ SF_clientVars(Either(\E w \in Workers : Journaled!GetResult(w), GetResult))
  /\ SF_clientVars(Either(\E w \in Workers : Journaled!Recover(w) /\ pc'[w] = "registry",
                          Recover /\ place' = "verify"))
  /\ SF_clientVars(Either(\E w \in Workers : Journaled!GetRegistry(w) /\ job'[w].trust = head,
                          Resolve))
  /\ SF_clientVars(Either(\E w \in Workers : Journaled!VerifyAndRemember(w) /\ pc'[w] = "accept",
                          Prepare))
  /\ SF_clientVars(Either(\E w \in Workers : Journaled!Accept(w), Verify))

ClientSpec == ClientInit /\ [][ClientNext]_clientVars /\ ClientFairness

(* docs/SECURITY-AND-RECOVERY.md:37, of the client with a journal: a payment  *)
(* that the service has bound brings its result (buyer.mjs, purchase).        *)
BoundIsDelivered == Journaled!BoundIsDelivered
=============================================================================
