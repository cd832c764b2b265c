------------------------------ MODULE BuyerProofs ------------------------------
(***************************************************************************)
(* Proofs about Buyer, for any number of processes, purchases and trust    *)
(* snapshots and all prices. A process knows from its place in purchase()  *)
(* what must be in the durable row by then, and the row's amount and       *)
(* payment never change once set, whatever the other processes do. The sum *)
(* of the reserved amounts is bounded by the allowance, and what is sent   *)
(* sums up to at most that.                                                *)
(***************************************************************************)
EXTENDS Buyer, PurchaserFiles, FiniteSetTheorems, TLAPS

(* What the place of a process says about the durable row. *)
PlaceInv(w) ==
  LET row == journal[Mine(w)] IN
  /\ pc[w] \in {"reserve", "recover"} => server[Mine(w)].price # 0
  /\ pc[w] \in {"sign", "authorize"} => row.amount # 0
  /\ pc[w] = "authorize" => job[w].nonce # 0
  /\ pc[w] = "result" => row.payment # 0
  /\ pc[w] = "submit" => job[w].nonce # 0 /\ job[w].nonce = row.payment

RowInv ==
  \A p \in Purchases :
    /\ journal[p].payment # 0 => journal[p].amount # 0
    /\ server[p].state = "ABSENT" <=> server[p].price = 0

NewerOrSame(bundle, old) == bundle.sequence > old.sequence \/ bundle = old

TrustInv(w) ==
  /\ pc[w] # "idle" => NewerOrSame(head, job[w].known)
  /\ pc[w] = "accept" => NewerOrSame(job[w].trust, job[w].known)

IInv ==
  /\ TypeOK
  /\ SentIsJournaled
  /\ RowInv
  /\ \A w \in Workers : PlaceInv(w) /\ TrustInv(w)

-----------------------------------------------------------------------------
LEMMA NoJobType ==
  /\ NoJob \in Job
  /\ NoBundle.sequence = -1
  /\ \A b \in Bundles \cup {NoBundle} : b.sequence \in Int
  <1>1. (CHOOSE p \in Purchases : TRUE) \in Purchases
    BY BuyerAssumption
  <1> QED BY <1>1, BuyerAssumption DEF NoJob, Job, NoBundle

LEMMA InitEstablishes == Init => IInv
  <1> SUFFICES ASSUME Init PROVE IInv
    OBVIOUS
  <1>1. TypeOK
    BY NoJobType, BuyerAssumption DEF Init, TypeOK, Row, ServerRow, Places
  <1>2. SentIsJournaled /\ RowInv
    BY DEF Init, SentIsJournaled, RowInv
  <1>3. \A w \in Workers : PlaceInv(w) /\ TrustInv(w)
    BY DEF Init, PlaceInv, TrustInv
  <1> QED BY <1>1, <1>2, <1>3 DEF IInv

(* What a step may do to the durable state: amounts, payments and prices stay *)
(* once set, the trust head only advances.                                    *)
Keeps ==
  /\ \A p \in Purchases :
       /\ journal[p].amount # 0 => journal'[p].amount = journal[p].amount
       /\ journal[p].payment # 0 => journal'[p].payment = journal[p].payment
       /\ server[p].price # 0 => server'[p].price = server[p].price
  /\ NewerOrSame(head', head)

(* Then nothing another process relies on is lost. *)
LEMMA OthersKeep ==
  ASSUME IInv, TypeOK', Keeps, NEW u \in Workers, pc'[u] = pc[u], job'[u] = job[u]
  PROVE  PlaceInv(u)' /\ TrustInv(u)'
  <1>1. Mine(u)' = Mine(u) /\ Mine(u) \in Purchases
    BY DEF Mine, IInv, TypeOK, Job
  <1>2. PlaceInv(u)'
    BY <1>1 DEF IInv, PlaceInv, Keeps
  <1>3. /\ head \in Bundles \cup {NoBundle} /\ head' \in Bundles \cup {NoBundle}
        /\ job[u].known \in Bundles \cup {NoBundle}
    BY DEF IInv, TypeOK, Job
  <1>4. TrustInv(u)'
    BY <1>3, NoJobType DEF IInv, TrustInv, Keeps, NewerOrSame
  <1> QED BY <1>2, <1>4

LEMMA MoveOne ==
  ASSUME IInv, TypeOK', Keeps, SentIsJournaled', RowInv', NEW w \in Workers,
         \A u \in Workers \ {w} : pc'[u] = pc[u] /\ job'[u] = job[u],
         PlaceInv(w)', TrustInv(w)'
  PROVE  IInv'
  BY OthersKeep DEF IInv

(* Steps that leave the journal, what was sent and the service alone. *)
LEMMA DurableSame ==
  ASSUME IInv, UNCHANGED <<journal, sent, server>>, NewerOrSame(head', head)
  PROVE  Keeps /\ SentIsJournaled' /\ RowInv'
  BY DEF IInv, Keeps, SentIsJournaled, RowInv

LEMMA HeadSame == NewerOrSame(head, head)
  BY DEF NewerOrSame

(* Any process may stop anywhere. *)
LEMMA LeaveStep ==
  ASSUME IInv, NEW w \in Workers, Leave(w), Keeps, SentIsJournaled', RowInv',
         journal' \in [Purchases -> Row], head' \in Bundles \cup {NoBundle},
         signed' \in 0..MaxSigned, sent' \subseteq Payment,
         server' \in [Purchases -> ServerRow], expired' \subseteq Purchases
  PROVE  IInv'
  <1>1. pc' = [pc EXCEPT ![w] = "idle"] /\ job' = [job EXCEPT ![w] = NoJob]
    BY DEF Leave
  <1>2. TypeOK'
    BY <1>1, NoJobType DEF IInv, TypeOK, Places
  <1>3. PlaceInv(w)' /\ TrustInv(w)'
    BY <1>1 DEF PlaceInv, TrustInv, IInv, TypeOK
  <1> QED BY <1>1, <1>2, <1>3, MoveOne DEF IInv, TypeOK

-----------------------------------------------------------------------------
LEMMA BeginStep ==
  ASSUME IInv, NEW w \in Workers, NEW p \in Purchases, Begin(w, p)
  PROVE  IInv'
  <1>1. /\ job' = [job EXCEPT ![w] = [NoJob EXCEPT !.purchase = p, !.known = head]]
        /\ pc' = [pc EXCEPT ![w] = Resumes(journal[p])]
        /\ UNCHANGED <<head, world>>
    BY DEF Begin, BeginRow
  <1>2. /\ journal' \in [Purchases -> Row]
        /\ \A q \in Purchases : /\ journal'[q].amount = journal[q].amount
                                /\ journal'[q].payment = journal[q].payment
    <2>1. CASE journal[p].state = "ABSENT"
      <3>1. journal' = [journal EXCEPT ![p].state = "STARTED"]
        BY <2>1 DEF Begin, BeginRow
      <3> QED BY <3>1 DEF IInv, TypeOK, Row
    <2>2. CASE journal[p].state # "ABSENT"
      BY <2>2 DEF Begin, BeginRow, IInv, TypeOK
    <2> QED BY <2>1, <2>2
  <1>3. Keeps /\ SentIsJournaled' /\ RowInv'
    BY <1>1, <1>2, HeadSame DEF Keeps, SentIsJournaled, RowInv, IInv, TypeOK, world,
                                Payment
  <1>4. job'[w] \in Job /\ job'[w].purchase = p /\ job'[w].known = head
    BY <1>1, NoJobType DEF IInv, TypeOK, Job, NoJob
  <1>5. /\ pc'[w] = Resumes(journal[p])
        /\ Resumes(journal[p]) \in {"result", "sign", "discover"}
        /\ Resumes(journal[p]) = "result" => journal[p].payment # 0
        /\ Resumes(journal[p]) = "sign" => journal[p].amount # 0
    BY <1>1 DEF Resumes, IInv, TypeOK
  <1>6. TypeOK'
    BY <1>1, <1>2, <1>4, <1>5 DEF IInv, TypeOK, world, Places
  <1>7. PlaceInv(w)' /\ TrustInv(w)'
    BY <1>1, <1>2, <1>4, <1>5, HeadSame DEF PlaceInv, TrustInv, Mine
  <1> QED BY <1>1, <1>3, <1>6, <1>7, MoveOne DEF IInv, TypeOK

LEMMA DiscoverStep ==
  ASSUME IInv, NEW w \in Workers, Discover(w)
  PROVE  IInv'
  <1>1. CASE UNCHANGED head /\ Leave(w)
    BY <1>1, LeaveStep, DurableSame, HeadSame DEF Discover, world, IInv, TypeOK
  <1>2. CASE \E bundle \in Bundles : RememberTrust(bundle) /\ Goto(w, "quote")
    <2>1. /\ head' \in Bundles /\ NewerOrSame(head', head)
          /\ pc' = [pc EXCEPT ![w] = "quote"] /\ UNCHANGED <<job, journal, world>>
      BY <1>2 DEF Discover, RememberTrust, Advances, NewerOrSame, Goto
    <2>2. TypeOK'
      BY <2>1 DEF IInv, TypeOK, world, Places
    <2>3. Keeps /\ SentIsJournaled' /\ RowInv'
      BY <2>1, DurableSame DEF world
    <2>4. PlaceInv(w)'
      BY <2>1 DEF PlaceInv, IInv, TypeOK
    <2>5. pc[w] = "discover"
      BY DEF Discover
    <2>6. TrustInv(w)'
      <3>1. /\ head \in Bundles \cup {NoBundle} /\ head' \in Bundles \cup {NoBundle}
            /\ job[w].known \in Bundles \cup {NoBundle}
            /\ pc'[w] = "quote" /\ job'[w] = job[w]
        BY <2>1 DEF IInv, TypeOK, Job
      <3> QED BY <2>1, <2>5, <3>1, NoJobType DEF IInv, TrustInv, NewerOrSame
    <2> QED BY <2>1, <2>2, <2>3, <2>4, <2>6, MoveOne DEF IInv, TypeOK
  <1> QED BY <1>1, <1>2 DEF Discover

(* Going on to another await, with the same local variables. *)
LEMMA GotoStep ==
  ASSUME IInv, NEW w \in Workers, NEW place \in Places, Goto(w, place),
         pc[w] # "idle", place \notin {"idle", "result", "recover", "submit", "accept", "authorize"},
         place = "reserve" => server'[Mine(w)].price # 0,
         place = "sign" => journal'[Mine(w)].amount # 0,
         Keeps, SentIsJournaled', RowInv',
         journal' \in [Purchases -> Row], head' \in Bundles \cup {NoBundle},
         signed' \in 0..MaxSigned, sent' \subseteq Payment,
         server' \in [Purchases -> ServerRow], expired' \subseteq Purchases
  PROVE  IInv'
  <1>1. pc' = [pc EXCEPT ![w] = place] /\ job' = job
    BY DEF Goto
  <1>2. TypeOK'
    BY <1>1 DEF IInv, TypeOK
  <1>3. PlaceInv(w)'
    BY <1>1 DEF PlaceInv, Mine, IInv, TypeOK
  <1>4. TrustInv(w)'
    <2>1. /\ head \in Bundles \cup {NoBundle} /\ head' \in Bundles \cup {NoBundle}
          /\ job[w].known \in Bundles \cup {NoBundle}
          /\ pc'[w] = place /\ job'[w] = job[w]
      BY <1>1 DEF IInv, TypeOK, Job
    <2> QED BY <2>1, NoJobType DEF IInv, TrustInv, NewerOrSame, Keeps
  <1> QED BY <1>1, <1>2, <1>3, <1>4, MoveOne DEF IInv, TypeOK

LEMMA AskQuoteStep ==
  ASSUME IInv, NEW w \in Workers, AskQuote(w)
  PROVE  IInv'
  <1> DEFINE p == Mine(w)
  <1>1. pc[w] = "quote" /\ UNCHANGED <<durable, signed, sent, expired>>
    BY DEF AskQuote
  <1>2. p \in Purchases
    BY DEF Mine, IInv, TypeOK, Job
  <1>3. /\ server' \in [Purchases -> ServerRow]
        /\ \A q \in Purchases :
             /\ server[q].price # 0 => server'[q].price = server[q].price
             /\ server'[q].state = "ABSENT" <=> server'[q].price = 0
        /\ server'[p].price # 0
    <2>1. CASE server[p].state = "ABSENT"
      <3>1. PICK price \in Prices :
              server' = [server EXCEPT ![p].state = "QUOTED", ![p].price = price]
        BY <2>1 DEF AskQuote
      <3>2. price # 0
        BY BuyerAssumption
      <3> QED BY <2>1, <3>1, <3>2, <1>2 DEF IInv, RowInv, TypeOK, ServerRow
    <2>2. CASE server[p].state # "ABSENT"
      BY <2>2, <1>2 DEF AskQuote, IInv, RowInv, TypeOK
    <2> QED BY <2>1, <2>2
  <1>4. Keeps /\ SentIsJournaled' /\ RowInv'
    BY <1>1, <1>3, HeadSame DEF Keeps, SentIsJournaled, RowInv, IInv, durable
  <1>5. Goto(w, "reserve") \/ Leave(w)
    BY DEF AskQuote
  <1> QED BY <1>1, <1>3, <1>4, <1>5, GotoStep, LeaveStep
          DEF IInv, TypeOK, durable, Places

LEMMA ReserveStep ==
  ASSUME IInv, NEW w \in Workers, Reserve(w)
  PROVE  IInv'
  <1> DEFINE p == Mine(w)
  <1>1. pc[w] = "reserve" /\ UNCHANGED <<head, signed, sent, server, expired>>
    BY DEF Reserve, world
  <1>2. p \in Purchases /\ server[p].price \in Prices
    BY <1>1 DEF Mine, IInv, TypeOK, Job, PlaceInv, ServerRow
  <1>3. CASE UNCHANGED journal /\ Leave(w)
    BY <1>1, <1>3, LeaveStep, DurableSame, HeadSame DEF IInv, TypeOK
  <1>4. CASE UNCHANGED journal /\ journal[p].amount # 0 /\ Goto(w, "sign")
    BY <1>1, <1>4, GotoStep, DurableSame, HeadSame DEF IInv, TypeOK, Places
  <1>5. CASE /\ journal[p].amount = 0
             /\ journal' = [journal EXCEPT ![p].state = "RESERVED",
                                           ![p].amount = server[p].price]
             /\ Goto(w, "sign")
    <2>1. /\ journal' \in [Purchases -> Row] /\ journal'[p].amount # 0
          /\ \A q \in Purchases :
               /\ journal[q].amount # 0 => journal'[q].amount = journal[q].amount
               /\ journal'[q].payment = journal[q].payment
      BY <1>2, <1>5, BuyerAssumption DEF IInv, TypeOK, Row
    <2>2. Keeps /\ RowInv'
      BY <1>1, <2>1, HeadSame DEF Keeps, RowInv, IInv
    <2>3. SentIsJournaled'
      <3> SUFFICES ASSUME NEW s \in sent
                   PROVE  /\ journal'[s.purchase].payment = s.nonce
                          /\ journal'[s.purchase].amount = s.amount
        BY <1>1 DEF SentIsJournaled
      <3>1. s.purchase \in Purchases /\ s.amount # 0
        BY BuyerAssumption DEF IInv, TypeOK, Payment
      <3> QED BY <2>1, <3>1 DEF IInv, SentIsJournaled
    <2> QED BY <1>1, <1>5, <2>1, <2>2, <2>3, GotoStep DEF IInv, TypeOK, Places
  <1> QED BY <1>3, <1>4, <1>5 DEF Reserve

LEMMA SignStep ==
  ASSUME IInv, NEW w \in Workers, Sign(w)
  PROVE  IInv'
  <1>1. /\ pc[w] = "sign" /\ signed < MaxSigned /\ signed' = signed + 1
        /\ job' = [job EXCEPT ![w].nonce = signed + 1]
        /\ pc' = [pc EXCEPT ![w] = "authorize"]
        /\ UNCHANGED <<durable, sent, server, expired>>
    BY DEF Sign
  <1>2. signed \in Nat /\ MaxSigned \in Nat /\ signed' \in Nonces
    BY <1>1, BuyerAssumption DEF IInv, TypeOK, Nonces
  <1>3. TypeOK'
    BY <1>1, <1>2 DEF IInv, TypeOK, Job, durable, Places, Nonces
  <1>4. Keeps /\ SentIsJournaled' /\ RowInv'
    BY <1>1, DurableSame, HeadSame DEF durable
  <1>5. /\ job'[w].purchase = job[w].purchase /\ job'[w].known = job[w].known
        /\ job'[w].nonce # 0
    BY <1>1, <1>2 DEF IInv, TypeOK, Job, Nonces
  <1>6. PlaceInv(w)' /\ TrustInv(w)'
    BY <1>1, <1>5 DEF IInv, PlaceInv, TrustInv, Mine, TypeOK, durable
  <1> QED BY <1>1, <1>3, <1>4, <1>6, MoveOne DEF IInv, TypeOK

LEMMA AuthorizeStep ==
  ASSUME IInv, NEW w \in Workers, Authorize(w)
  PROVE  IInv'
  <1> DEFINE p == Mine(w)
             payment == Signed(journal[p], job[w].nonce)
  <1>1. /\ pc[w] = "authorize"
        /\ IF journal[p].payment = payment
             THEN UNCHANGED journal
             ELSE journal' = [journal EXCEPT ![p].state = "AUTHORIZED",
                                             ![p].payment = payment]
        /\ job' = [job EXCEPT ![w].nonce = payment]
        /\ pc' = [pc EXCEPT ![w] = "submit"]
        /\ UNCHANGED <<head, signed, sent, server, expired>>
    BY DEF Authorize, world
  <1>2. /\ p \in Purchases /\ payment \in Nonces /\ payment # 0
        /\ journal[p].payment # 0 => payment = journal[p].payment
        /\ journal[p].amount # 0
    <2>1. p \in Purchases /\ job[w].nonce \in Nonces /\ journal[p].amount # 0
      BY <1>1 DEF Mine, IInv, TypeOK, Job, PlaceInv
    <2>2. payment \in Nonces /\ 0 \notin Nonces
      BY <2>1 DEF Signed, IInv, TypeOK, Row, Nonces
    <2> QED BY <2>1, <2>2 DEF Signed
  <1>3. /\ journal' \in [Purchases -> Row] /\ journal'[p].payment = payment
        /\ \A q \in Purchases :
             /\ journal'[q].amount = journal[q].amount
             /\ journal[q].payment # 0 => journal'[q].payment = journal[q].payment
             /\ journal'[q].payment # 0 => journal'[q].amount # 0
    <2>1. CASE journal[p].payment = payment
      BY <1>1, <1>2, <2>1 DEF IInv, TypeOK, RowInv
    <2>2. CASE journal[p].payment # payment
      <3>1. journal' = [journal EXCEPT ![p].state = "AUTHORIZED",
                                       ![p].payment = payment]
        BY <1>1, <2>2
      <3> HIDE DEF payment
      <3> QED BY <1>2, <2>2, <3>1 DEF IInv, TypeOK, RowInv, Row
    <2> QED BY <2>1, <2>2
  <1>4. Keeps /\ RowInv'
    BY <1>1, <1>3, HeadSame DEF Keeps, RowInv, IInv
  <1>5. SentIsJournaled'
    <2> SUFFICES ASSUME NEW s \in sent
                 PROVE  /\ journal'[s.purchase].payment = s.nonce
                        /\ journal'[s.purchase].amount = s.amount
      BY <1>1 DEF SentIsJournaled
    <2>1. s.purchase \in Purchases /\ s.nonce # 0
      BY BuyerAssumption DEF IInv, TypeOK, Payment, Nonces
    <2> QED BY <1>3, <2>1 DEF IInv, SentIsJournaled
  <1>6. /\ job' \in [Workers -> Job]
        /\ job'[w].purchase = p /\ job'[w].known = job[w].known
        /\ job'[w].nonce = payment
    <2> HIDE DEF payment
    <2> QED BY <1>1, <1>2 DEF IInv, TypeOK, Job, Mine
  <1>7. TypeOK'
    BY <1>1, <1>3, <1>6 DEF IInv, TypeOK, Places
  <1>8. PlaceInv(w)' /\ TrustInv(w)'
    <2>1. pc'[w] = "submit" /\ Mine(w)' = p /\ job'[w].nonce = payment
          /\ job'[w].known = job[w].known /\ head' = head
      BY <1>1, <1>6 DEF Mine, IInv, TypeOK
    <2> HIDE DEF payment, p
    <2>2. PlaceInv(w)'
      BY <2>1, <1>2, <1>3 DEF PlaceInv
    <2>3. TrustInv(w)'
      BY <2>1, <1>1 DEF TrustInv, IInv
    <2> QED BY <2>2, <2>3
  <1> QED BY <1>1, <1>4, <1>5, <1>7, <1>8, MoveOne DEF IInv, TypeOK

LEMMA SubmitStep ==
  ASSUME IInv, NEW w \in Workers, Submit(w)
  PROVE  IInv'
  <1> DEFINE p == Mine(w)
             s == [purchase |-> p, amount |-> journal[p].amount, nonce |-> job[w].nonce]
  <1>1. /\ pc[w] = "submit" /\ sent' = sent \cup {s}
        /\ UNCHANGED <<journal, head, signed, expired>>
        /\ Goto(w, "registry") \/ Leave(w)
    BY DEF Submit, durable
  <1>2. /\ p \in Purchases /\ job[w].nonce \in Nonces
        /\ journal[p].payment = job[w].nonce /\ journal[p].amount \in Prices
    BY <1>1 DEF Mine, IInv, TypeOK, Job, Row, PlaceInv, RowInv
  <1>3. sent' \subseteq Payment
    BY <1>1, <1>2 DEF Payment, IInv, TypeOK
  <1>4. SentIsJournaled'
    BY <1>1, <1>2 DEF IInv, SentIsJournaled
  <1>5. /\ server' \in [Purchases -> ServerRow]
        /\ \A q \in Purchases : /\ server'[q].price = server[q].price
                                /\ server'[q].state = "ABSENT"
                                     <=> server[q].state = "ABSENT"
    <2>1. PICK row \in Served(p, job[w].nonce) : server' = [server EXCEPT ![p] = row]
      BY DEF Submit
    <2>2. /\ row \in ServerRow /\ row.price = server[p].price
          /\ row.state = "ABSENT" <=> server[p].state = "ABSENT"
      <3>1. server[p] \in ServerRow
        BY <1>2 DEF IInv, TypeOK
      <3>2. row = server[p]
              \/ /\ server[p].state \in {"QUOTED", "BOUND"}
                 /\ \E state \in {"BOUND", "ISSUED"}, n \in {job[w].nonce, server[p].payment} :
                      row = [server[p] EXCEPT !.state = state, !.payment = n]
        BY <2>1, <3>1 DEF Served, ServerRow
      <3> QED BY <1>2, <3>1, <3>2 DEF ServerRow
    <2> QED BY <1>2, <2>1, <2>2 DEF IInv, TypeOK
  <1>6. Keeps /\ RowInv'
    BY <1>1, <1>5, HeadSame DEF Keeps, RowInv, IInv
  <1> QED BY <1>1, <1>3, <1>4, <1>5, <1>6, GotoStep, LeaveStep DEF IInv, TypeOK, Places

LEMMA GetResultStep ==
  ASSUME IInv, NEW w \in Workers, GetResult(w)
  PROVE  IInv'
  <1> DEFINE p == Mine(w)
  <1>1. /\ pc[w] = "result"
        /\ pc' = [pc EXCEPT ![w] = Follows(server[p].state)]
        /\ job' = [job EXCEPT ![w].nonce = journal[p].payment]
        /\ UNCHANGED <<journal, head, world>>
    BY DEF GetResult, durable
  <1>2. p \in Purchases /\ journal[p].payment \in Nonces /\ journal[p].payment # 0
    BY <1>1 DEF Mine, IInv, TypeOK, Job, Row, PlaceInv
  <1>3. /\ Follows(server[p].state) \in {"registry", "recover", "submit"}
        /\ Follows(server[p].state) = "recover" => server[p].price # 0
    BY <1>2 DEF Follows, IInv, RowInv
  <1>4. /\ job' \in [Workers -> Job]
        /\ job'[w].purchase = p /\ job'[w].known = job[w].known
        /\ job'[w].nonce = journal[p].payment
    BY <1>1, <1>2 DEF IInv, TypeOK, Job, Mine
  <1>5. TypeOK'
    BY <1>1, <1>3, <1>4 DEF IInv, TypeOK, world, Places
  <1>6. Keeps /\ SentIsJournaled' /\ RowInv'
    BY <1>1, DurableSame, HeadSame DEF world
  <1>7. PlaceInv(w)' /\ TrustInv(w)'
    <2>1. /\ pc'[w] \in {"registry", "recover", "submit"}
          /\ pc'[w] = "recover" => server[p].price # 0
      BY <1>1, <1>3 DEF IInv, TypeOK
    <2> QED BY <1>1, <1>2, <1>4, <2>1 DEF PlaceInv, TrustInv, Mine, IInv, world
  <1> QED BY <1>1, <1>5, <1>6, <1>7, MoveOne DEF IInv, TypeOK

LEMMA RecoverStep ==
  ASSUME IInv, NEW w \in Workers, Recover(w)
  PROVE  IInv'
  <1>1. /\ pc[w] = "recover" /\ UNCHANGED <<journal, head, signed, sent, expired>>
        /\ Goto(w, "registry") \/ Leave(w)
    BY DEF Recover, durable
  <1>2. Mine(w) \in Purchases /\ server[Mine(w)].state # "ABSENT"
    BY <1>1 DEF Mine, IInv, TypeOK, Job, PlaceInv, RowInv
  <1>3. /\ server' \in [Purchases -> ServerRow]
        /\ \A q \in Purchases :
             /\ server'[q].price = server[q].price
             /\ server'[q].state = "ABSENT" <=> server[q].state = "ABSENT"
    <2>1. CASE UNCHANGED server
      BY <2>1 DEF IInv, TypeOK
    <2>2. CASE server' = [server EXCEPT ![Mine(w)].state = "ISSUED"]
      BY <1>2, <2>2 DEF IInv, TypeOK, ServerRow, RowInv
    <2> QED BY <2>1, <2>2 DEF Recover
  <1>4. Keeps /\ SentIsJournaled' /\ RowInv'
    BY <1>1, <1>3, HeadSame DEF Keeps, RowInv, SentIsJournaled, IInv
  <1> QED BY <1>1, <1>3, <1>4, GotoStep, LeaveStep DEF IInv, TypeOK, Places

LEMMA GetRegistryStep ==
  ASSUME IInv, NEW w \in Workers, GetRegistry(w)
  PROVE  IInv'
  <1>1. PICK bundle \in Bundles : job' = [job EXCEPT ![w].trust = bundle]
    BY DEF GetRegistry
  <1>2. /\ pc[w] = "registry" /\ pc' = [pc EXCEPT ![w] = "verify"]
        /\ UNCHANGED <<journal, head, world>>
    BY DEF GetRegistry, durable
  <1>3. job' \in [Workers -> Job] /\ job'[w].known = job[w].known
    BY <1>1 DEF IInv, TypeOK, Job
  <1>4. TypeOK'
    BY <1>2, <1>3 DEF IInv, TypeOK, world, Places
  <1>5. Keeps /\ SentIsJournaled' /\ RowInv'
    BY <1>2, DurableSame, HeadSame DEF world
  <1>6. PlaceInv(w)' /\ TrustInv(w)'
    BY <1>2, <1>3 DEF PlaceInv, TrustInv, IInv, TypeOK, world
  <1> QED BY <1>1, <1>2, <1>4, <1>5, <1>6, MoveOne DEF IInv, TypeOK

LEMMA VerifyStep ==
  ASSUME IInv, NEW w \in Workers, VerifyAndRemember(w)
  PROVE  IInv'
  <1>1. CASE UNCHANGED head /\ Leave(w)
    BY <1>1, LeaveStep, DurableSame, HeadSame DEF VerifyAndRemember, world, IInv, TypeOK
  <1>2. CASE RememberTrust(job[w].trust) /\ Goto(w, "accept")
    <2>1. /\ pc[w] = "verify" /\ pc' = [pc EXCEPT ![w] = "accept"]
          /\ head' = job[w].trust /\ NewerOrSame(head', head)
          /\ UNCHANGED <<job, journal, world>>
      BY <1>2 DEF VerifyAndRemember, RememberTrust, Advances, NewerOrSame, Goto
    <2>2. /\ head \in Bundles \cup {NoBundle} /\ head' \in Bundles \cup {NoBundle}
          /\ job[w].known \in Bundles \cup {NoBundle}
      BY <2>1 DEF IInv, TypeOK, Job
    <2>3. TypeOK'
      BY <2>1, <2>2 DEF IInv, TypeOK, world, Places
    <2>4. Keeps /\ SentIsJournaled' /\ RowInv'
      BY <2>1, DurableSame DEF world
    <2>5. PlaceInv(w)'
      BY <2>1 DEF PlaceInv, IInv, TypeOK
    <2>6. TrustInv(w)'
      BY <2>1, <2>2, NoJobType DEF TrustInv, NewerOrSame, IInv
    <2> QED BY <2>1, <2>3, <2>4, <2>5, <2>6, MoveOne DEF IInv, TypeOK
  <1> QED BY <1>1, <1>2 DEF VerifyAndRemember

LEMMA AcceptStep ==
  ASSUME IInv, NEW w \in Workers, Accept(w)
  PROVE  IInv'
  <1>1. /\ journal' = [journal EXCEPT ![Mine(w)].state = "VERIFIED",
                                      ![Mine(w)].trust = job[w].trust]
        /\ Leave(w) /\ UNCHANGED <<head, world>>
        /\ Mine(w) \in Purchases /\ job[w].trust \in Bundles \cup {NoBundle}
    BY DEF Accept, IInv, TypeOK, Job, Mine
  <1>2. /\ journal' \in [Purchases -> Row]
        /\ \A q \in Purchases : /\ journal'[q].amount = journal[q].amount
                                /\ journal'[q].payment = journal[q].payment
    BY <1>1 DEF IInv, TypeOK, Row
  <1>3. Keeps /\ SentIsJournaled' /\ RowInv'
    BY <1>1, <1>2, HeadSame DEF Keeps, SentIsJournaled, RowInv, IInv, TypeOK, world,
                                Payment
  <1> QED BY <1>1, <1>2, <1>3, LeaveStep DEF IInv, TypeOK, world

LEMMA FailStep ==
  ASSUME IInv, NEW w \in Workers, Fail(w)
  PROVE  IInv'
  BY LeaveStep, DurableSame, HeadSame DEF Fail, durable, world, IInv, TypeOK

LEMMA OtherSteps ==
  ASSUME IInv, (\E p \in Purchases : Expire(p)) \/ UNCHANGED vars
  PROVE  IInv'
  <1>1. UNCHANGED <<durable, signed, sent, server, pc, job>>
    BY DEF Expire, vars, world
  <1>2. expired' \subseteq Purchases
    BY DEF Expire, vars, world, IInv, TypeOK
  <1>3. TypeOK'
    BY <1>1, <1>2 DEF IInv, TypeOK, durable
  <1> QED BY <1>1, <1>3 DEF IInv, SentIsJournaled, RowInv, PlaceInv, TrustInv, Mine, durable

-----------------------------------------------------------------------------
LEMMA Inductive == IInv /\ [Next]_vars => IInv'
  <1> SUFFICES ASSUME IInv, [Next]_vars PROVE IInv'
    OBVIOUS
  <1>1. ASSUME NEW w \in Workers, Step(w) PROVE IInv'
    BY <1>1, DiscoverStep, AskQuoteStep, ReserveStep, SignStep, AuthorizeStep,
       SubmitStep, GetResultStep, RecoverStep, GetRegistryStep, VerifyStep,
       AcceptStep DEF Step
  <1>2. ASSUME NEW w \in Workers, Fail(w) PROVE IInv'
    BY <1>2, FailStep
  <1>3. ASSUME NEW w \in Workers, NEW p \in Purchases, Begin(w, p) PROVE IInv'
    BY <1>3, BeginStep
  <1>4. CASE (\E p \in Purchases : Expire(p)) \/ UNCHANGED vars
    BY <1>4, OtherSteps
  <1> QED BY <1>1, <1>2, <1>3, <1>4 DEF Next

(* The inductive invariant of any number of processes that share a journal   *)
(* (buyer.mjs, purchase()).                                                  *)
THEOREM BuyerInvariant == Spec => []IInv
  BY InitEstablishes, Inductive, PTL DEF Spec

(* The journal, the processes and the service's rows keep their types.       *)
THEOREM BuyerTypeCorrect == Spec => []TypeOK
  BY BuyerInvariant, PTL DEF IInv

(* Only the payment in the durable row is ever sent (buyer-journal.mjs,      *)
(* authorize()), so no purchase is paid for twice.                           *)
THEOREM OnlyJournaledIsSent == Spec => []SentIsJournaled
  BY BuyerInvariant, PTL DEF IInv

(* No result is accepted with less trust than was known when the command     *)
(* began (buyer.mjs, accept()).                                              *)
THEOREM AcceptsUnderKnownTrust == Spec => []AcceptedUnderKnownTrust
  <1>1. IInv => AcceptedUnderKnownTrust
    BY DEF IInv, TrustInv, NewerOrSame, AcceptedUnderKnownTrust
  <1> QED BY <1>1, BuyerInvariant, PTL

(* The trust head has overtaken, or is, every snapshot a stored result or a  *)
(* result about to be stored rests on, and no two of these diverge.          *)
ReliedOn ==
  {journal[p].trust : p \in Purchases} \cup
  {job[w].trust : w \in {u \in Workers : pc[u] = "accept"}}

Diverge(b, c) == b.sequence = c.sequence /\ b # c

HistoryInv ==
  /\ \A b \in ReliedOn : NewerOrSame(head, b)
  /\ \A b, c \in ReliedOn : ~Diverge(b, c)

LEMMA ReliedOnType ==
  ASSUME TypeOK
  PROVE  ReliedOn \subseteq Bundles \cup {NoBundle}
  BY DEF ReliedOn, TypeOK, Row, Job

(* A step that brings in no snapshot but the head it leaves keeps that.      *)
LEMMA HistoryKept ==
  ASSUME IInv, HistoryInv, TypeOK', NewerOrSame(head', head),
         ReliedOn' \subseteq ReliedOn \cup {head'}
  PROVE  HistoryInv'
  <1>1. /\ ReliedOn \subseteq Bundles \cup {NoBundle}
        /\ head \in Bundles \cup {NoBundle} /\ head' \in Bundles \cup {NoBundle}
    BY ReliedOnType DEF IInv, TypeOK
  <1>2. \A b \in ReliedOn : NewerOrSame(head', b)
    BY <1>1, NoJobType DEF HistoryInv, NewerOrSame
  <1>3. \A b \in ReliedOn : ~Diverge(b, head') /\ ~Diverge(head', b)
    BY <1>1, <1>2, NoJobType DEF NewerOrSame, Diverge
  <1>4. ~Diverge(head', head') /\ NewerOrSame(head', head')
    BY DEF Diverge, NewerOrSame
  <1>5. \A b \in ReliedOn' : NewerOrSame(head', b)
    BY <1>2, <1>4
  <1>6. \A b, c \in ReliedOn' : ~Diverge(b, c)
    BY <1>3, <1>4 DEF HistoryInv
  <1> QED BY <1>5, <1>6 DEF HistoryInv, NewerOrSame, Diverge

(* The step of one process, away from "accept" or to it with the head.       *)
LEMMA HistoryStep ==
  ASSUME IInv, HistoryInv, TypeOK', NEW w \in Workers,
         \A u \in Workers \ {w} : pc'[u] = pc[u] /\ job'[u] = job[u],
         \A p \in Purchases : journal'[p].trust \in ReliedOn,
         pc'[w] = "accept" => job'[w].trust = head',
         NewerOrSame(head', head)
  PROVE  HistoryInv'
  <1>1. ASSUME NEW b \in ReliedOn'
        PROVE  b \in ReliedOn \cup {head'}
    <2>1. CASE \E p \in Purchases : b = journal'[p].trust
      BY <2>1
    <2>2. CASE \E u \in Workers : pc'[u] = "accept" /\ b = job'[u].trust
      <3>1. PICK u \in Workers : pc'[u] = "accept" /\ b = job'[u].trust
        BY <2>2
      <3>2. CASE u = w
        BY <3>1, <3>2
      <3>3. CASE u # w
        BY <3>1, <3>3 DEF ReliedOn
      <3> QED BY <3>2, <3>3
    <2> QED BY <2>1, <2>2 DEF ReliedOn
  <1> QED BY <1>1, HistoryKept

LEMMA JournalRelies ==
  ASSUME NEW p \in Purchases
  PROVE  journal[p].trust \in ReliedOn
  BY DEF ReliedOn

LEMMA HistoryNext == IInv /\ HistoryInv /\ [Next]_vars => HistoryInv'
  <1> SUFFICES ASSUME IInv, HistoryInv, [Next]_vars PROVE HistoryInv'
    OBVIOUS
  <1>0. TypeOK' /\ NewerOrSame(head, head)
    BY Inductive, HeadSame DEF IInv
  <1>1. ASSUME NEW w \in Workers, Leave(w),
               \A p \in Purchases : journal'[p].trust \in ReliedOn,
               NewerOrSame(head', head)
        PROVE  HistoryInv'
    <2>1. /\ \A u \in Workers \ {w} : pc'[u] = pc[u] /\ job'[u] = job[u]
          /\ pc'[w] # "accept"
      BY <1>1 DEF Leave, IInv, TypeOK
    <2> QED BY <1>0, <1>1, <2>1, HistoryStep
  <1>2. ASSUME NEW w \in Workers, NEW place \in Places, Goto(w, place),
               \A p \in Purchases : journal'[p].trust \in ReliedOn,
               place = "accept" => job[w].trust = head',
               NewerOrSame(head', head)
        PROVE  HistoryInv'
    <2>1. /\ \A u \in Workers \ {w} : pc'[u] = pc[u] /\ job'[u] = job[u]
          /\ pc'[w] = place /\ job'[w] = job[w]
      BY <1>2 DEF Goto, IInv, TypeOK
    <2> QED BY <1>0, <1>2, <2>1, HistoryStep
  <1>3. ASSUME NEW w \in Workers, Discover(w) \/ VerifyAndRemember(w)
        PROVE  HistoryInv'
    <2>1. \A p \in Purchases : journal'[p].trust \in ReliedOn
      BY <1>3, JournalRelies DEF Discover, VerifyAndRemember
    <2>2. CASE UNCHANGED head /\ Leave(w)
      BY <1>0, <1>1, <2>1, <2>2
    <2>3. CASE \E bundle \in Bundles : RememberTrust(bundle) /\ Goto(w, "quote")
      BY <1>2, <2>1, <2>3 DEF RememberTrust, Advances, NewerOrSame, Places
    <2>4. CASE RememberTrust(job[w].trust) /\ Goto(w, "accept")
      BY <1>2, <2>1, <2>4 DEF RememberTrust, Advances, NewerOrSame, Places
    <2> QED BY <1>3, <2>2, <2>3, <2>4 DEF Discover, VerifyAndRemember
  <1>4. ASSUME NEW w \in Workers, Accept(w)
        PROVE  HistoryInv'
    <2>1. /\ Leave(w) /\ UNCHANGED head /\ pc[w] = "accept"
          /\ journal' = [journal EXCEPT ![Mine(w)].state = "VERIFIED",
                                        ![Mine(w)].trust = job[w].trust]
      BY <1>4 DEF Accept
    <2>2. job[w].trust \in ReliedOn
      BY <2>1 DEF ReliedOn
    <2>3. ASSUME NEW p \in Purchases
          PROVE  journal'[p].trust \in ReliedOn
      <3>1. journal'[p].trust \in {journal[p].trust, job[w].trust}
        BY <2>1 DEF IInv, TypeOK, Row
      <3> QED BY <2>2, <3>1, JournalRelies
    <2> QED BY <1>0, <1>1, <2>1, <2>3
  <1>5. ASSUME NEW w \in Workers, Reserve(w) \/ AskQuote(w) \/ Recover(w)
        PROVE  HistoryInv'
    <2>1. UNCHANGED head /\ \A p \in Purchases : journal'[p].trust = journal[p].trust
      BY <1>5 DEF Reserve, AskQuote, Recover, durable, IInv, TypeOK, Row
    <2>2. Leave(w) \/ \E place \in Places \ {"accept"} : Goto(w, place)
      BY <1>5 DEF Reserve, AskQuote, Recover, Places
    <2> QED BY <1>0, <1>1, <1>2, <2>1, <2>2, JournalRelies
  <1>6. ASSUME NEW w \in Workers, NEW p \in Purchases, Begin(w, p)
        PROVE  HistoryInv'
    <2>1. UNCHANGED head /\ \A q \in Purchases : journal'[q].trust = journal[q].trust
      BY <1>6 DEF Begin, BeginRow, IInv, TypeOK, Row
    <2>2. /\ \A u \in Workers \ {w} : pc'[u] = pc[u] /\ job'[u] = job[u]
          /\ pc'[w] # "accept"
      BY <1>6 DEF Begin, Resumes, IInv, TypeOK
    <2> QED BY <1>0, <2>1, <2>2, HistoryStep, JournalRelies
  <1>7. ASSUME NEW w \in Workers, Authorize(w)
        PROVE  HistoryInv'
    <2>1. UNCHANGED head /\ \A q \in Purchases : journal'[q].trust = journal[q].trust
      BY <1>7 DEF Authorize, IInv, TypeOK, Row
    <2>2. /\ \A u \in Workers \ {w} : pc'[u] = pc[u] /\ job'[u] = job[u]
          /\ pc'[w] # "accept"
      BY <1>7 DEF Authorize, IInv, TypeOK
    <2> QED BY <1>0, <2>1, <2>2, HistoryStep, JournalRelies
  <1>8. ASSUME NEW w \in Workers, Sign(w) \/ GetResult(w) \/ GetRegistry(w)
        PROVE  HistoryInv'
    <2>1. UNCHANGED <<journal, head>>
      BY <1>8 DEF Sign, GetResult, GetRegistry, durable
    <2>2. /\ \A u \in Workers \ {w} : pc'[u] = pc[u] /\ job'[u] = job[u]
          /\ pc'[w] # "accept"
      BY <1>8 DEF Sign, GetResult, GetRegistry, Follows, IInv, TypeOK
    <2> QED BY <1>0, <2>1, <2>2, HistoryStep, JournalRelies
  <1>9. ASSUME NEW w \in Workers, Submit(w)
        PROVE  HistoryInv'
    <2>1. UNCHANGED <<journal, head>> /\ (Leave(w) \/ Goto(w, "registry"))
      BY <1>9 DEF Submit, durable
    <2> QED BY <1>0, <1>1, <1>2, <2>1, JournalRelies DEF Places
  <1>10. ASSUME NEW w \in Workers, Fail(w)
         PROVE  HistoryInv'
    <2>1. UNCHANGED <<journal, head>> /\ Leave(w)
      BY <1>10 DEF Fail, durable
    <2> QED BY <1>0, <1>1, <2>1, JournalRelies
  <1>11. CASE (\E p \in Purchases : Expire(p)) \/ UNCHANGED vars
    <2>1. UNCHANGED <<journal, head, pc, job>>
      BY <1>11 DEF Expire, vars, durable
    <2> QED BY <2>1 DEF HistoryInv, ReliedOn, NewerOrSame, Diverge
  <1> QED BY <1>3, <1>4, <1>5, <1>6, <1>7, <1>8, <1>9, <1>10, <1>11 DEF Next, Step

(* Stored results rest on one history of trust: no two of them on different  *)
(* status snapshots of one sequence, whatever processes accepted them        *)
(* (buyer.mjs, accept(); buyer-journal.mjs, rememberTrust()).                *)
THEOREM OneHistoryIsAccepted == Spec => []AcceptedOnOneHistory
  <1>1. Init => HistoryInv
    <2> SUFFICES ASSUME Init PROVE HistoryInv
      OBVIOUS
    <2>1. ReliedOn \subseteq {NoBundle} /\ head = NoBundle
      BY DEF Init, ReliedOn
    <2> QED BY <2>1 DEF HistoryInv, NewerOrSame, Diverge
  <1>2. HistoryInv => AcceptedOnOneHistory
    BY DEF HistoryInv, ReliedOn, Diverge, AcceptedOnOneHistory
  <1> QED BY <1>1, <1>2, BuyerInvariant, HistoryNext, PTL DEF Spec

-----------------------------------------------------------------------------
(* What the sums of Buyer are, whatever order the fold takes the elements in. *)
(* A sum of naturals counts units: <<x, 1>>, ..., <<x, f[x]>> for every x.    *)
Units(f, s) == UNION {{x} \X (1..f[x]) : x \in s}

(* The step of the fold behind SumFunction. *)
SumStep(f, g, s) ==
  IF s = {} THEN 0
  ELSE LET x == CHOOSE x \in s : TRUE IN f[x] + g[s \ {x}]

LEMMA SumUnfolds ==
  ASSUME NEW f, NEW h, h = [s \in SUBSET DOMAIN f |-> SumStep(f, h, s)]
  PROVE  \E g : /\ g = [s \in SUBSET DOMAIN f |-> SumStep(f, g, s)]
                /\ SumFunction(f) = g[DOMAIN f]
  <1> DEFINE iter == CHOOSE g : g = [s \in SUBSET DOMAIN f |-> SumStep(f, g, s)]
  <1>1. iter = [s \in SUBSET DOMAIN f |-> SumStep(f, iter, s)]
    OBVIOUS
  <1>2. SumFunction(f) = iter[DOMAIN f]
    BY DEF SumFunction, SumFunctionOnSet, FoldFunctionOnSet, MapThenFoldSet, SumStep
  <1> QED BY <1>1, <1>2

LEMMA UnitsOfOne ==
  ASSUME NEW x, NEW n \in Nat
  PROVE  IsFiniteSet({x} \X (1..n)) /\ Cardinality({x} \X (1..n)) = n
  <1>1. IsFiniteSet({x}) /\ Cardinality({x}) = 1
    BY FS_Singleton
  <1>2. IsFiniteSet(1..n) /\ Cardinality(1..n) = n
    BY FS_Interval
  <1>3. /\ IsFiniteSet({x} \X (1..n))
        /\ Cardinality({x} \X (1..n)) = Cardinality({x}) * Cardinality(1..n)
    BY <1>1, <1>2, FS_Product
  <1> QED BY <1>1, <1>2, <1>3

LEMMA UnitsFinite ==
  ASSUME NEW S, IsFiniteSet(S), NEW f \in [S -> Nat], NEW s \in SUBSET S
  PROVE  IsFiniteSet(Units(f, s)) /\ Cardinality(Units(f, s)) \in Nat
  <1> DEFINE F == [x \in s |-> {x} \X (1..f[x])]
             T == {{x} \X (1..f[x]) : x \in s}
  <1>1. IsFiniteSet(s)
    BY FS_Subset
  <1>2. F \in Surjection(s, T)
    BY DEF Surjection
  <1>3. IsFiniteSet(T)
    BY <1>1, <1>2, FS_Surjection
  <1>4. \A t \in T : IsFiniteSet(t)
    <2>1. \A x \in s : IsFiniteSet({x} \X (1..f[x]))
      BY UnitsOfOne
    <2> QED BY <2>1
  <1>5. IsFiniteSet(UNION T)
    BY <1>3, <1>4, FS_UNION
  <1> QED BY <1>5, FS_CardinalityType DEF Units

LEMMA UnitsWithout ==
  ASSUME NEW S, IsFiniteSet(S), NEW f \in [S -> Nat], NEW s \in SUBSET S, NEW x \in s
  PROVE  Cardinality(Units(f, s)) = f[x] + Cardinality(Units(f, s \ {x}))
  <1> DEFINE A == Units(f, s \ {x})
             B == {x} \X (1..f[x])
  <1>1. Units(f, s) = A \cup B /\ A \cap B = {}
    BY DEF Units
  <1>2. IsFiniteSet(A) /\ Cardinality(A) \in Nat
    BY UnitsFinite
  <1>3. IsFiniteSet(B) /\ Cardinality(B) = f[x] /\ f[x] \in Nat
    BY UnitsOfOne
  <1>4. Cardinality(A \cup B) = Cardinality(A) + Cardinality(B) - Cardinality(A \cap B)
    <2> HIDE DEF A, B
    <2> QED BY <1>2, <1>3, FS_Union
  <1>5. Cardinality(A \cap B) = 0
    BY <1>1, FS_EmptySet
  <1> QED BY <1>1, <1>2, <1>3, <1>4, <1>5

(* A sum is the number of its units: the fold and the count agree on every    *)
(* subset, or else on all subsets of a smallest one that they differ on.      *)
LEMMA SumIsUnits ==
  ASSUME NEW S, IsFiniteSet(S), NEW f \in [S -> Nat]
  PROVE  SumFunction(f) = Cardinality(Units(f, S))
  <1> DEFINE h == [s \in SUBSET S |-> Cardinality(Units(f, s))]
  <1>1. h = [s \in SUBSET DOMAIN f |-> SumStep(f, h, s)]
    <2>1. ASSUME NEW s \in SUBSET S
          PROVE  Cardinality(Units(f, s)) = SumStep(f, h, s)
      <3>1. CASE s = {}
        BY <3>1, FS_EmptySet DEF Units, SumStep
      <3>2. CASE s # {}
        <4> DEFINE x == CHOOSE x \in s : TRUE
        <4>1. x \in s
          BY <3>2
        <4>2. h[s \ {x}] = Cardinality(Units(f, s \ {x}))
          OBVIOUS
        <4>3. SumStep(f, h, s) = f[x] + h[s \ {x}]
          BY <3>2 DEF SumStep
        <4> HIDE DEF x, h
        <4> QED BY <4>1, <4>2, <4>3, UnitsWithout
      <3> QED BY <3>1, <3>2
    <2> QED BY <2>1
  <1> HIDE DEF h
  <1>2. PICK g : /\ g = [s \in SUBSET DOMAIN f |-> SumStep(f, g, s)]
                 /\ SumFunction(f) = g[DOMAIN f]
    BY <1>1, SumUnfolds
  <1>3. \A s \in SUBSET S : g[s] = h[s]
    <2> DEFINE T == {s \in SUBSET S : g[s] # h[s]}
    <2>1. IsWellFoundedOn(StrictSubsetOrdering(S), SUBSET S)
      BY FS_StrictSubsetOrderingWellFounded, FS_FiniteSubsetsOfFinite
    <2>2. ASSUME T # {} PROVE FALSE
      <3>1. PICK s \in T : \A r \in T : <<r, s>> \notin StrictSubsetOrdering(S)
        BY <2>1, <2>2, WFMin
      <3>2. \A r \in SUBSET S : r \subseteq s /\ r # s => g[r] = h[r]
        BY <3>1 DEF StrictSubsetOrdering
      <3>3. g[s] = SumStep(f, g, s) /\ h[s] = SumStep(f, h, s)
        BY <1>1, <1>2
      <3>4. SumStep(f, g, s) = SumStep(f, h, s)
        BY <3>1, <3>2 DEF SumStep
      <3> QED BY <3>1, <3>3, <3>4
    <2> QED BY <2>2
  <1> QED BY <1>2, <1>3 DEF h

(* An element that had nothing brings its own amount. *)
LEMMA SumGrows ==
  ASSUME NEW S, IsFiniteSet(S), NEW f \in [S -> Nat], NEW g \in [S -> Nat],
         NEW x \in S, f[x] = 0, \A y \in S \ {x} : g[y] = f[y]
  PROVE  SumFunction(g) = SumFunction(f) + g[x]
  <1>1. Units(g, S \ {x}) = Units(f, S \ {x})
    BY DEF Units
  <1>2. /\ Cardinality(Units(g, S)) = g[x] + Cardinality(Units(g, S \ {x}))
        /\ Cardinality(Units(f, S)) = f[x] + Cardinality(Units(f, S \ {x}))
    BY UnitsWithout
  <1>3. Cardinality(Units(f, S \ {x})) \in Nat
    BY UnitsFinite
  <1>4. /\ SumFunction(g) = Cardinality(Units(g, S))
        /\ SumFunction(f) = Cardinality(Units(f, S))
    BY SumIsUnits
  <1> QED BY <1>1, <1>2, <1>3, <1>4

(* Terms that are some of another sum's sum up to no more. *)
LEMMA SumOfSome ==
  ASSUME NEW S, NEW T, IsFiniteSet(T), NEW f \in [S -> Nat], NEW g \in [T -> Nat],
         NEW m \in Injection(S, T), \A x \in S : f[x] = g[m[x]]
  PROVE  SumFunction(f) <= SumFunction(g)
  <1> DEFINE M == [u \in Units(f, S) |-> <<m[u[1]], u[2]>>]
  <1>1. IsFiniteSet(S)
    BY FS_Injection
  <1>2. /\ m \in [S -> T]
        /\ \A x, y \in S : m[x] = m[y] => x = y
    BY DEF Injection, IsInjective
  <1>3. \A u \in Units(f, S) : u[1] \in S /\ u[2] \in 1..f[u[1]] /\ u = <<u[1], u[2]>>
    BY DEF Units
  <1>4. \A x \in T : \A i \in 1..g[x] : <<x, i>> \in Units(g, T)
    BY DEF Units
  <1>5. M \in [Units(f, S) -> Units(g, T)]
    BY <1>2, <1>3, <1>4
  <1>6. ASSUME NEW u \in Units(f, S), NEW v \in Units(f, S), M[u] = M[v] PROVE u = v
    <2>1. m[u[1]] = m[v[1]] /\ u[2] = v[2]
      BY <1>6
    <2> QED BY <1>2, <1>3, <2>1
  <1>7. M \in Injection(Units(f, S), Units(g, T))
    BY <1>5, <1>6 DEF Injection, IsInjective
  <1>8. IsFiniteSet(Units(g, T))
    BY UnitsFinite
  <1>9. Cardinality(Units(f, S)) <= Cardinality(Units(g, T))
    BY <1>7, <1>8, FS_Injection
  <1> QED BY <1>1, <1>9, SumIsUnits

-----------------------------------------------------------------------------
(* The journal's reservations are what the allowances bound: what is sent is  *)
(* at most what is reserved, because it is sent from the durable row.         *)
AllowanceInv ==
  /\ Reserved <= MaxTotal
  /\ \A p \in Purchases : journal[p].amount <= MaxPerPurchase

Amounts == [q \in Purchases |-> journal[q].amount]

LEMMA PricesType ==
  /\ \A price \in Prices \cup {0} : price \in Nat
  /\ MaxPerPurchase \in Nat /\ MaxTotal \in Nat /\ IsFiniteSet(Purchases)
  <1>1. Prices \subseteq Nat \ {0}
    BY BuyerAssumption
  <1> QED BY <1>1, BuyerAssumption

LEMMA AmountsType ==
  ASSUME TypeOK
  PROVE  /\ Amounts \in [Purchases -> Nat]
         /\ Reserved = SumFunction(Amounts) /\ Reserved \in Nat
         /\ IsFiniteSet(Purchases)
  <1>1. Amounts \in [Purchases -> Nat]
    BY PricesType DEF TypeOK, Row, Amounts
  <1>2. Reserved = SumFunction(Amounts)
    BY DEF Reserved, Amounts
  <1> QED BY <1>1, <1>2, PricesType, SumIsUnits, UnitsFinite

LEMMA InitWithinAllowance == Init => AllowanceInv
  <1> SUFFICES ASSUME Init PROVE AllowanceInv
    OBVIOUS
  <1>1. TypeOK /\ \A p \in Purchases : journal[p].amount = 0
    BY InitEstablishes DEF Init, IInv
  <1>2. Units(Amounts, Purchases) = {}
    BY <1>1 DEF Units, Amounts
  <1>3. Reserved = 0
    BY <1>1, <1>2, AmountsType, SumIsUnits, FS_EmptySet
  <1> QED BY <1>1, <1>3, BuyerAssumption DEF AllowanceInv

(* Only reserve() sets an amount, and only that of a row without one. *)
LEMMA OnlyReserveSpends ==
  ASSUME IInv, [Next]_vars
  PROVE  \/ \A q \in Purchases : journal'[q].amount = journal[q].amount
         \/ \E w \in Workers : Reserve(w)
  <1> DEFINE Same == \A q \in Purchases : journal'[q].amount = journal[q].amount
  <1>1. ASSUME NEW w \in Workers, Step(w), ~Reserve(w) PROVE Same
    <2>1. CASE Authorize(w) \/ Accept(w)
      BY <2>1 DEF Authorize, Accept, IInv, TypeOK, Row
    <2>2. CASE \/ Discover(w) \/ AskQuote(w) \/ Sign(w) \/ Submit(w) \/ GetResult(w)
               \/ Recover(w) \/ GetRegistry(w) \/ VerifyAndRemember(w)
      BY <2>2 DEF Discover, AskQuote, Sign, Submit, GetResult, Recover, GetRegistry,
                  VerifyAndRemember, durable
    <2> QED BY <1>1, <2>1, <2>2 DEF Step
  <1>2. ASSUME NEW w \in Workers, NEW p \in Purchases, Begin(w, p) PROVE Same
    BY <1>2 DEF Begin, BeginRow, IInv, TypeOK, Row
  <1>3. ASSUME NEW w \in Workers, Fail(w) PROVE Same
    BY <1>3 DEF Fail, durable
  <1>4. CASE (\E p \in Purchases : Expire(p)) \/ UNCHANGED vars
    BY <1>4 DEF Expire, durable, vars
  <1> QED BY <1>1, <1>2, <1>3, <1>4 DEF Next

LEMMA AllowanceKept == IInv /\ AllowanceInv /\ [Next]_vars => AllowanceInv'
  <1> SUFFICES ASSUME IInv, AllowanceInv, [Next]_vars PROVE AllowanceInv'
    OBVIOUS
  <1>1. TypeOK /\ TypeOK'
    BY Inductive DEF IInv
  <1>2. CASE \A q \in Purchases : journal'[q].amount = journal[q].amount
    <2>1. Reserved' = Reserved
      BY <1>2 DEF Reserved
    <2> QED BY <1>2, <2>1 DEF AllowanceInv
  <1>3. ASSUME NEW w \in Workers, Reserve(w) PROVE AllowanceInv'
    <2> DEFINE p == Mine(w)
               price == server[p].price
    <2>1. CASE UNCHANGED journal
      BY <2>1 DEF AllowanceInv, Reserved
    <2>2. CASE /\ journal[p].amount = 0 /\ price <= MaxPerPurchase
               /\ Reserved + price <= MaxTotal
               /\ journal' = [journal EXCEPT ![p].state = "RESERVED",
                                             ![p].amount = price]
      <3>1. p \in Purchases /\ price \in Nat
        BY <1>1, PricesType DEF Mine, TypeOK, Job, ServerRow
      <3> HIDE DEF p, price
      <3>2. /\ \A q \in Purchases \ {p} : journal'[q].amount = journal[q].amount
            /\ journal'[p].amount = price
        BY <1>1, <2>2, <3>1 DEF TypeOK, Row
      <3>3. /\ Amounts' \in [Purchases -> Nat]
            /\ \A q \in Purchases \ {p} : Amounts'[q] = Amounts[q]
            /\ Amounts'[p] = price /\ Amounts[p] = 0
        BY <1>1, <2>2, <3>1, <3>2, PricesType DEF Amounts, TypeOK, Row
      <3>4. SumFunction(Amounts') = SumFunction(Amounts) + price
        <4>1. Amounts \in [Purchases -> Nat] /\ IsFiniteSet(Purchases)
          BY <1>1, AmountsType
        <4> QED BY <3>1, <3>3, <4>1, SumGrows
      <3>5. Reserved' = Reserved + price
        BY <1>1, <3>4, AmountsType DEF Reserved, Amounts
      <3> QED BY <2>2, <3>2, <3>5 DEF AllowanceInv
    <2> QED BY <1>3, <2>1, <2>2 DEF Reserve, QuoteCheck
  <1> QED BY <1>2, <1>3, OnlyReserveSpends

LEMMA SentWithinAllowance == IInv /\ AllowanceInv => SpendingWithinAllowance
  <1> SUFFICES ASSUME IInv, AllowanceInv PROVE SpendingWithinAllowance
    OBVIOUS
  <1> DEFINE paid == [payment \in sent |-> payment.amount]
             row  == [payment \in sent |-> payment.purchase]
  <1>1. \A s \in sent : /\ s.purchase \in Purchases /\ s.amount \in Nat
                        /\ s.amount = journal[s.purchase].amount
                        /\ s.nonce = journal[s.purchase].payment
                        /\ s = [purchase |-> s.purchase, amount |-> s.amount,
                                nonce |-> s.nonce]
    BY PricesType DEF IInv, TypeOK, Payment, SentIsJournaled
  <1>2. \A s \in sent : s.amount <= MaxPerPurchase
    BY <1>1 DEF AllowanceInv
  <1>3. row \in Injection(sent, Purchases)
    <2>1. \A s, t \in sent : s.purchase = t.purchase => s = t
      BY <1>1
    <2> QED BY <1>1, <2>1 DEF Injection, IsInjective
  <1>4. paid \in [sent -> Nat] /\ \A s \in sent : paid[s] = Amounts[row[s]]
    BY <1>1 DEF Amounts
  <1>5. SumFunction(paid) <= Reserved
    <2> HIDE DEF paid, row
    <2> QED BY <1>3, <1>4, AmountsType, SumOfSome DEF IInv
  <1>6. SumFunction(paid) \in Nat
    <2>1. IsFiniteSet(sent)
      BY <1>3, BuyerAssumption, FS_Injection
    <2> HIDE DEF paid
    <2> QED BY <1>4, <2>1, SumIsUnits, UnitsFinite
  <1>7. SumFunction(paid) <= MaxTotal
    BY <1>5, <1>6, AmountsType, BuyerAssumption DEF AllowanceInv, IInv
  <1> QED BY <1>2, <1>7 DEF SpendingWithinAllowance

(* docs/SECURITY-AND-RECOVERY.md:37: however many processes share the journal *)
(* and however they are interrupted, what they send never moves more than     *)
(* the policy's allowances (buyer-journal.mjs, reserve()).                    *)
THEOREM SpendsWithinAllowance == Spec => []SpendingWithinAllowance
  <1>1. Init => IInv /\ AllowanceInv
    BY InitEstablishes, InitWithinAllowance
  <1>2. (IInv /\ AllowanceInv) /\ [Next]_vars => (IInv /\ AllowanceInv)'
    BY Inductive, AllowanceKept
  <1>3. IInv /\ AllowanceInv => SpendingWithinAllowance
    BY SentWithinAllowance
  <1> QED BY <1>1, <1>2, <1>3, PTL DEF Spec

-----------------------------------------------------------------------------
(* The client without a journal. It counts what it asks of the wallet before  *)
(* it asks, and saves what it got before it sends: at each await, its files   *)
(* and its place say what was signed and what may have left.                  *)
CONSTANT References
VARIABLES standing, acquired, rows, lapsed, place

Cold == INSTANCE ColdPurchaser

(* Where the submission is drawn already, and where no payment is saved yet. *)
Drawn == {"quote", "wallet", "sign", "save", "pay", "result", "recover", "verify"}
Unpaid == {"quote", "wallet", "sign", "save"}

SavedInv ==
  /\ place \in Drawn => task.submission \in References
  /\ place \in Unpaid => saved = Cold!NoPayment
  /\ place \in {"result", "pay"} => saved # Cold!NoPayment
  /\ place = "pay" => local.nonce = saved.nonce
  /\ saved # Cold!NoPayment => saved.reference = task.submission

(* The wallet signs when it was asked once; while nothing is signed, nothing *)
(* is saved; what is signed is about to be saved, saved, or lost.            *)
SignatureInv ==
  /\ task.calls = 0 => signatures = {} /\ place \notin {"sign", "save"}
  /\ place = "sign" => signatures = {}
  /\ place = "save" =>
       [reference |-> task.submission, nonce |-> local.nonce] \in signatures
  /\ saved # Cold!NoPayment => saved \in signatures
  /\ \A payment, other \in signatures : payment = other
  /\ \A payment \in requests : payment = saved
  /\ requests # {} => saved # Cold!NoPayment

(* On the way to the wallet this process itself has verified the Mark. *)
AdmittedInv ==
  /\ interaction /\ place \in Unpaid => local.checked
  /\ interaction /\ place = "prepare" /\ saved = Cold!NoPayment => local.checked
  /\ place \in {"wallet", "sign"} => local.eligible

ColdInv == Cold!TypeOK /\ SavedInv /\ SignatureInv /\ AdmittedInv

LEMMA ColdInit == Cold!ColdAssumption /\ Cold!Init => ColdInv
  <1> SUFFICES ASSUME Cold!ColdAssumption, Cold!Init PROVE ColdInv
    OBVIOUS
  <1> USE DEF Cold!Init, Cold!NoPayment
  <1>1. Cold!TypeOK
    <2>1. task \in Cold!Task
      BY DEF Cold!Task
    <2>2. rows \in [References -> Cold!ServerRow]
      BY DEF Cold!ColdAssumption, Cold!ServerRow
    <2>3. local \in Cold!Local
      BY DEF Cold!ColdAssumption, Cold!Local, Cold!Nothing
    <2> QED BY <2>1, <2>2, <2>3 DEF Cold!TypeOK, Cold!Places
  <1>2. SavedInv
    BY DEF SavedInv, Drawn, Unpaid
  <1>3. SignatureInv
    BY DEF SignatureInv
  <1>4. AdmittedInv
    BY DEF AdmittedInv, Unpaid
  <1> QED BY <1>1, <1>2, <1>3, <1>4 DEF ColdInv

LEMMA ColdNothing == Cold!ColdAssumption => Cold!Nothing \in Cold!Local
  BY DEF Cold!ColdAssumption, Cold!Local, Cold!Nothing

(* A process that leaves is at no place that says anything. *)
LEMMA ColdLeaves ==
  ASSUME Cold!ColdAssumption, ColdInv, Cold!Leave, UNCHANGED Cold!files,
         UNCHANGED <<interaction, standing, signatures, requests, lapsed>>,
         rows' \in [References -> Cold!ServerRow]
  PROVE  ColdInv'
  <1> USE DEF ColdInv, Cold!Leave, Cold!files
  <1>1. Cold!TypeOK'
    <2>1. local' \in Cold!Local
      BY ColdNothing
    <2> QED BY <2>1 DEF Cold!TypeOK, Cold!Places
  <1>2. SavedInv'
    BY DEF SavedInv, Drawn, Unpaid, Cold!NoPayment
  <1>3. SignatureInv'
    BY DEF SignatureInv, Cold!NoPayment
  <1>4. AdmittedInv'
    BY DEF AdmittedInv, Unpaid
  <1> QED BY <1>1, <1>2, <1>3, <1>4

LEMMA ColdStart == ASSUME Cold!ColdAssumption, ColdInv, Cold!Start PROVE ColdInv'
  <1> USE DEF ColdInv, Cold!Start, Cold!Goto, Cold!files, Cold!outside
  <1>1. Cold!TypeOK'
    BY DEF Cold!TypeOK, Cold!Places
  <1>2. SavedInv'
    BY DEF SavedInv, Drawn, Unpaid, Cold!NoPayment
  <1>3. SignatureInv'
    BY DEF SignatureInv, Cold!NoPayment
  <1>4. AdmittedInv'
    BY DEF AdmittedInv, Unpaid
  <1> QED BY <1>1, <1>2, <1>3, <1>4

LEMMA ColdResolve == ASSUME Cold!ColdAssumption, ColdInv, Cold!Resolve PROVE ColdInv'
  <1> USE DEF ColdInv, Cold!Resolve, Cold!Goto, Cold!files, Cold!outside
  <1>1. Cold!TypeOK'
    BY DEF Cold!TypeOK, Cold!Places
  <1>2. SavedInv'
    BY DEF SavedInv, Drawn, Unpaid, Cold!NoPayment
  <1>3. SignatureInv'
    BY DEF SignatureInv, Cold!NoPayment
  <1>4. AdmittedInv'
    BY DEF AdmittedInv, Unpaid, Cold!Resumes, Cold!NoPayment
  <1> QED BY <1>1, <1>2, <1>3, <1>4

LEMMA ColdEncounter ==
  ASSUME Cold!ColdAssumption, ColdInv, Cold!Encounter PROVE ColdInv'
  <1> USE DEF ColdInv, Cold!Encounter, Cold!Active
  <1>1. CASE standing
    <2> USE <1>1 DEF Cold!outside
    <2>1. Cold!TypeOK'
      <3>1. task' \in Cold!Task
        BY DEF Cold!TypeOK, Cold!Task
      <3>2. local' \in Cold!Local
        BY DEF Cold!TypeOK, Cold!Local
      <3> QED BY <3>1, <3>2 DEF Cold!TypeOK, Cold!Places
    <2>2. task' = [task EXCEPT !.admitted = TRUE] /\ task \in Cold!Task
      BY DEF Cold!TypeOK
    <2>3. task'.submission = task.submission /\ task'.calls = task.calls
      BY <2>2 DEF Cold!Task
    <2>4. SavedInv'
      BY <2>3 DEF SavedInv, Drawn, Unpaid, Cold!NoPayment
    <2>5. SignatureInv'
      BY <2>3 DEF SignatureInv, Cold!NoPayment
    <2>6. AdmittedInv'
      BY DEF AdmittedInv, Unpaid, Cold!TypeOK, Cold!Local
    <2> QED BY <2>1, <2>4, <2>5, <2>6
  <1>2. CASE ~standing
    <2>1. UNCHANGED Cold!files /\ Cold!Leave /\ UNCHANGED Cold!outside
      BY <1>2 DEF Cold!files
    <2>2. rows' \in [References -> Cold!ServerRow]
      BY <2>1 DEF Cold!outside, Cold!TypeOK
    <2> QED BY <2>1, <2>2, ColdLeaves DEF Cold!outside
  <1> QED BY <1>1, <1>2

LEMMA ColdPrepare ==
  ASSUME Cold!ColdAssumption, ColdInv, Cold!Prepare PROVE ColdInv'
  <1> USE DEF ColdInv, Cold!Prepare
  <1>1. /\ task' \in Cold!Task /\ task'.submission \in References
        /\ task'.calls = task.calls
        /\ task.submission # Cold!NoReference => task' = task
    BY DEF Cold!ColdAssumption, Cold!TypeOK, Cold!Task
  <1>2. /\ place = "prepare" /\ place' \in {"result", "quote", "idle"}
        /\ UNCHANGED <<interaction, saved, signatures, requests>>
        /\ saved # Cold!NoPayment => task' = task
    BY <1>1 DEF SavedInv, Cold!TypeOK, Cold!Payment, Cold!ColdAssumption,
                Cold!Goto, Cold!Leave, Cold!outside
  <1>3. Cold!TypeOK'
    <2>1. local' = local \/ local' = Cold!Nothing
      BY DEF Cold!Goto, Cold!Leave
    <2>2. local' \in Cold!Local
      BY <2>1, ColdNothing DEF Cold!TypeOK
    <2> QED BY <1>1, <1>2, <2>2 DEF Cold!TypeOK, Cold!Places, Cold!outside
  <1>4. place' = "quote" => saved = Cold!NoPayment /\ local' = local
    BY <1>2 DEF Cold!Goto, Cold!Leave
  <1>5. place' = "result" => saved # Cold!NoPayment
    BY <1>2 DEF Cold!Goto, Cold!Leave
  <1>6. SavedInv'
    BY <1>1, <1>2, <1>4, <1>5 DEF SavedInv, Drawn, Unpaid, Cold!NoPayment
  <1>7. SignatureInv'
    BY <1>1, <1>2 DEF SignatureInv, Cold!NoPayment
  <1>8. AdmittedInv'
    BY <1>2, <1>4 DEF AdmittedInv, Unpaid, Cold!NoPayment
  <1> QED BY <1>3, <1>6, <1>7, <1>8

LEMMA ColdQuote == ASSUME Cold!ColdAssumption, ColdInv, Cold!Quote PROVE ColdInv'
  <1> USE DEF ColdInv
  <1>1. rows' \in [References -> Cold!ServerRow]
    BY DEF Cold!Quote, Cold!TypeOK, Cold!ServerRow
  <1>2. CASE Cold!Leave
    BY <1>1, <1>2, ColdLeaves DEF Cold!Quote
  <1>3. CASE place' = "wallet" /\ local' = [local EXCEPT !.eligible = TRUE]
    <2> USE <1>1, <1>3 DEF Cold!Quote, Cold!files
    <2>1. /\ local' \in Cold!Local /\ local'.checked = local.checked
          /\ local'.eligible
      BY DEF Cold!TypeOK, Cold!Local
    <2>2. Cold!TypeOK'
      BY <2>1 DEF Cold!TypeOK, Cold!Places
    <2>3. SavedInv'
      BY DEF SavedInv, Drawn, Unpaid, Cold!NoPayment
    <2>4. SignatureInv'
      BY DEF SignatureInv, Cold!NoPayment
    <2>5. AdmittedInv'
      BY <2>1 DEF AdmittedInv, Unpaid
    <2> QED BY <2>2, <2>3, <2>4, <2>5
  <1> QED BY <1>2, <1>3 DEF Cold!Quote

LEMMA ColdAskWallet ==
  ASSUME Cold!ColdAssumption, ColdInv, Cold!AskWallet PROVE ColdInv'
  <1> USE DEF ColdInv
  <1>1. CASE UNCHANGED task /\ Cold!Leave
    <2>1. rows' \in [References -> Cold!ServerRow]
      BY DEF Cold!AskWallet, Cold!outside, Cold!TypeOK
    <2> QED BY <1>1, <2>1, ColdLeaves DEF Cold!AskWallet, Cold!outside, Cold!files
  <1>2. CASE /\ Cold!WalletUnasked /\ task' = [task EXCEPT !.calls = @ + 1]
             /\ Cold!Goto("sign")
    <2> USE <1>2 DEF Cold!AskWallet, Cold!Goto, Cold!outside
    <2>1. /\ task' \in Cold!Task /\ task'.submission = task.submission
          /\ task'.calls # 0
      BY DEF Cold!TypeOK, Cold!Task
    <2>2. Cold!TypeOK'
      BY <2>1 DEF Cold!TypeOK, Cold!Places
    <2>3. SavedInv'
      BY <2>1 DEF SavedInv, Drawn, Unpaid, Cold!NoPayment
    <2>4. SignatureInv'
      BY <2>1 DEF SignatureInv, Cold!WalletUnasked, Cold!NoPayment
    <2>5. AdmittedInv'
      BY DEF AdmittedInv, Unpaid
    <2> QED BY <2>2, <2>3, <2>4, <2>5
  <1> QED BY <1>1, <1>2 DEF Cold!AskWallet

LEMMA ColdSign == ASSUME Cold!ColdAssumption, ColdInv, Cold!Sign PROVE ColdInv'
  <1> USE DEF ColdInv
  <1>1. PICK nonce \in 1..MaxSigned :
          /\ signatures' = signatures \cup {[reference |-> task.submission, nonce |-> nonce]}
          /\ local' = [local EXCEPT !.nonce = nonce]
    BY DEF Cold!Sign
  <1> USE DEF Cold!Sign, Cold!files
  <1>2. signatures = {} /\ task.submission \in References /\ task.calls # 0
    BY DEF SignatureInv, SavedInv, Drawn
  <1>3. /\ local' \in Cold!Local /\ local'.nonce = nonce
        /\ local'.checked = local.checked
    BY <1>1 DEF Cold!TypeOK, Cold!Local, Cold!ColdAssumption
  <1>4. Cold!TypeOK'
    <2>1. signatures' \subseteq Cold!Payment
      BY <1>1, <1>2 DEF Cold!Payment
    <2> QED BY <1>3, <2>1 DEF Cold!TypeOK, Cold!Places
  <1>5. SavedInv'
    BY DEF SavedInv, Drawn, Unpaid, Cold!NoPayment
  <1>6. SignatureInv'
    BY <1>1, <1>2, <1>3 DEF SignatureInv, SavedInv, Unpaid, Cold!NoPayment
  <1>7. AdmittedInv'
    BY <1>3 DEF AdmittedInv, Unpaid
  <1> QED BY <1>4, <1>5, <1>6, <1>7

LEMMA ColdSave == ASSUME Cold!ColdAssumption, ColdInv, Cold!Save PROVE ColdInv'
  <1> USE DEF ColdInv, Cold!Save, Cold!Goto, Cold!outside
  <1>1. /\ saved = Cold!NoPayment /\ saved' \in signatures
        /\ saved' # Cold!NoPayment /\ saved' \in Cold!Payment
        /\ requests = {}
    BY DEF SavedInv, SignatureInv, Unpaid, Cold!TypeOK, Cold!Payment,
           Cold!NoPayment, Cold!ColdAssumption
  <1>2. Cold!TypeOK'
    BY <1>1 DEF Cold!TypeOK, Cold!Places
  <1>3. SavedInv'
    BY <1>1 DEF SavedInv, Drawn, Unpaid, Cold!NoPayment
  <1>4. SignatureInv'
    BY <1>1 DEF SignatureInv, Cold!NoPayment
  <1>5. AdmittedInv'
    BY DEF AdmittedInv, Unpaid
  <1> QED BY <1>2, <1>3, <1>4, <1>5

LEMMA ColdPay == ASSUME Cold!ColdAssumption, ColdInv, Cold!Pay PROVE ColdInv'
  <1> USE DEF ColdInv
  <1> DEFINE sending == [reference |-> task.submission, nonce |-> local.nonce]
  <1>1. /\ saved # Cold!NoPayment /\ sending = saved /\ saved \in signatures
        /\ saved \in Cold!Payment
    BY DEF Cold!Pay, SavedInv, SignatureInv, Cold!TypeOK, Cold!Payment
  <1>2. rows' \in [References -> Cold!ServerRow]
    <2>1. PICK row \in Cold!Served(task.submission, local.nonce) :
            rows' = [rows EXCEPT ![task.submission] = row]
      BY DEF Cold!Pay
    <2>2. row \in Cold!ServerRow
      BY <1>1, <2>1 DEF Cold!Served, Cold!TypeOK, Cold!ServerRow, Cold!Local,
                        SavedInv, Cold!Payment
    <2> QED BY <2>1, <2>2 DEF Cold!TypeOK
  <1>3. /\ requests' = requests \cup {saved}
        /\ UNCHANGED <<interaction, standing, signatures, lapsed, task, saved, acquired>>
        /\ place = "pay"
    BY <1>1 DEF Cold!Pay, Cold!files
  <1>4. \/ place' = "verify" /\ local' = local
        \/ place' = "idle" /\ local' = Cold!Nothing
    BY DEF Cold!Pay, Cold!Goto, Cold!Leave
  <1>5. Cold!TypeOK'
    <2>1. local' \in Cold!Local
      BY <1>4, ColdNothing DEF Cold!TypeOK
    <2> QED BY <1>1, <1>2, <1>3, <1>4, <2>1 DEF Cold!TypeOK, Cold!Places
  <1>6. SavedInv'
    BY <1>3, <1>4 DEF SavedInv, Drawn, Unpaid, Cold!NoPayment
  <1>7. SignatureInv'
    BY <1>1, <1>3, <1>4 DEF SignatureInv, Cold!NoPayment
  <1>8. AdmittedInv'
    BY <1>4 DEF AdmittedInv, Unpaid
  <1> QED BY <1>5, <1>6, <1>7, <1>8

LEMMA ColdGetResult ==
  ASSUME Cold!ColdAssumption, ColdInv, Cold!GetResult PROVE ColdInv'
  <1> USE DEF ColdInv
  <1>1. /\ place = "result" /\ saved # Cold!NoPayment /\ saved \in Cold!Payment
        /\ UNCHANGED <<task, saved, acquired, interaction, standing, signatures,
                       requests, rows, lapsed>>
    BY DEF Cold!GetResult, Cold!files, Cold!outside, SavedInv, Cold!TypeOK
  <1>2. \/ place' \in {"verify", "recover"} /\ local' = local
        \/ place' = "pay" /\ local' = [local EXCEPT !.nonce = saved.nonce]
    BY DEF Cold!GetResult, Cold!Goto
  <1>3. local' \in Cold!Local /\ (place' = "pay" => local'.nonce = saved.nonce)
    BY <1>1, <1>2 DEF Cold!TypeOK, Cold!Local, Cold!Payment, Cold!ColdAssumption
  <1>4. Cold!TypeOK'
    BY <1>1, <1>2, <1>3 DEF Cold!TypeOK, Cold!Places
  <1>5. SavedInv'
    BY <1>1, <1>2, <1>3 DEF SavedInv, Drawn, Unpaid, Cold!NoPayment
  <1>6. SignatureInv'
    BY <1>1, <1>2 DEF SignatureInv, Cold!NoPayment
  <1>7. AdmittedInv'
    BY <1>2 DEF AdmittedInv, Unpaid
  <1> QED BY <1>4, <1>5, <1>6, <1>7

LEMMA ColdRecover ==
  ASSUME Cold!ColdAssumption, ColdInv, Cold!Recover PROVE ColdInv'
  <1> USE DEF ColdInv
  <1>1. rows' \in [References -> Cold!ServerRow]
    BY DEF Cold!Recover, Cold!TypeOK, Cold!ServerRow
  <1>2. CASE Cold!Leave
    BY <1>1, <1>2, ColdLeaves DEF Cold!Recover
  <1>3. CASE Cold!Goto("verify")
    <2> USE <1>1, <1>3 DEF Cold!Recover, Cold!Goto, Cold!files
    <2>1. Cold!TypeOK'
      BY DEF Cold!TypeOK, Cold!Places
    <2>2. SavedInv'
      BY DEF SavedInv, Drawn, Unpaid, Cold!NoPayment
    <2>3. SignatureInv'
      BY DEF SignatureInv, Cold!NoPayment
    <2>4. AdmittedInv'
      BY DEF AdmittedInv, Unpaid
    <2> QED BY <2>1, <2>2, <2>3, <2>4
  <1> QED BY <1>2, <1>3 DEF Cold!Recover

LEMMA ColdVerify ==
  ASSUME Cold!ColdAssumption, ColdInv, Cold!Verify PROVE ColdInv'
  <1> USE DEF ColdInv, Cold!Verify, Cold!Leave, Cold!outside
  <1>1. Cold!TypeOK'
    BY ColdNothing DEF Cold!TypeOK, Cold!Places
  <1>2. SavedInv'
    BY DEF SavedInv, Drawn, Unpaid, Cold!NoPayment
  <1>3. SignatureInv'
    BY DEF SignatureInv, Cold!NoPayment
  <1>4. AdmittedInv'
    BY DEF AdmittedInv, Unpaid
  <1> QED BY <1>1, <1>2, <1>3, <1>4

(* The Mark that was handed over loses its standing, or a quote expires. *)
LEMMA ColdWorld ==
  ASSUME Cold!ColdAssumption, ColdInv,
         Cold!Withdraw \/ \E r \in References : Cold!Lapse(r)
  PROVE  ColdInv'
  <1>1. /\ UNCHANGED <<task, saved, acquired, interaction, signatures, requests,
                       rows, place, local>>
        /\ standing' \in BOOLEAN /\ lapsed' \subseteq References
    BY DEF ColdInv, Cold!TypeOK, Cold!Withdraw, Cold!Lapse, Cold!files
  <1>2. Cold!TypeOK'
    BY <1>1 DEF ColdInv, Cold!TypeOK
  <1>3. SavedInv'
    BY <1>1 DEF ColdInv, SavedInv, Cold!NoPayment
  <1>4. SignatureInv'
    BY <1>1 DEF ColdInv, SignatureInv, Cold!NoPayment
  <1>5. AdmittedInv'
    BY <1>1 DEF ColdInv, AdmittedInv, Cold!NoPayment
  <1> QED BY <1>2, <1>3, <1>4, <1>5 DEF ColdInv

LEMMA ColdInductive ==
  Cold!ColdAssumption /\ ColdInv /\ [Cold!Next]_Cold!vars => ColdInv'
  <1> SUFFICES ASSUME Cold!ColdAssumption, ColdInv, [Cold!Next]_Cold!vars
               PROVE  ColdInv'
    OBVIOUS
  <1>1. CASE Cold!Step
    BY <1>1, ColdResolve, ColdEncounter, ColdPrepare, ColdQuote, ColdAskWallet,
       ColdSign, ColdSave, ColdPay, ColdGetResult, ColdRecover, ColdVerify
       DEF Cold!Step
  <1>2. CASE Cold!Fail
    <2>1. rows' \in [References -> Cold!ServerRow]
      BY <1>2 DEF Cold!Fail, Cold!outside, ColdInv, Cold!TypeOK
    <2> QED BY <1>2, <2>1, ColdLeaves DEF Cold!Fail, Cold!outside
  <1>3. CASE UNCHANGED Cold!vars
    <2> USE <1>3 DEF Cold!vars, Cold!files, Cold!outside, ColdInv
    <2>1. Cold!TypeOK'
      BY DEF Cold!TypeOK
    <2>2. SavedInv'
      BY DEF SavedInv, Cold!NoPayment
    <2>3. SignatureInv'
      BY DEF SignatureInv, Cold!NoPayment
    <2>4. AdmittedInv'
      BY DEF AdmittedInv, Cold!NoPayment
    <2> QED BY <2>1, <2>2, <2>3, <2>4
  <1> QED BY <1>1, <1>2, <1>3, ColdStart, ColdWorld DEF Cold!Next

(* The files, the process and the service's rows keep their types            *)
(* (cold-purchaser.mjs, run).                                                *)
THEOREM ColdTypeCorrect ==
  ASSUME Cold!ColdAssumption
  PROVE  Cold!Spec => []Cold!TypeOK
  <1>1. Cold!Init => ColdInv
    BY ColdInit
  <1>2. ColdInv /\ [Cold!Next]_Cold!vars => ColdInv'
    BY ColdInductive
  <1>3. ColdInv => Cold!TypeOK
    BY DEF ColdInv
  <1> QED BY <1>1, <1>2, <1>3, PTL DEF Cold!Spec

(* SECOND_PAYMENT_FORBIDDEN (cold-purchaser.mjs:114): for any number of       *)
(* references and signatures, and however often the command dies and is run   *)
(* again, the wallet signs once and only the saved payment is sent.           *)
THEOREM ColdPaysOnce ==
  ASSUME Cold!ColdAssumption
  PROVE  Cold!Spec => []PaysOnce
  <1>1. Cold!Init => ColdInv
    BY ColdInit
  <1>2. ColdInv /\ [Cold!Next]_Cold!vars => ColdInv'
    BY ColdInductive
  <1>3. ColdInv => PaysOnce
    BY DEF ColdInv, SignatureInv, SavedInv, PaysOnce
  <1> QED BY <1>1, <1>2, <1>3, PTL DEF Cold!Spec

(* cold-purchaser.mjs:89: the wallet signs only for a process that verified   *)
(* the encountered Mark itself, and was told that its object is eligible.     *)
THEOREM ColdSignsAdmitted ==
  ASSUME Cold!ColdAssumption
  PROVE  Cold!Spec => SignsAdmitted
  <1>1. Cold!Init => ColdInv
    BY ColdInit
  <1>2. ColdInv /\ [Cold!Next]_Cold!vars => ColdInv'
    BY ColdInductive
  <1>3. ColdInv /\ [Cold!Next]_Cold!vars =>
          [signatures' # signatures =>
             (interaction => local.checked) /\ local.eligible]_signatures
    <2> SUFFICES ASSUME ColdInv, [Cold!Next]_Cold!vars, signatures' # signatures
                 PROVE  (interaction => local.checked) /\ local.eligible
      OBVIOUS
    <2>1. Cold!Sign
      BY DEF Cold!Next, Cold!Step, Cold!Start, Cold!Resolve, Cold!Encounter,
             Cold!Prepare, Cold!Quote, Cold!AskWallet, Cold!Save, Cold!Pay,
             Cold!GetResult, Cold!Recover, Cold!Verify, Cold!Fail,
             Cold!Withdraw, Cold!Lapse, Cold!outside, Cold!vars
    <2> QED BY <2>1 DEF Cold!Sign, ColdInv, AdmittedInv, Unpaid
  <1> QED BY <1>1, <1>2, <1>3, PTL DEF Cold!Spec, SignsAdmitted
=============================================================================
