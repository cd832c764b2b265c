---------------------------- MODULE ChainScanProofs ----------------------------
(***************************************************************************)
(* Proofs about ChainScan, for every window, length of the chain and       *)
(* number of reorganizations.                                              *)
(*                                                                         *)
(* What is final is never replaced: each answer evidence() has collected   *)
(* stays true of the chain from the moment the block is known to be final. *)
(* The search never looks beyond what is final, so a transfer that is mined*)
(* or moved afterwards is always ahead of the cursor; and the evidence of  *)
(* an authorization that one node found in its own final blocks cannot     *)
(* fail, so the cursor is never saved past it.                             *)
(***************************************************************************)
EXTENDS ChainScan, TLAPS

(* The cases in which what a view says of final blocks is so. With a node   *)
(* that is behind and reorganizations, the receipt and the block may come   *)
(* from an abandoned branch and the finality from the other one.            *)
OneBranch == ~endpoint.lagging \/ endpoint.reorgs = 0

WellFormed(c) == c.final <= c.height /\ c.where <= c.height

ChainInv ==
  /\ WellFormed(chain) /\ WellFormed(behind)
  /\ behind.final <= chain.final
  /\ OneBranch /\ endpoint.lagging /\ behind.where # 0 => behind.where = chain.where

Carries(c, r) == c.where = r.block /\ c.built[r.block] = r.hash

Checked == {"finalized", "block", "transaction", "prove"}

EvidenceInv ==
  /\ pc \in Checked => job.receipt.block \in Blocks
  /\ pc \in {"block", "transaction", "prove"} /\ OneBranch =>
       job.receipt.block <= chain.final
  /\ pc = "prove" /\ OneBranch => Carries(chain, job.receipt)
  /\ Proved /\ OneBranch =>
       row.proof.block \in 1..chain.final /\ Carries(chain, row.proof)

(* Where the search is. *)
SearchInv ==
  /\ job.end <= chain.final
  /\ pc # "idle" => origin # 0
  /\ origin # 0 => /\ row.cursor >= 1
                   /\ row.cursor <= origin \/ row.cursor <= chain.final + 1

(* With one node, the evidence of a log cannot fail. *)
LogInv ==
  ~endpoint.lagging =>
    /\ pc \in {"receipt"} \cup Checked /\ job.tx = "log" =>
         /\ chain.where \in row.cursor..job.end
         /\ pc # "receipt" => Carries(chain, job.receipt)
    /\ pc = "save" /\ TransferIsFinal => chain.where \notin row.cursor..job.end

IInv == TypeOK /\ ChainInv /\ EvidenceInv /\ SearchInv /\ LogInv /\ NothingSkipped

-----------------------------------------------------------------------------
LEMMA ReceiptFields ==
  ASSUME NEW b \in 0..MaxBlock, NEW h \in 0..endpoint.reorgs
  PROVE  [block |-> b, hash |-> h] \in Receipt
  BY DEF Receipt

LEMMA ChainFields ==
  ASSUME NEW c \in Chain
  PROVE  /\ c.height \in Blocks /\ c.final \in Blocks /\ c.where \in 0..MaxBlock
         /\ c.built \in [Blocks -> 0..endpoint.reorgs]
         /\ c.reorgs \in 0..endpoint.reorgs
  BY DEF Chain

LEMMA EndpointType == TypeOK => endpoint.lagging \in BOOLEAN /\ endpoint.reorgs \in Nat
  BY ScanAssumption DEF TypeOK

LEMMA NoBlockIsReceipt == endpoint.reorgs \in Nat => NoBlock \in Receipt
  BY ScanAssumption DEF NoBlock, Receipt

LEMMA NoJobType ==
  endpoint.reorgs \in Nat =>
    /\ NoJob \in [tx: {"hint", "log"}, end: 0..MaxBlock, receipt: Receipt]
    /\ NoJob.end = 0 /\ NoJob.tx = "log"
  BY ScanAssumption, NoBlockIsReceipt DEF NoJob

LEMMA InitEstablishes == Init => IInv
  <1> SUFFICES ASSUME Init PROVE IInv
    OBVIOUS
  <1>1. MaxBlock \in Nat /\ 1 \in Blocks
    BY ScanAssumption DEF Blocks
  <1>2. endpoint.reorgs \in Nat
    BY ScanAssumption DEF Init
  <1>3. [n \in Blocks |-> 0] \in [Blocks -> 0..endpoint.reorgs]
    BY <1>2
  <1>4. chain \in Chain
    BY <1>1, <1>2, <1>3 DEF Init, Chain
  <1>5. TypeOK
    <2>1. behind \in Chain /\ endpoint \in Endpoints /\ asked \in BOOLEAN
      BY <1>4 DEF Init
    <2>2. row \in [cursor: 0..(MaxBlock + 1), hint: TxHints, proof: Receipt]
      BY <1>1, NoBlockIsReceipt, <1>2 DEF Init, TxHints
    <2>3. origin \in 0..MaxBlock /\ pc \in Calls
      BY <1>1 DEF Init, Calls
    <2> QED BY <1>2, <1>4, <2>1, <2>2, <2>3, NoJobType DEF Init, TypeOK
  <1>6. ChainInv
    BY <1>1 DEF Init, ChainInv, WellFormed
  <1>7. /\ pc = "idle" /\ origin = 0 /\ ~Proved
        /\ job.end = 0 /\ chain.final = 1 /\ chain.where = 0
    BY DEF Init, Proved, NoJob
  <1>8. EvidenceInv /\ SearchInv /\ LogInv
    BY <1>7 DEF EvidenceInv, SearchInv, LogInv, Checked
  <1>9. NothingSkipped
    BY <1>7 DEF NothingSkipped, TransferIsFinal
  <1> QED BY <1>5, <1>6, <1>8, <1>9 DEF IInv

-----------------------------------------------------------------------------
(* The chain.                                                               *)
Grow == Mine \/ Finalize \/ Reorganize

LEMMA MineFacts ==
  ASSUME TypeOK, ChainInv, Mine
  PROVE  /\ chain' \in Chain /\ WellFormed(chain')
         /\ chain'.final = chain.final
         /\ chain'.where = chain.where \/ chain'.where > chain.final
         /\ chain.where # 0 => chain'.where = chain.where
         /\ \A n \in 1..chain.final : chain'.built[n] = chain.built[n]
  <1>1. PICK where \in {chain.where, chain.height + 1} :
          /\ where # chain.where => asked /\ chain.where = 0
          /\ chain' = [chain EXCEPT !.height = @ + 1, !.where = where,
                                    !.built[chain.height + 1] = chain.reorgs]
    BY DEF Mine
  <1>2. chain \in Chain /\ MaxBlock \in Nat /\ chain.height < MaxBlock
    BY ScanAssumption DEF TypeOK, Mine
  <1>3. chain.height + 1 \in Blocks /\ where \in 0..MaxBlock
    BY <1>1, <1>2, ChainFields DEF Blocks
  <1>4. /\ chain'.height = chain.height + 1 /\ chain'.final = chain.final
        /\ chain'.where = where /\ chain'.reorgs = chain.reorgs
        /\ chain'.built = [chain.built EXCEPT ![chain.height + 1] = chain.reorgs]
        /\ chain' = [height |-> chain'.height, final |-> chain'.final,
                     where |-> chain'.where, built |-> chain'.built,
                     reorgs |-> chain'.reorgs]
    BY <1>1, <1>2 DEF Chain
  <1>5. chain'.built \in [Blocks -> 0..endpoint.reorgs]
    BY <1>2, <1>3, <1>4, ChainFields
  <1>6. chain' \in Chain
    BY <1>2, <1>3, <1>4, <1>5, ChainFields DEF Chain
  <1>7. /\ chain.final \in Nat /\ chain.height \in Nat
        /\ chain.final <= chain.height /\ chain.where <= chain.height
        /\ chain.where \in Nat
    BY <1>2, ChainFields DEF ChainInv, WellFormed, Blocks
  <1>8. \A n \in 1..chain.final : chain'.built[n] = chain.built[n]
    BY <1>2, <1>4, <1>7, ChainFields DEF Blocks
  <1> QED BY <1>1, <1>3, <1>4, <1>6, <1>7, <1>8 DEF WellFormed

LEMMA FinalizeFacts ==
  ASSUME TypeOK, ChainInv, Finalize
  PROVE  /\ chain' \in Chain /\ WellFormed(chain')
         /\ chain.final < chain'.final
         /\ chain'.where = chain.where /\ chain'.built = chain.built
  <1>1. PICK n \in (chain.final + 1)..chain.height :
          chain' = [chain EXCEPT !.final = n]
    BY DEF Finalize
  <1>2. chain \in Chain /\ WellFormed(chain) /\ MaxBlock \in Nat
    BY ScanAssumption DEF TypeOK, ChainInv
  <1>3. n \in Blocks /\ n > chain.final /\ n <= chain.height
    BY <1>2, ChainFields DEF Blocks
  <1>4. /\ chain'.height = chain.height /\ chain'.final = n
        /\ chain'.where = chain.where /\ chain'.built = chain.built
        /\ chain' \in Chain
    BY <1>1, <1>2, <1>3 DEF Chain
  <1> QED BY <1>2, <1>3, <1>4 DEF WellFormed

LEMMA ReorganizeFacts ==
  ASSUME TypeOK, ChainInv, Reorganize
  PROVE  /\ chain' \in Chain /\ WellFormed(chain')
         /\ chain'.final = chain.final
         /\ \/ chain'.where = chain.where
            \/ /\ chain.where \notin 1..chain.final
               /\ chain'.where = 0 \/ chain'.where > chain.final
         /\ endpoint.reorgs # 0
         /\ \A n \in 1..chain.final : chain'.built[n] = chain.built[n]
  <1>1. PICK where \in {0} \cup (chain.final + 1)..chain.height :
          chain' = [chain EXCEPT
                      !.where = IF @ \in 1..chain.final THEN @ ELSE where,
                      !.reorgs = @ + 1,
                      !.built = [n \in Blocks |-> IF n > chain.final
                                                    THEN chain.reorgs + 1
                                                    ELSE @[n]]]
    BY DEF Reorganize
  <1> DEFINE built == [n \in Blocks |-> IF n > chain.final THEN chain.reorgs + 1
                                                           ELSE chain.built[n]]
             at == IF chain.where \in 1..chain.final THEN chain.where ELSE where
  <1>2. /\ chain \in Chain /\ WellFormed(chain) /\ MaxBlock \in Nat
        /\ chain.reorgs < endpoint.reorgs /\ endpoint.reorgs \in Nat
    BY ScanAssumption, EndpointType DEF TypeOK, ChainInv, Reorganize
  <1>3. chain.reorgs + 1 \in 0..endpoint.reorgs /\ endpoint.reorgs # 0
    BY <1>2, ChainFields
  <1>4. built \in [Blocks -> 0..endpoint.reorgs]
    BY <1>2, <1>3, ChainFields
  <1>5. /\ chain.final \in Nat /\ chain.height \in Nat /\ chain.where \in Nat
        /\ chain.height <= MaxBlock
    BY <1>2, ChainFields DEF Blocks
  <1>6. /\ at \in 0..MaxBlock /\ at <= chain.height
        /\ \/ at = chain.where
           \/ /\ chain.where \notin 1..chain.final
              /\ at = 0 \/ at > chain.final
    BY <1>2, <1>5 DEF WellFormed
  <1>7. /\ chain'.height = chain.height /\ chain'.final = chain.final
        /\ chain'.where = at /\ chain'.reorgs = chain.reorgs + 1
        /\ chain'.built = built
        /\ chain' = [height |-> chain'.height, final |-> chain'.final,
                     where |-> chain'.where, built |-> chain'.built,
                     reorgs |-> chain'.reorgs]
    BY <1>1, <1>2 DEF Chain
  <1>8. \A n \in 1..chain.final : chain'.built[n] = chain.built[n]
    BY <1>2, <1>5, <1>7, ChainFields DEF Blocks
  <1> HIDE DEF built, at
  <1>9. chain' \in Chain
    BY <1>2, <1>3, <1>4, <1>6, <1>7, ChainFields DEF Chain
  <1> QED BY <1>2, <1>3, <1>6, <1>7, <1>8, <1>9 DEF WellFormed

(* What is final stays as it is; what becomes final was ahead of it.        *)
LEMMA GrowFacts ==
  ASSUME TypeOK, ChainInv, Grow
  PROVE  /\ chain' \in Chain /\ WellFormed(chain')
         /\ chain.final <= chain'.final
         /\ \A r \in Receipt : r.block \in 1..chain.final /\ Carries(chain, r)
                                 => Carries(chain', r)
         /\ chain.where \in 1..chain.final => chain'.where = chain.where
         /\ chain'.where \in 1..chain.final => chain.where = chain'.where
         /\ endpoint.reorgs = 0 /\ chain.where # 0 => chain'.where = chain.where
         /\ UNCHANGED <<endpoint, behind, origin, row, pc, job>>
  <1>1. chain \in Chain /\ MaxBlock \in Nat
    BY ScanAssumption DEF TypeOK
  <1>2. chain.final \in Nat /\ chain.where \in Nat
    BY <1>1, ChainFields DEF Blocks
  <1>3. UNCHANGED <<endpoint, behind, origin, row, pc, job>>
    BY DEF Grow, Mine, Finalize, Reorganize
  <1>4. CASE Mine
    <2>1. chain'.where \in Nat
      BY <1>3, <1>4, MineFacts DEF Chain
    <2> QED BY <1>2, <1>3, <1>4, <2>1, MineFacts DEF Carries
  <1>5. CASE Finalize
    <2>1. chain'.final \in Nat
      BY <1>1, <1>3, <1>5, FinalizeFacts DEF Chain, Blocks
    <2> QED BY <1>2, <1>3, <1>5, <2>1, FinalizeFacts DEF Carries
  <1>6. CASE Reorganize
    BY <1>2, <1>3, <1>6, ReorganizeFacts DEF Carries
  <1> QED BY <1>4, <1>5, <1>6 DEF Grow

LEMMA GrowKeeps == IInv /\ Grow => IInv'
  <1> SUFFICES ASSUME IInv, Grow PROVE IInv'
    OBVIOUS
  <1> USE DEF IInv
  <1>1. TypeOK'
    <2>1. asked' \in BOOLEAN
      BY DEF Grow, Mine, Finalize, Reorganize, TypeOK
    <2> QED BY <2>1, GrowFacts DEF TypeOK, Chain, Receipt
  <1>2. /\ chain \in Chain /\ chain' \in Chain /\ behind \in Chain /\ MaxBlock \in Nat
        /\ UNCHANGED <<endpoint, behind, origin, row, pc, job>>
    BY GrowFacts, ScanAssumption DEF TypeOK
  <1>3. /\ chain.final \in Nat /\ chain'.final \in Nat /\ behind.final \in Nat
        /\ chain.where \in Nat /\ chain'.where \in Nat
        /\ chain.final <= chain'.final
    <2>1. chain.final <= chain'.final
      BY GrowFacts
    <2> QED BY <1>2, <2>1, ChainFields DEF Blocks
  <1>4. ChainInv'
    <2>1. WellFormed(behind) /\ WellFormed(chain')
      BY GrowFacts DEF ChainInv
    <2>2. OneBranch /\ endpoint.lagging => endpoint.reorgs = 0
      BY DEF OneBranch
    <2>3. OneBranch /\ endpoint.lagging /\ behind.where # 0 => behind.where = chain'.where
      BY <2>2, GrowFacts DEF ChainInv
    <2> QED BY <1>2, <1>3, <2>1, <2>3 DEF ChainInv, OneBranch, WellFormed
  <1>5. job.receipt \in Receipt /\ row.proof \in Receipt /\ job.end \in Nat
          /\ row.cursor \in Nat /\ origin \in Nat
    BY ScanAssumption DEF TypeOK
  <1>6. EvidenceInv'
    <2>1. pc \in Checked => job.receipt.block \in Nat \ {0}
      BY DEF EvidenceInv, Blocks
    <2> QED BY <1>2, <1>3, <1>5, <2>1, GrowFacts
            DEF EvidenceInv, Checked, Carries, Proved, OneBranch
  <1>7. SearchInv'
    BY <1>2, <1>3, <1>5 DEF SearchInv
  <1>8. LogInv'
    <2> SUFFICES ASSUME ~endpoint.lagging
                 PROVE  /\ pc \in {"receipt"} \cup Checked /\ job.tx = "log" =>
                             /\ chain'.where \in row.cursor..job.end
                             /\ pc # "receipt" => Carries(chain', job.receipt)
                        /\ pc = "save" /\ TransferIsFinal' =>
                             chain'.where \notin row.cursor..job.end
      BY <1>2 DEF LogInv, Carries
    <2>1. ASSUME pc \in {"receipt"} \cup Checked, job.tx = "log"
          PROVE  /\ chain'.where \in row.cursor..job.end
                 /\ pc # "receipt" => Carries(chain', job.receipt)
      <3>1. /\ chain.where \in row.cursor..job.end
            /\ pc # "receipt" => Carries(chain, job.receipt)
        BY <2>1 DEF LogInv
      <3>2. chain.where \in 1..chain.final
        BY <1>3, <1>5, <2>1, <3>1 DEF SearchInv, Checked
      <3>3. Carries(chain, job.receipt) => job.receipt.block \in 1..chain.final
        BY <3>2 DEF Carries
      <3> QED BY <1>5, <3>1, <3>2, <3>3, GrowFacts
    <2>2. ASSUME pc = "save", chain'.where \in 1..chain'.final
          PROVE  chain'.where \notin row.cursor..job.end
      <3>1. CASE chain'.where <= chain.final
        BY <1>2, <1>3, <2>2, <3>1, GrowFacts DEF LogInv, TransferIsFinal
      <3>2. CASE chain'.where > chain.final
        BY <1>3, <1>5, <3>2 DEF SearchInv
      <3> QED BY <1>3, <3>1, <3>2
    <2> QED BY <1>2, <2>1, <2>2 DEF TransferIsFinal
  <1>9. NothingSkipped'
    <2> SUFFICES ASSUME ~endpoint.lagging, chain'.where \in 1..chain'.final,
                        origin \in 1..chain'.where
                 PROVE  row.cursor <= chain'.where \/ Proved
      BY <1>2 DEF NothingSkipped, TransferIsFinal, Proved, NoBlock
    <2>1. CASE chain'.where <= chain.final
      <3>1. chain.where = chain'.where
        BY <1>3, <2>1, GrowFacts
      <3> QED BY <1>3, <2>1, <3>1 DEF NothingSkipped, TransferIsFinal
    <2>2. CASE chain'.where > chain.final
      BY <1>3, <1>5, <2>2 DEF SearchInv
    <2> QED BY <1>3, <2>1, <2>2
  <1> QED BY <1>1, <1>4, <1>6, <1>7, <1>8, <1>9

-----------------------------------------------------------------------------
(* Steps that leave the world alone: what the next call, and the local      *)
(* variables it is made with, must satisfy.                                 *)
JobType == [tx: {"hint", "log"}, end: 0..MaxBlock, receipt: Receipt]

Fits(call, j) ==
  /\ call \in Calls /\ j \in JobType /\ j.end <= chain.final
  /\ call # "idle" => origin # 0
  /\ call \in Checked => j.receipt.block \in Blocks
  /\ call \in {"block", "transaction", "prove"} /\ OneBranch =>
       j.receipt.block <= chain.final
  /\ call = "prove" /\ OneBranch => Carries(chain, j.receipt)
  /\ ~endpoint.lagging =>
       /\ call \in {"receipt"} \cup Checked /\ j.tx = "log" =>
            /\ chain.where \in row.cursor..j.end
            /\ call # "receipt" => Carries(chain, j.receipt)
       /\ call = "save" /\ TransferIsFinal => chain.where \notin row.cursor..j.end

LEMMA WorldStays ==
  ASSUME IInv, UNCHANGED World, Fits(pc', job')
  PROVE  IInv'
  <1>1. UNCHANGED <<endpoint, chain, behind, asked, origin, row>>
    BY DEF World
  <1>2. TypeOK'
    BY <1>1 DEF IInv, TypeOK, Fits, JobType, Chain, Receipt
  <1>3. ChainInv' /\ NothingSkipped'
    BY <1>1 DEF IInv, ChainInv, WellFormed, OneBranch, NothingSkipped,
                TransferIsFinal, Proved, NoBlock
  <1>4. EvidenceInv'
    BY <1>1 DEF IInv, EvidenceInv, Fits, OneBranch, Carries, Proved, NoBlock, Blocks
  <1>5. SearchInv'
    BY <1>1 DEF IInv, SearchInv, Fits
  <1>6. LogInv'
    BY <1>1 DEF IInv, LogInv, Fits, Carries, TransferIsFinal
  <1> QED BY <1>2, <1>3, <1>4, <1>5, <1>6 DEF IInv

LEMMA NowFits == IInv => Fits(pc, job)
  BY DEF IInv, TypeOK, Fits, JobType, EvidenceInv, SearchInv, LogInv

LEMMA IdleFits == IInv => Fits("idle", NoJob)
  <1> SUFFICES ASSUME IInv PROVE Fits("idle", NoJob)
    OBVIOUS
  <1>1. NoJob \in JobType /\ NoJob.end = 0
    BY EndpointType, NoJobType DEF IInv, JobType
  <1>2. chain.final \in Nat
    BY DEF IInv, TypeOK, Chain, Blocks
  <1> QED BY <1>1, <1>2 DEF Fits, Calls, Checked

(* What a view says is so of what is final, unless branches are mixed.      *)
LEMMA ViewFacts ==
  ASSUME IInv, NEW v \in Views
  PROVE  /\ v \in Chain /\ WellFormed(v)
         /\ v.height \in Nat /\ v.final \in Nat /\ v.where \in Nat
         /\ chain.final \in Nat
         /\ v.final <= chain.final
         /\ ~endpoint.lagging => v = chain
         /\ OneBranch /\ v.where # 0 => v.where = chain.where
         /\ OneBranch => \A n \in Blocks : v.built[n] = chain.built[n]
  <1>1. v \in {chain, behind} /\ (~endpoint.lagging => v = chain)
    BY DEF Views
  <1>2. chain \in Chain /\ behind \in Chain /\ MaxBlock \in Nat
    BY ScanAssumption DEF IInv, TypeOK
  <1>3. /\ v \in Chain /\ WellFormed(v)
        /\ v.height \in Nat /\ v.final \in Nat /\ v.where \in Nat
        /\ chain.final \in Nat
    BY <1>1, <1>2, ChainFields DEF IInv, ChainInv, Blocks
  <1>4. v.final <= chain.final /\ (OneBranch /\ v.where # 0 => v.where = chain.where)
    BY <1>1, <1>3 DEF IInv, ChainInv, OneBranch
  <1>5. ASSUME OneBranch, NEW n \in Blocks
        PROVE  v.built[n] = chain.built[n]
    <2>1. CASE ~endpoint.lagging
      BY <1>1, <2>1
    <2>2. CASE endpoint.reorgs = 0
      <3>1. v.built[n] \in 0..0 /\ chain.built[n] \in 0..0
        BY <1>2, <1>3, <2>2, ChainFields
      <3> QED BY <3>1
    <2> QED BY <1>5, <2>1, <2>2 DEF OneBranch
  <1> QED BY <1>1, <1>3, <1>4, <1>5

(* A check of evidence() that fails: from a hint the search goes on, and    *)
(* with one node that of a log does not fail.                               *)
LEMMA NoEvidenceFits ==
  ASSUME IInv, pc \in {"receipt"} \cup Checked,
         ~endpoint.lagging => job.tx = "hint"
  PROVE  Fits(AfterNoEvidence, job)
  <1>1. Fits(pc, job) /\ pc # "idle"
    BY NowFits DEF Checked
  <1>2. AfterNoEvidence \in {"head", "save"}
          /\ (~endpoint.lagging => AfterNoEvidence = "head")
    BY DEF AfterNoEvidence
  <1> QED BY <1>1, <1>2 DEF Fits, Calls, Checked

LEMMA AskReceiptKeeps == IInv /\ AskReceipt => IInv'
  <1> SUFFICES ASSUME IInv, AskReceipt PROVE IInv'
    OBVIOUS
  <1>1. PICK v \in Views :
          IF Known(v)
            THEN /\ pc' = "finalized"
                 /\ job' = [job EXCEPT !.receipt = [block |-> v.where,
                                                    hash |-> v.built[v.where]]]
            ELSE pc' = AfterNoEvidence /\ UNCHANGED job
    BY DEF AskReceipt
  <1>2. pc = "receipt" /\ UNCHANGED World
    BY DEF AskReceipt
  <1>3. Fits(pc, job)
    BY NowFits
  <1>4. CASE Known(v)
    <2> DEFINE found == [block |-> v.where, hash |-> v.built[v.where]]
    <2>1. v.where \in Blocks /\ v.where \in 0..MaxBlock
      BY <1>4, ViewFacts, ScanAssumption, ChainFields DEF Known, Blocks
    <2>2. v.built[v.where] \in 0..endpoint.reorgs
      BY <2>1, ViewFacts, ChainFields
    <2>3. found \in Receipt /\ found.block = v.where /\ found.hash = v.built[v.where]
      BY <2>1, <2>2, ReceiptFields
    <2> HIDE DEF found
    <2>4. /\ job' \in JobType /\ job'.receipt = found
          /\ job'.end = job.end /\ job'.tx = job.tx /\ pc' = "finalized"
      BY <1>1, <1>3, <1>4, <2>3 DEF Fits, JobType, found
    <2>5. ~endpoint.lagging => Carries(chain, found)
      BY <2>3, ViewFacts DEF Carries
    <2>6. Fits(pc', job')
      BY <1>2, <1>3, <2>1, <2>3, <2>4, <2>5 DEF Fits, Calls, Checked
    <2> QED BY <1>2, <2>6, WorldStays
  <1>5. CASE ~Known(v)
    <2>1. ~endpoint.lagging => job.tx = "hint"
      <3> SUFFICES ASSUME ~endpoint.lagging, job.tx # "hint" PROVE FALSE
        OBVIOUS
      <3>1. chain.where \in row.cursor..job.end /\ v = chain
        BY <1>2, <1>3, ViewFacts DEF Fits, JobType
      <3>2. row.cursor >= 1 /\ row.cursor \in Nat
        BY <1>2, ScanAssumption DEF IInv, SearchInv, TypeOK
      <3> QED BY <1>3, <1>5, <3>1, <3>2 DEF Known, Fits, JobType
    <2>2. Fits(pc', job')
      BY <1>1, <1>2, <1>5, <2>1, NoEvidenceFits
    <2> QED BY <1>2, <2>2, WorldStays
  <1> QED BY <1>4, <1>5

LEMMA CheckKeeps ==
  ASSUME IInv, NEW call \in Checked, NEW matches \in BOOLEAN, NEW next,
         Check(call, matches, next),
         matches => Fits(next, job),
         ~matches /\ ~endpoint.lagging => job.tx = "hint"
  PROVE  IInv'
  <1>1. pc = call /\ UNCHANGED <<World, job>>
    BY DEF Check
  <1>2. CASE matches
    BY <1>1, <1>2, WorldStays DEF Check
  <1>3. CASE ~matches
    BY <1>1, <1>3, NoEvidenceFits, WorldStays DEF Check
  <1> QED BY <1>2, <1>3

(* With one node, what the log's receipt says is so when it is checked.     *)
LEMMA LogEvidence ==
  ASSUME IInv, pc \in Checked, ~endpoint.lagging, job.tx = "log"
  PROVE  /\ Carries(chain, job.receipt)
         /\ job.receipt.block <= chain.final /\ job.receipt.block <= chain.height
  <1>1. /\ Carries(chain, job.receipt)
        /\ chain.where \in row.cursor..job.end /\ job.end <= chain.final
    BY NowFits DEF Fits, Checked
  <1>2. /\ chain.final \in Nat /\ chain.height \in Nat /\ chain.where \in Nat
        /\ chain.final <= chain.height
    BY ScanAssumption, ChainFields DEF IInv, TypeOK, ChainInv, WellFormed, Blocks
  <1>3. row.cursor \in Nat /\ job.end \in Nat
    BY ScanAssumption DEF IInv, TypeOK
  <1> QED BY <1>1, <1>2, <1>3 DEF Carries

LEMMA AskFinalizedKeeps == IInv /\ AskFinalized => IInv'
  <1> SUFFICES ASSUME IInv, NEW v \in Views,
                      Check("finalized", ReceiptIsFinal(v), "block")
               PROVE  IInv'
    BY DEF AskFinalized
  <1>1. pc = "finalized" /\ Fits(pc, job)
    BY NowFits DEF Check
  <1>2. job.receipt.block \in Nat
    BY <1>1, ScanAssumption DEF Fits, Checked, Blocks
  <1>3. ReceiptIsFinal(v) => Fits("block", job)
    BY <1>1, <1>2, ViewFacts DEF ReceiptIsFinal, Fits, Checked, Calls
  <1>4. ~ReceiptIsFinal(v) /\ ~endpoint.lagging => job.tx # "log"
    BY <1>1, ViewFacts, LogEvidence DEF ReceiptIsFinal, Checked
  <1>5. job.tx \in {"hint", "log"}
    BY <1>1 DEF Fits, JobType
  <1>6. ReceiptIsFinal(v) \in BOOLEAN /\ "finalized" \in Checked
    BY DEF ReceiptIsFinal, Checked
  <1> QED BY <1>3, <1>4, <1>5, <1>6, CheckKeeps

LEMMA AskBlockKeeps == IInv /\ AskBlock => IInv'
  <1> SUFFICES ASSUME IInv, NEW v \in Views,
                      Check("block", BlockMatches(v), "transaction")
               PROVE  IInv'
    BY DEF AskBlock
  <1>1. pc = "block" /\ Fits(pc, job)
    BY NowFits DEF Check
  <1>2. Fits("transaction", job)
    BY <1>1 DEF Fits, Checked, Calls
  <1>3. ~BlockMatches(v) /\ ~endpoint.lagging => job.tx # "log"
    BY <1>1, ViewFacts, LogEvidence DEF BlockMatches, Carries, Checked
  <1>4. job.tx \in {"hint", "log"}
    BY <1>1 DEF Fits, JobType
  <1> QED BY <1>2, <1>3, <1>4, CheckKeeps DEF BlockMatches, Checked

LEMMA AskTransactionKeeps == IInv /\ AskTransaction => IInv'
  <1> SUFFICES ASSUME IInv, NEW v \in Views,
                      Check("transaction", TransactionMatches(v), "prove")
               PROVE  IInv'
    BY DEF AskTransaction
  <1>1. pc = "transaction" /\ Fits(pc, job)
    BY NowFits DEF Check
  <1>2. job.receipt.block \in Blocks /\ job.receipt.block # 0
    BY <1>1 DEF Fits, Checked, Blocks
  <1>3. TransactionMatches(v) /\ OneBranch => Carries(chain, job.receipt)
    BY <1>2, ViewFacts DEF TransactionMatches, BlockMatches, Carries
  <1>4. TransactionMatches(v) => Fits("prove", job)
    BY <1>1, <1>3 DEF Fits, Checked, Calls
  <1>5. ~TransactionMatches(v) /\ ~endpoint.lagging => job.tx # "log"
    BY <1>1, ViewFacts, LogEvidence
    DEF TransactionMatches, BlockMatches, Carries, Checked
  <1>6. job.tx \in {"hint", "log"}
    BY <1>1 DEF Fits, JobType
  <1> QED BY <1>4, <1>5, <1>6, CheckKeeps
          DEF TransactionMatches, BlockMatches, Checked

(* The search.                                                              *)
LEMMA EndFacts ==
  ASSUME IInv, NEW v \in Views, row.cursor <= End(v)
  PROVE  End(v) \in 0..MaxBlock /\ End(v) <= chain.final
  <1>1. row.cursor \in Nat /\ Window \in Nat \ {0} /\ MaxBlock \in Nat
    BY ScanAssumption DEF IInv, TypeOK
  <1>2. v.final \in 0..MaxBlock
    BY <1>1, ViewFacts, ChainFields DEF Blocks
  <1>3. End(v) \in Nat /\ End(v) <= v.final
    BY <1>1, <1>2 DEF End
  <1> QED BY <1>1, <1>2, <1>3, ViewFacts

LEMMA AskHeadKeeps == IInv /\ AskHead => IInv'
  <1> SUFFICES ASSUME IInv, AskHead PROVE IInv'
    OBVIOUS
  <1>1. PICK v \in Views :
          IF row.cursor <= End(v)
            THEN pc' = "logs" /\ job' = [NoJob EXCEPT !.end = End(v)]
            ELSE pc' = "idle" /\ job' = NoJob
    BY DEF AskHead
  <1>2. pc = "head" /\ UNCHANGED World
    BY DEF AskHead
  <1>3. CASE row.cursor <= End(v)
    <2>1. NoJob \in JobType
      BY EndpointType, NoJobType DEF IInv, JobType
    <2>2. job' \in JobType /\ job'.end = End(v)
      BY <1>1, <1>3, <2>1, EndFacts DEF JobType
    <2>3. origin # 0
      BY <1>2 DEF IInv, SearchInv
    <2>4. Fits(pc', job')
      BY <1>1, <1>3, <2>2, <2>3, EndFacts DEF Fits, Checked, Calls
    <2> QED BY <1>2, <2>4, WorldStays
  <1>4. CASE ~(row.cursor <= End(v))
    BY <1>1, <1>2, <1>4, IdleFits, WorldStays
  <1> QED BY <1>3, <1>4

LEMMA AskLogsKeeps == IInv /\ AskLogs => IInv'
  <1> SUFFICES ASSUME IInv, AskLogs PROVE IInv'
    OBVIOUS
  <1>1. PICK v \in Views :
          /\ job.end <= v.height
          /\ pc' = IF v.where \in row.cursor..job.end THEN "receipt" ELSE "save"
    BY DEF AskLogs
  <1>2. pc = "logs" /\ UNCHANGED World /\ job' = job
    BY DEF AskLogs
  <1>3. Fits(pc, job) /\ (~endpoint.lagging => v = chain)
    BY NowFits, ViewFacts
  <1>4. Fits(pc', job')
    BY <1>1, <1>2, <1>3 DEF Fits, Checked, Calls
  <1> QED BY <1>2, <1>4, WorldStays

LEMMA StartKeeps == IInv /\ Start => IInv'
  <1> SUFFICES ASSUME IInv, Start PROVE IInv'
    OBVIOUS
  <1>1. /\ pc' = IF row.hint = "none" THEN "head" ELSE "receipt"
        /\ job' = [NoJob EXCEPT !.tx = IF row.hint = "none" THEN "log" ELSE "hint"]
        /\ origin # 0 /\ UNCHANGED World
    BY DEF Start, World
  <1>2. Fits("idle", NoJob)
    BY IdleFits
  <1>3. /\ job' \in JobType /\ job'.end = NoJob.end
        /\ pc' = "receipt" => job'.tx = "hint"
        /\ pc' \in {"head", "receipt"}
    BY <1>1, <1>2 DEF Fits, JobType
  <1>4. Fits(pc', job')
    BY <1>1, <1>2, <1>3 DEF Fits, Checked, Calls
  <1> QED BY <1>1, <1>4, WorldStays

LEMMA AbortKeeps == IInv /\ Abort => IInv'
  BY IdleFits, WorldStays DEF Abort

-----------------------------------------------------------------------------
(* Steps that change the row, or the view of a node that is behind.         *)
LEMMA SaveCursorKeeps == IInv /\ SaveCursor => IInv'
  <1> SUFFICES ASSUME IInv, SaveCursor PROVE IInv'
    OBVIOUS
  <1>1. /\ pc = "save" /\ pc' = "idle" /\ job' = NoJob
        /\ row' = [row EXCEPT !.cursor = job.end + 1]
        /\ UNCHANGED <<endpoint, chain, behind, asked, origin>>
    BY DEF SaveCursor
  <1>2. /\ job.end \in 0..MaxBlock /\ MaxBlock \in Nat /\ row.cursor \in Nat
        /\ chain.where \in Nat /\ chain.final \in Nat
    BY ScanAssumption, ChainFields DEF IInv, TypeOK, Blocks
  <1>3. /\ row' \in [cursor: 0..(MaxBlock + 1), hint: TxHints, proof: Receipt]
        /\ row'.cursor = job.end + 1 /\ row'.proof = row.proof
    BY <1>1, <1>2 DEF IInv, TypeOK
  <1>4. Fits("idle", NoJob) /\ Fits(pc, job)
    BY IdleFits, NowFits
  <1>5. TypeOK'
    BY <1>1, <1>3, <1>4 DEF IInv, TypeOK, Fits, JobType, Chain, Receipt
  <1>6. ChainInv' /\ EvidenceInv'
    BY <1>1, <1>3
    DEF IInv, ChainInv, WellFormed, OneBranch, EvidenceInv, Checked, Carries,
        Proved, NoBlock
  <1>7. SearchInv'
    BY <1>1, <1>2, <1>3, <1>4 DEF SearchInv, Fits
  <1>8. LogInv'
    BY <1>1 DEF LogInv, Checked
  <1>9. NothingSkipped'
    <2> SUFFICES ASSUME ~endpoint.lagging, TransferIsFinal,
                        origin \in 1..chain.where, ~Proved
                 PROVE  job.end + 1 <= chain.where
      BY <1>1, <1>3 DEF NothingSkipped, TransferIsFinal, Proved, NoBlock
    <2>1. row.cursor <= chain.where
      BY DEF IInv, NothingSkipped
    <2>2. chain.where \notin row.cursor..job.end
      BY <1>1, <1>4 DEF Fits
    <2> QED BY <1>2, <2>1, <2>2
  <1> QED BY <1>5, <1>6, <1>7, <1>8, <1>9 DEF IInv

LEMMA SaveProofKeeps == IInv /\ SaveProof => IInv'
  <1> SUFFICES ASSUME IInv, SaveProof PROVE IInv'
    OBVIOUS
  <1>1. /\ pc = "prove" /\ pc' = "idle" /\ job' = NoJob
        /\ row' = [row EXCEPT !.proof = job.receipt]
        /\ UNCHANGED <<endpoint, chain, behind, asked, origin>>
    BY DEF SaveProof
  <1>2. Fits("idle", NoJob) /\ Fits(pc, job)
    BY IdleFits, NowFits
  <1>3. /\ row' \in [cursor: 0..(MaxBlock + 1), hint: TxHints, proof: Receipt]
        /\ row'.cursor = row.cursor /\ row'.proof = job.receipt
    BY <1>1, <1>2 DEF IInv, TypeOK, Fits, JobType
  <1>4. TypeOK'
    BY <1>1, <1>2, <1>3 DEF IInv, TypeOK, Fits, JobType, Chain, Receipt
  <1>5. job.receipt.block \in Nat \ {0}
    BY <1>1, <1>2, ScanAssumption DEF Fits, Checked, Blocks
  <1>6. chain.final \in Nat
    BY DEF IInv, TypeOK, Chain, Blocks
  <1>7. ChainInv'
    BY <1>1 DEF IInv, ChainInv, WellFormed, OneBranch
  <1>8. EvidenceInv'
    <2>1. OneBranch => job.receipt.block <= chain.final /\ Carries(chain, job.receipt)
      BY <1>1, <1>2 DEF Fits
    <2> QED BY <1>1, <1>3, <1>5, <1>6, <2>1 DEF EvidenceInv, Checked, Carries, OneBranch
  <1>9. SearchInv' /\ LogInv'
    BY <1>1, <1>2, <1>3 DEF IInv, SearchInv, LogInv, Fits, Checked
  <1>10. Proved'
    BY <1>3, <1>5 DEF Proved, NoBlock
  <1> QED BY <1>4, <1>7, <1>8, <1>9, <1>10 DEF IInv, NothingSkipped

LEMMA ReserveKeeps == IInv /\ Reserve => IInv'
  <1> SUFFICES ASSUME IInv, Reserve PROVE IInv'
    OBVIOUS
  <1>1. PICK v \in Views : origin' = v.height /\ row' = [row EXCEPT !.cursor = v.height]
    BY DEF Reserve
  <1>2. /\ pc = "idle" /\ UNCHANGED <<endpoint, chain, behind, asked, pc, job>>
    BY DEF Reserve, IInv, SearchInv
  <1>3. v.height \in Blocks /\ MaxBlock \in Nat
    BY ViewFacts, ChainFields, ScanAssumption
  <1>4. /\ row' \in [cursor: 0..(MaxBlock + 1), hint: TxHints, proof: Receipt]
        /\ row'.cursor = v.height /\ row'.proof = row.proof
    BY <1>1, <1>3 DEF IInv, TypeOK, Blocks
  <1>5. TypeOK'
    <2>1. origin' \in 0..MaxBlock
      BY <1>1, <1>3 DEF Blocks
    <2> QED BY <1>2, <1>4, <2>1 DEF IInv, TypeOK, Chain, Receipt
  <1>6. ChainInv' /\ EvidenceInv'
    BY <1>2, <1>4
    DEF IInv, ChainInv, WellFormed, OneBranch, EvidenceInv, Checked, Carries,
        Proved, NoBlock
  <1>7. SearchInv' /\ LogInv'
    BY <1>1, <1>2, <1>3, <1>4 DEF IInv, SearchInv, LogInv, Checked, Blocks
  <1>8. NothingSkipped'
    BY <1>1, <1>4 DEF NothingSkipped
  <1> QED BY <1>5, <1>6, <1>7, <1>8 DEF IInv

LEMMA SettleKeeps == IInv /\ Settle => IInv'
  <1> SUFFICES ASSUME IInv, Settle PROVE IInv'
    OBVIOUS
  <1>1. PICK hint \in TxHints : row' = [row EXCEPT !.hint = hint]
    BY DEF Settle
  <1>2. pc = "idle" /\ asked' = TRUE
          /\ UNCHANGED <<endpoint, chain, behind, origin, pc, job>>
    BY DEF Settle
  <1>3. /\ row' \in [cursor: 0..(MaxBlock + 1), hint: TxHints, proof: Receipt]
        /\ row'.cursor = row.cursor /\ row'.proof = row.proof
    BY <1>1 DEF IInv, TypeOK
  <1>4. TypeOK'
    BY <1>2, <1>3 DEF IInv, TypeOK, Chain, Receipt
  <1>5. ChainInv' /\ EvidenceInv' /\ SearchInv' /\ LogInv'
    BY <1>2, <1>3
    DEF IInv, ChainInv, WellFormed, OneBranch, EvidenceInv, SearchInv, LogInv,
        Checked, Carries, Proved, NoBlock
  <1>6. NothingSkipped'
    BY <1>2, <1>3 DEF IInv, NothingSkipped, TransferIsFinal, Proved, NoBlock
  <1> QED BY <1>4, <1>5, <1>6 DEF IInv

LEMMA CatchUpKeeps == IInv /\ CatchUp => IInv'
  <1> SUFFICES ASSUME IInv, CatchUp PROVE IInv'
    OBVIOUS
  <1>1. behind' = chain /\ UNCHANGED <<endpoint, chain, asked, origin, row, pc, job>>
    BY DEF CatchUp
  <1>2. TypeOK'
    BY <1>1 DEF IInv, TypeOK, Chain, Receipt
  <1>3. chain.final \in Nat
    BY DEF IInv, TypeOK, Chain, Blocks
  <1>4. ChainInv'
    BY <1>1, <1>3 DEF IInv, ChainInv, WellFormed, OneBranch
  <1>5. EvidenceInv' /\ SearchInv' /\ LogInv' /\ NothingSkipped'
    BY <1>1
    DEF IInv, EvidenceInv, SearchInv, LogInv, NothingSkipped, Checked, Carries,
        OneBranch, TransferIsFinal, Proved, NoBlock, Blocks
  <1> QED BY <1>2, <1>4, <1>5 DEF IInv

-----------------------------------------------------------------------------
LEMMA NextKeeps == IInv /\ [Next]_vars => IInv'
  <1> SUFFICES ASSUME IInv, [Next]_vars PROVE IInv'
    OBVIOUS
  <1>1. CASE UNCHANGED vars
    BY <1>1, NowFits, WorldStays DEF vars, World, Fits
  <1> QED
    BY <1>1, GrowKeeps, CatchUpKeeps, ReserveKeeps, SettleKeeps, StartKeeps,
       AskReceiptKeeps, AskFinalizedKeeps, AskBlockKeeps, AskTransactionKeeps,
       AskHeadKeeps, AskLogsKeeps, SaveCursorKeeps, SaveProofKeeps, AbortKeeps
    DEF Next, Evidence, Grow

THEOREM ScanInvariant == Spec => []IInv
  BY InitEstablishes, NextKeeps, PTL DEF Spec

(* The chain, the row and the local variables of reconcile() have the shape  *)
(* they should; in particular the cursor stays within one of the last block. *)
THEOREM ScanTypeCorrect == Spec => []TypeOK
  <1>1. IInv => TypeOK
    BY DEF IInv
  <1> QED BY <1>1, ScanInvariant, PTL

(* What evidence() proves is the transfer as it is in a final block, whatever*)
(* happens to the chain between its calls: with one node, and with several   *)
(* on a chain that is not reorganized.                                       *)
THEOREM ProvedIsFinal == Spec => [](OneBranch => EvidenceIsFinal)
  <1>1. ASSUME IInv, OneBranch PROVE EvidenceIsFinal
    <2> SUFFICES ASSUME Proved
                 PROVE  /\ TransferIsFinal
                        /\ row.proof = [block |-> chain.where,
                                        hash |-> chain.built[chain.where]]
      BY DEF EvidenceIsFinal
    <2>1. row.proof.block \in 1..chain.final /\ Carries(chain, row.proof)
      BY <1>1 DEF IInv, EvidenceInv
    <2>2. row.proof \in Receipt
      BY <1>1 DEF IInv, TypeOK
    <2> QED BY <2>1, <2>2 DEF Carries, TransferIsFinal, Receipt
  <1> QED BY <1>1, ScanInvariant, PTL

(* With one node the cursor never passes a final transfer that is not proved,*)
(* however the chain is reorganized and whichever call fails.                *)
THEOREM CursorSkipsNothing == Spec => []NothingSkipped
  <1>1. IInv => NothingSkipped
    BY DEF IInv
  <1> QED BY <1>1, ScanInvariant, PTL
=============================================================================
