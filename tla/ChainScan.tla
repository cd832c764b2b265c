------------------------------- MODULE ChainScan -------------------------------
(***************************************************************************)
(* How the rail finds a settlement again: EvmRail.reconcile and            *)
(* EvmRail.evidence (src/src/payment.mjs), one JSON-RPC call per step, and *)
(* the cursor progress() saves from them (src/src/service.mjs).            *)
(*                                                                         *)
(* The chain grows, is finalized and is reorganized between any two calls. *)
(* Behind a lagging endpoint are several nodes, and one that is behind may *)
(* answer any call: its answer is the chain as it was.                     *)
(* Settlement sees only the outcome of a whole reconcile(); only one       *)
(* worker at a time can save what it found (the fence of PurchaseStore),   *)
(* so one is enough here.                                                  *)
(***************************************************************************)
EXTENDS Naturals

CONSTANTS
  Window,      \* blocks searched by one eth_getLogs: 2000
  MaxBlock,    \* bound: the chain ends here
  Endpoints    \* the RPC endpoints one of which is configured: whether a
               \* node that is behind may answer, and (a bound) how many
               \* reorganizations its chain has

ASSUME ScanAssumption ==
  /\ Window \in Nat \ {0}
  /\ MaxBlock \in Nat \ {0}
  /\ Endpoints \subseteq [lagging: BOOLEAN, reorgs: Nat]
  /\ Endpoints # {}

VARIABLES
  endpoint, \* the one that is configured; it never changes
  chain,    \* the canonical chain
  behind,   \* the chain as a lagging node still has it
  asked,    \* settle() was called: the transfer may be broadcast
  origin,   \* observed_block of the row, 0 before the row is reserved
  row,      \* what the row keeps: scan_from, transaction_hint, settlement
  pc,       \* the RPC call reconcile() is at
  job       \* its local variables

vars == <<endpoint, chain, behind, asked, origin, row, pc, job>>

Blocks == 1..MaxBlock

(* `where' is the block of the transfer, 0 when there is none; `built'      *)
(* counts the reorganizations before a block was built, so that <<n, built>> *)
(* stands for the hash of block n.                                          *)
Chain == [height: Blocks, final: Blocks, where: 0..MaxBlock,
          built: [Blocks -> 0..endpoint.reorgs], reorgs: 0..endpoint.reorgs]

NoBlock == [block |-> 0, hash |-> 0]
Receipt == [block: 0..MaxBlock, hash: 0..endpoint.reorgs]

TxHints == {"none", "transfer", "other"}   \* "other" never carries it

Calls == {"idle", "receipt", "finalized", "block", "transaction", "head",
          "logs", "save", "prove"}

TypeOK ==
  /\ endpoint \in Endpoints
  /\ chain \in Chain /\ behind \in Chain
  /\ asked \in BOOLEAN
  /\ origin \in 0..MaxBlock
  /\ row \in [cursor: 0..(MaxBlock + 1), hint: TxHints, proof: Receipt]
  /\ pc \in Calls
  /\ job \in [tx: {"hint", "log"}, end: 0..MaxBlock, receipt: Receipt]

NoJob == [tx |-> "log", end |-> 0, receipt |-> NoBlock]

Init ==
  /\ endpoint \in Endpoints
  /\ chain = [height |-> 1, final |-> 1, where |-> 0,
              built |-> [n \in Blocks |-> 0], reorgs |-> 0]
  /\ behind = chain
  /\ asked = FALSE
  /\ origin = 0
  /\ row = [cursor |-> 0, hint |-> "none", proof |-> NoBlock]
  /\ pc = "idle"
  /\ job = NoJob

(* The chains an RPC call may be answered from. *)
Views == IF endpoint.lagging THEN {chain, behind} ELSE {chain}

Proved == row.proof # NoBlock

-----------------------------------------------------------------------------
(* The chain. The transfer is taken once, in some block after settle().     *)
Mine ==
  /\ chain.height < MaxBlock
  /\ \E where \in {chain.where, chain.height + 1} :
       /\ where # chain.where => asked /\ chain.where = 0
       /\ chain' = [chain EXCEPT
                      !.height = @ + 1,
                      !.where = where,
                      !.built[chain.height + 1] = chain.reorgs]
  /\ UNCHANGED <<endpoint, behind, asked, origin, row, pc, job>>

Finalize ==
  /\ \E n \in (chain.final + 1)..chain.height :
       chain' = [chain EXCEPT !.final = n]
  /\ UNCHANGED <<endpoint, behind, asked, origin, row, pc, job>>

(* Every block that is not final is replaced; the transfer may be in any of *)
(* the new ones, or back in the pool.                                       *)
Reorganize ==
  /\ chain.reorgs < endpoint.reorgs
  /\ chain.final < chain.height
  /\ \E where \in {0} \cup (chain.final + 1)..chain.height :
       /\ where # 0 => asked
       /\ chain' = [chain EXCEPT
                      !.where = IF @ \in 1..chain.final THEN @ ELSE where,
                      !.reorgs = @ + 1,
                      !.built = [n \in Blocks |-> IF n > chain.final
                                                    THEN chain.reorgs + 1
                                                    ELSE @[n]]]
  /\ UNCHANGED <<endpoint, behind, asked, origin, row, pc, job>>

CatchUp ==
  /\ endpoint.lagging
  /\ behind # chain
  /\ behind' = chain
  /\ UNCHANGED <<endpoint, chain, asked, origin, row, pc, job>>

-----------------------------------------------------------------------------
(* startBlock(), whose answer the reserved row keeps as observed_block: the *)
(* search begins there.                                                     *)
Reserve ==
  /\ origin = 0
  /\ \E v \in Views :
       /\ origin' = v.height
       /\ row' = [row EXCEPT !.cursor = v.height]
  /\ UNCHANGED <<endpoint, chain, behind, asked, pc, job>>

(* settle() between two reconciliations, and what its answer leaves behind. *)
Settle ==
  /\ origin # 0
  /\ pc = "idle"
  /\ row.hint = "none"
  /\ ~Proved
  /\ asked' = TRUE
  /\ \E hint \in TxHints : row' = [row EXCEPT !.hint = hint]
  /\ UNCHANGED <<endpoint, chain, behind, origin, pc, job>>

(* reconcile(): the hint first, if there is one. *)
Start ==
  /\ pc = "idle"
  /\ origin # 0
  /\ ~Proved
  /\ pc' = IF row.hint = "none" THEN "head" ELSE "receipt"
  /\ job' = [NoJob EXCEPT !.tx = IF row.hint = "none" THEN "log" ELSE "hint"]
  /\ UNCHANGED <<endpoint, chain, behind, asked, origin, row>>

World == <<endpoint, chain, behind, asked, origin, row>>

(* evidence() returned null: a hint leads on to the search, a log to the end *)
(* of it (one authorization, one nonce: there is no other log).              *)
AfterHintOnly ==    \* faulty: a hint without evidence ends the search
  IF job.tx = "hint" THEN "idle" ELSE "save"

AfterNoEvidence == IF job.tx = "hint" THEN "head" ELSE "save"

(* One call of evidence(): an answer that does not match ends it. *)
Check(call, matches, next) ==
  /\ pc = call
  /\ pc' = IF matches THEN next ELSE AfterNoEvidence
  /\ UNCHANGED <<World, job>>

(* eth_getTransactionReceipt *)
Known(v) == v.where # 0 /\ (job.tx = "hint" => row.hint = "transfer")

AskReceipt ==
  /\ pc = "receipt"
  /\ \E v \in Views :
       IF Known(v)
         THEN /\ pc' = "finalized"
              /\ job' = [job EXCEPT !.receipt = [block |-> v.where,
                                                 hash |-> v.built[v.where]]]
         ELSE pc' = AfterNoEvidence /\ UNCHANGED job
  /\ UNCHANGED World

(* eth_getBlockByNumber("finalized") *)
AnyBlock(v) == TRUE                   \* faulty: finality not awaited

ReceiptIsFinal(v) == job.receipt.block <= v.final

AskFinalized == \E v \in Views : Check("finalized", ReceiptIsFinal(v), "block")

(* eth_getBlockByNumber(receipt.blockNumber), compared by hash *)
BlockMatches(v) ==
  /\ job.receipt.block <= v.height
  /\ v.built[job.receipt.block] = job.receipt.hash

AskBlock == \E v \in Views : Check("block", BlockMatches(v), "transaction")

(* eth_getTransactionByHash, compared by block hash, call data and logs *)
TransactionMatches(v) == v.where = job.receipt.block /\ BlockMatches(v)

AskTransaction == \E v \in Views : Check("transaction", TransactionMatches(v), "prove")

(* eth_getBlockByNumber("finalized") once more: the end of the search *)
EndPastFinal(v) ==                    \* faulty: searches what is not final
  IF row.cursor + Window - 1 < v.height THEN row.cursor + Window - 1
                                        ELSE v.height

EndUnbounded(v) == row.cursor + Window - 1   \* faulty: no look at the head

End(v) == IF row.cursor + Window - 1 < v.final THEN row.cursor + Window - 1
                                               ELSE v.final

AskHead ==
  /\ pc = "head"
  /\ \E v \in Views :
       IF row.cursor <= End(v)
         THEN pc' = "logs" /\ job' = [NoJob EXCEPT !.end = End(v)]
         ELSE pc' = "idle" /\ job' = NoJob
  /\ UNCHANGED World

(* eth_getLogs from the cursor to the end; a node without that block refuses. *)
AskLogs ==
  /\ pc = "logs"
  /\ \E v \in Views :
       /\ job.end <= v.height
       /\ pc' = IF v.where \in row.cursor..job.end THEN "receipt" ELSE "save"
  /\ UNCHANGED <<World, job>>

(* progress() saves the cursor, or what was proved. *)
SaveCursor ==
  /\ pc = "save"
  /\ row' = [row EXCEPT !.cursor = job.end + 1]
  /\ pc' = "idle"
  /\ job' = NoJob
  /\ UNCHANGED <<endpoint, chain, behind, asked, origin>>

SaveProof ==
  /\ pc = "prove"
  /\ row' = [row EXCEPT !.proof = job.receipt]
  /\ pc' = "idle"
  /\ job' = NoJob
  /\ UNCHANGED <<endpoint, chain, behind, asked, origin>>

(* A call fails or times out, the lease is lost, the process dies. *)
Abort ==
  /\ pc # "idle"
  /\ pc' = "idle"
  /\ job' = NoJob
  /\ UNCHANGED World

Evidence == AskReceipt \/ AskFinalized \/ AskBlock \/ AskTransaction

Next ==
  \/ Mine \/ Finalize \/ Reorganize \/ CatchUp
  \/ Reserve \/ Settle \/ Start
  \/ Evidence \/ AskHead \/ AskLogs \/ SaveCursor \/ SaveProof \/ Abort

Spec == Init /\ [][Next]_vars

-----------------------------------------------------------------------------
TransferIsFinal == chain.where \in 1..chain.final

(* Whatever happens to the chain between the calls of evidence(), what it   *)
(* proves is the transfer as it is in a final block.                        *)
EvidenceIsFinal ==
  Proved => /\ TransferIsFinal
            /\ row.proof = [block |-> chain.where,
                            hash |-> chain.built[chain.where]]

(* With one node, the cursor never moves past a final transfer it has not   *)
(* proved, as long as the transfer is not below the origin of the search.   *)
NothingSkipped ==
  ~endpoint.lagging /\ TransferIsFinal /\ origin \in 1..chain.where =>
    row.cursor <= chain.where \/ Proved

(* payment.mjs:90, "Persist the returned cursor. Bound each HTTP run,       *)
(* rather than losing old history.": a final transfer can still be found,   *)
(* by the search or from the hint.                                          *)
StillFindable ==
  TransferIsFinal /\ origin \in 1..chain.where =>
    row.cursor <= chain.where \/ Proved \/ row.hint = "transfer"

(* Every call of a reconciliation is answered if it is repeated for ever;   *)
(* buyers repeat it (POST .../recover). Only the receipt of a hint and that *)
(* of a log must each be answered: the other one leads nowhere.             *)
Fairness ==
  /\ WF_vars(Start)
  /\ \A tx \in {"hint", "log"} : SF_vars(job.tx = tx /\ AskReceipt)
  /\ SF_vars(AskFinalized) /\ SF_vars(AskBlock) /\ SF_vars(AskTransaction)
  /\ SF_vars(AskHead) /\ SF_vars(AskLogs)
  /\ SF_vars(SaveCursor \/ SaveProof)

FairSpec == Spec /\ Fairness

(* With one node, a final transfer is proved in the end: from its hint, or   *)
(* window by window although the hint leads nowhere, whatever happened to    *)
(* the chain before it was final.                                            *)
FinalIsProved ==
  ~endpoint.lagging /\ TransferIsFinal /\ origin \in 1..chain.where ~> Proved
=============================================================================
