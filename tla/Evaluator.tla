------------------------------- MODULE Evaluator -------------------------------
(***************************************************************************)
(* The decision a purchase pays for: evaluate() of src/src/evaluator.mjs,  *)
(* and its replay by the independent verifier, assess() of                 *)
(* verify/verify_mark.py.                                                  *)
(*                                                                         *)
(* A submission names a root among its sources; a warrant says from which  *)
(* sources another one was made. The search from the root is the recursive *)
(* visit() of both programs, a call or a return per step, on an explicit   *)
(* stack; the order in which a warrant lists its sources is any. All other *)
(* rules read the submission only and are decided in one step. The visits  *)
(* and the rules of the two programs are translated apart.                 *)
(*                                                                         *)
(* What a source says of itself and its warrant about the passage is kept  *)
(* where one rule relates several of them; `sound' stands for the rules    *)
(* about one of them alone.                                                *)
(***************************************************************************)
EXTENDS Naturals, Sequences

CONSTANTS
  Hashes,      \* payload hashes, of submitted sources and of missing ones
  Operations,  \* OPERATIONS of the profile
  Qualifiers,
  Unknowns,    \* unknowns, each with the operations it blocks
  root,        \* object.root
  requested,   \* requested_operation
  Sources,     \* the payloads a source may have
  Grants       \* what a warrant may say beside its sources

Unknown == [id: Unknowns, blocks: SUBSET Operations]

Source == [operations: SUBSET Operations, qualifiers: SUBSET Qualifiers,
           unknowns: SUBSET Unknown, sound: BOOLEAN]

Grant == [operations: SUBSET Operations, sound: BOOLEAN]

ASSUME EvaluatorAssumption ==
  /\ Sources \subseteq Source
  /\ Grants \subseteq Grant
  /\ root \in Hashes
  /\ requested \in Operations

VARIABLES
  nodes,      \* the submitted sources by hash
  incoming,   \* the warrants by the hash of their target
  reader,     \* who decides now: the service, later the verifier
  pc,         \* where it is
  stack,      \* the calls of visit() that have not returned
  seen,       \* sources whose visit() has returned
  fault,      \* a cycle or a missing reference was found
  decision    \* what each reader decided

submission == <<nodes, incoming>>
vars == <<submission, reader, pc, stack, seen, fault, decision>>

Readers == {"service", "verifier"}
Decision == [established: BOOLEAN, permitted: SUBSET Operations]
Undecided == [established |-> FALSE, permitted |-> Operations]

Nodes == DOMAIN nodes
Targets == DOMAIN incoming

Parents(h) == IF h \in Targets THEN incoming[h].from ELSE {}

Frame == [node: Hashes, rest: SUBSET Hashes]

TypeOK ==
  /\ Nodes \subseteq Hashes /\ nodes \in [Nodes -> Sources]
  /\ Targets \subseteq Hashes
  /\ incoming \in [Targets -> [from: SUBSET Hashes, grant: Grants]]
  /\ reader \in Readers
  /\ pc \in {"visit", "search", "done"}
  /\ stack \in Seq(Frame)
  /\ seen \subseteq Nodes
  /\ fault \in BOOLEAN
  /\ decision \in [Readers -> Decision]

(* validateSubmission: at least one source, no two for one hash, at most one *)
(* warrant for a target and none without sources.                            *)
Init ==
  /\ \E N \in SUBSET Hashes, T \in SUBSET Hashes :
       /\ N # {}
       /\ nodes \in [N -> Sources]
       /\ incoming \in [T -> [from: SUBSET Hashes \ {{}}, grant: Grants]]
  /\ reader = "service"
  /\ pc = "visit"
  /\ stack = <<>>
  /\ seen = {}
  /\ fault = FALSE
  /\ decision = [r \in Readers |-> Undecided]

-----------------------------------------------------------------------------
(* visit(): a source on the stack closes a cycle, one that has returned is  *)
(* reached by a second way. The two programs ask in another order.           *)
Visiting == {stack[i].node : i \in 1..Len(stack)}

Calls(h, calls) ==
  stack' = Append(calls, [node |-> h, rest |-> Parents(h)]) /\ UNCHANGED fault

EvaluateVisit(h, calls) ==
  \/ h \in Visiting /\ stack' = calls /\ fault' = TRUE                 \* cycle
  \/ h \notin Visiting /\ h \in seen /\ stack' = calls /\ UNCHANGED fault
  \/ /\ h \notin Visiting \cup seen \cup Nodes                         \* broken
     /\ stack' = calls /\ fault' = TRUE
  \/ h \notin Visiting \cup seen /\ h \in Nodes /\ Calls(h, calls)

InvalidAgain(h) ==                       \* faulty: takes a diamond for a cycle
  h \in Visiting \cup seen \/ h \notin Nodes

Invalid(h) == h \in Visiting \/ h \notin Nodes

AssessVisit(h, calls) ==
  \/ Invalid(h) /\ stack' = calls /\ fault' = TRUE
  \/ ~Invalid(h) /\ h \in seen /\ stack' = calls /\ UNCHANGED fault
  \/ ~Invalid(h) /\ h \notin seen /\ Calls(h, calls)

VisitAgain(h, calls) ==                  \* faulty: goes on with what failed
  IF h \in seen THEN stack' = calls /\ UNCHANGED fault
  ELSE IF Invalid(h) THEN stack' = stack /\ fault' = TRUE
  ELSE Calls(h, calls)

Visit(h, calls) ==
  \/ reader = "service" /\ EvaluateVisit(h, calls)
  \/ reader = "verifier" /\ AssessVisit(h, calls)

Start ==
  /\ pc = "visit"
  /\ Visit(root, <<>>)
  /\ pc' = "search"
  /\ UNCHANGED <<submission, reader, seen, decision>>

Top == stack[Len(stack)]

Descend ==
  /\ pc = "search"
  /\ stack # <<>>
  /\ \E h \in Top.rest :
       Visit(h, [stack EXCEPT ![Len(stack)].rest = @ \ {h}])
  /\ UNCHANGED <<submission, reader, pc, seen, decision>>

Return ==
  /\ pc = "search"
  /\ stack # <<>>
  /\ Top.rest = {}
  /\ stack' = SubSeq(stack, 1, Len(stack) - 1)
  /\ seen' = seen \cup {Top.node}
  /\ UNCHANGED <<submission, reader, pc, fault, decision>>

-----------------------------------------------------------------------------
(* GRAPH_CLOSURE *)
GraphClosure == ~fault /\ seen = Nodes /\ Targets \subseteq Nodes

(* QUALIFIERS_PRESERVED, UNKNOWNS_PRESERVED and NO_FORCE_ESCALATION *)
PreservesOne(t) ==                       \* faulty: one parent is enough
  \E p \in incoming[t].from :
    /\ nodes[p].qualifiers \subseteq nodes[t].qualifiers
    /\ nodes[p].unknowns \subseteq nodes[t].unknowns
    /\ nodes[t].operations \subseteq nodes[p].operations

Preserves(t) ==
  \A p \in incoming[t].from :
    /\ nodes[p].qualifiers \subseteq nodes[t].qualifiers
    /\ nodes[p].unknowns \subseteq nodes[t].unknowns
    /\ nodes[t].operations \subseteq nodes[p].operations

Passes(t) ==
  /\ {t} \cup incoming[t].from \subseteq Nodes     \* TRANSITION_REFERENCES
  /\ incoming[t].grant.sound
  /\ Preserves(t)
  /\ nodes[t].operations \subseteq incoming[t].grant.operations

(* allOperations: what every source and every warrant grants and no unknown *)
(* blocks.                                                                   *)
Permitted ==
  {op \in Operations :
     /\ \A h \in Nodes : /\ op \in nodes[h].operations
                         /\ \A u \in nodes[h].unknowns : op \notin u.blocks
     /\ \A t \in Targets : op \in incoming[t].grant.operations}

Established(closure) ==
  /\ closure
  /\ root \in Nodes                                 \* SOURCE_IDENTITY
  /\ \A h \in Nodes : nodes[h].sound
  /\ \A t \in Targets : Passes(t)
  /\ requested \in Permitted

Judgement(closure) ==
  [established |-> Established(closure),
   permitted |-> IF Established(closure) THEN Permitted ELSE {}]

(* The verifier's rules: every passage against the one it was made from,    *)
(* statement by statement, and the operations taken away one by one.        *)
VerifierPasses(t) ==
  /\ t \in Nodes /\ incoming[t].from \subseteq Nodes
  /\ incoming[t].grant.sound
  /\ \A p \in incoming[t].from :
       /\ \A q \in nodes[p].qualifiers : q \in nodes[t].qualifiers
       /\ \A u \in nodes[p].unknowns : u \in nodes[t].unknowns
  /\ \A op \in nodes[t].operations :
       /\ op \in incoming[t].grant.operations
       /\ \A p \in incoming[t].from : op \in nodes[p].operations

Removed ==
  UNION ({Operations \ nodes[h].operations : h \in Nodes}
    \cup {UNION {u.blocks : u \in nodes[h].unknowns} : h \in Nodes}
    \cup {Operations \ incoming[t].grant.operations : t \in Targets})

Allowed == Operations \ Removed

Assessed(closure) ==
  /\ root \in Nodes /\ closure
  /\ \A h \in Nodes : nodes[h].sound
  /\ \A t \in Targets : VerifierPasses(t)
  /\ requested \in Allowed

Assessment(closure) ==
  [established |-> Assessed(closure),
   permitted |-> IF Assessed(closure) THEN Allowed ELSE {}]

(* The service decides; the verifier later reads the same submission anew.  *)
Decide ==
  /\ pc = "search"
  /\ stack = <<>>
  /\ decision' = [decision EXCEPT ![reader] =
                    IF reader = "service" THEN Judgement(GraphClosure)
                                          ELSE Assessment(GraphClosure)]
  /\ seen' = {}
  /\ fault' = FALSE
  /\ reader' = "verifier"
  /\ pc' = IF reader = "service" THEN "visit" ELSE "done"
  /\ UNCHANGED <<submission, stack>>

Done == pc = "done" /\ UNCHANGED vars

Next == Start \/ Descend \/ Return \/ Decide \/ Done

Spec == Init /\ [][Next]_vars /\ WF_vars(Start \/ Descend \/ Return \/ Decide)

-----------------------------------------------------------------------------
(* No set of sources each of which was made from another of them. *)
Acyclic ==
  \A S \in SUBSET Nodes : S # {} => \E h \in S : Parents(h) \cap S = {}

(* Only all sources together hold the root and what each was made from. *)
Connected ==
  \A S \in SUBSET Nodes :
    root \in S /\ (\A h \in S : Parents(h) \subseteq S) => S = Nodes

Closed ==
  /\ root \in Nodes
  /\ Targets \subseteq Nodes
  /\ \A h \in Nodes : Parents(h) \subseteq Nodes
  /\ Acyclic
  /\ Connected

(* evaluator.mjs:44, "Every submitted source must be connected to the root;  *)
(* cycles and missing references are forbidden": whatever order the search   *)
(* takes, both readers, each with its own program, decide as the service's   *)
(* rules do over the definition of a closed graph, and so alike              *)
(* (EVALUATION_REPLAY_MISMATCH of verify_mark.py never happens).             *)
DecisionIsExact ==
  \A r \in Readers :
    decision[r] # Undecided => decision[r] = Judgement(Closed)

(* The rules compare a source with those it was made from directly; what is  *)
(* established at the root carries the qualifiers and unknowns of all of     *)
(* them, however far, and claims no operation one of them does not.          *)
RootCarriesAll ==
  \A r \in Readers : decision[r].established =>
    \A h \in Nodes :
      /\ nodes[h].qualifiers \subseteq nodes[root].qualifiers
      /\ nodes[h].unknowns \subseteq nodes[root].unknowns
      /\ nodes[root].operations \subseteq nodes[h].operations

(* "Pure, bounded evaluator": the search ends on every graph, cycles and     *)
(* shared sources included.                                                  *)
Terminates == <>(pc = "done")
=============================================================================
