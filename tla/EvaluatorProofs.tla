---------------------------- MODULE EvaluatorProofs ----------------------------
(***************************************************************************)
(* Proofs about Evaluator, for any number of sources and warrants.         *)
(*                                                                         *)
(* The search is right because of what holds between two of its calls: the *)
(* stack is a path of the graph, so that a source found on it closes a     *)
(* cycle (StackInv); and as long as nothing failed, the parents of what    *)
(* has returned have returned, the parents of what is on the stack are     *)
(* still to be visited or have returned, and what has returned is acyclic  *)
(* (FaultlessInv). At the end the stack is empty.                          *)
(***************************************************************************)
EXTENDS Evaluator, TLAPS, SequenceTheorems

ClosedUpwards(S) == root \in S /\ \A h \in S : Parents(h) \subseteq S

StackInv ==
  /\ \A i \in 1..Len(stack) :
       /\ stack[i].node \in Nodes \ seen
       /\ stack[i].rest \subseteq Parents(stack[i].node)
  /\ \A i \in 1..(Len(stack) - 1) :
       stack[i + 1].node \in Parents(stack[i].node)
  /\ \A i, j \in 1..Len(stack) : stack[i].node = stack[j].node => i = j

(* What was visited, was visited because the root leads there. *)
ReachedInv ==
  \A S \in SUBSET Nodes : ClosedUpwards(S) => seen \cup Visiting \subseteq S

AcyclicIn(T) ==
  \A S \in SUBSET T : S # {} => \E h \in S : Parents(h) \cap S = {}

Called(i) == IF i < Len(stack) THEN {stack[i + 1].node} ELSE {}

FaultlessInv ==
  /\ \A h \in seen : Parents(h) \subseteq seen
  /\ \A i \in 1..Len(stack) :
       Parents(stack[i].node) \subseteq seen \cup stack[i].rest \cup Called(i)
  /\ AcyclicIn(seen)
  /\ pc = "search" => root \in seen \cup Visiting

SearchInv ==
  /\ pc # "search" => stack = <<>> /\ seen = {} /\ ~fault
  /\ fault => ~Closed
  /\ ~fault => FaultlessInv

IInv == TypeOK /\ StackInv /\ ReachedInv /\ SearchInv /\ DecisionIsExact

-----------------------------------------------------------------------------
(* At the end of a search that obeys the invariant, GRAPH_CLOSURE is closure *)
(* by its definition.                                                        *)
LEMMA ClosureIsExact ==
  ASSUME IInv, pc = "search", stack = <<>>
  PROVE  GraphClosure <=> Closed
  <1>1. Visiting = {}
    BY DEF Visiting
  <1>2. seen \subseteq Nodes
    BY DEF IInv, TypeOK
  <1>3. ASSUME GraphClosure PROVE Closed
    <2>1. /\ ~fault /\ seen = Nodes /\ Targets \subseteq Nodes /\ FaultlessInv
      BY <1>3 DEF GraphClosure, IInv, SearchInv
    <2>2. root \in Nodes /\ \A h \in Nodes : Parents(h) \subseteq Nodes
      BY <1>1, <2>1 DEF FaultlessInv
    <2>3. Acyclic
      BY <2>1 DEF FaultlessInv, AcyclicIn, Acyclic
    <2>4. Connected
      BY <1>2, <2>1 DEF Connected, IInv, ReachedInv, ClosedUpwards
    <2> QED BY <2>1, <2>2, <2>3, <2>4 DEF Closed
  <1>4. ASSUME Closed PROVE GraphClosure
    <2>1. ~fault /\ FaultlessInv
      BY <1>4 DEF IInv, SearchInv
    <2>2. root \in seen /\ \A h \in seen : Parents(h) \subseteq seen
      BY <1>1, <2>1 DEF FaultlessInv
    <2>3. seen = Nodes
      BY <1>2, <1>4, <2>2 DEF Closed, Connected
    <2> QED BY <1>4, <2>1, <2>3 DEF GraphClosure, Closed
  <1> QED BY <1>3, <1>4

(* The root carries all by transitivity: the sources it carries everything   *)
(* of hold the root and their parents, and only all sources together do.     *)
LEMMA EstablishedCarriesAll ==
  ASSUME Established(Closed)
  PROVE  \A h \in Nodes :
           /\ nodes[h].qualifiers \subseteq nodes[root].qualifiers
           /\ nodes[h].unknowns \subseteq nodes[root].unknowns
           /\ nodes[root].operations \subseteq nodes[h].operations
  <1> DEFINE Carried ==
        {h \in Nodes :
           /\ nodes[h].qualifiers \subseteq nodes[root].qualifiers
           /\ nodes[h].unknowns \subseteq nodes[root].unknowns
           /\ nodes[root].operations \subseteq nodes[h].operations}
  <1>1. root \in Carried
    BY DEF Established
  <1>2. ASSUME NEW h \in Carried, NEW p \in Parents(h)
        PROVE  p \in Carried
    <2>1. h \in Targets /\ p \in incoming[h].from
      BY DEF Parents
    <2>2. Passes(h)
      BY <2>1 DEF Established
    <2>3. /\ p \in Nodes
          /\ nodes[p].qualifiers \subseteq nodes[h].qualifiers
          /\ nodes[p].unknowns \subseteq nodes[h].unknowns
          /\ nodes[h].operations \subseteq nodes[p].operations
      BY <2>1, <2>2 DEF Passes, Preserves
    <2> QED BY <2>3
  <1>3. Carried = Nodes
    BY <1>1, <1>2 DEF Established, Closed, Connected
  <1> QED BY <1>3

-----------------------------------------------------------------------------
(* A source that is found on the stack closes a cycle, one that was not      *)
(* submitted is a missing reference.                                         *)
LEMMA FailureIsReal ==
  ASSUME IInv, stack # <<>>, NEW h \in Top.rest, Invalid(h)
  PROVE  ~Closed
  <1>1. /\ Len(stack) \in Nat \ {0}
        /\ Top.node \in Nodes /\ h \in Parents(Top.node)
    BY DEF IInv, TypeOK, StackInv, Top
  <1>2. CASE h \notin Nodes
    BY <1>1, <1>2 DEF Closed
  <1>3. CASE h \in Visiting
    <2>1. PICK k \in 1..Len(stack) : stack[k].node = h
      BY <1>3 DEF Visiting
    <2> DEFINE Cycle == {stack[i].node : i \in k..Len(stack)}
    <2>2. Cycle \subseteq Nodes /\ h \in Cycle
      BY <1>1, <2>1 DEF IInv, StackInv
    <2>3. ASSUME NEW g \in Cycle PROVE Parents(g) \cap Cycle # {}
      <3>1. PICK i \in k..Len(stack) : stack[i].node = g
        OBVIOUS
      <3>2. CASE i = Len(stack)
        BY <1>1, <2>2, <3>1, <3>2 DEF Top
      <3>3. CASE i < Len(stack)
        <4>1. i + 1 \in k..Len(stack) /\ i \in 1..(Len(stack) - 1)
          BY <1>1, <3>3
        <4>2. stack[i + 1].node \in Parents(g) /\ stack[i + 1].node \in Cycle
          BY <3>1, <4>1 DEF IInv, StackInv
        <4> QED BY <4>2
      <3> QED BY <1>1, <3>1, <3>2, <3>3
    <2> QED BY <2>2, <2>3 DEF Closed, Acyclic
  <1> QED BY <1>2, <1>3 DEF Invalid

(* No step of the search changes the submission, nor what is said of it. *)
LEMMA SubmissionStays ==
  ASSUME UNCHANGED submission
  PROVE  /\ Nodes' = Nodes /\ Targets' = Targets
         /\ \A h : Parents(h)' = Parents(h)
         /\ Closed' <=> Closed
         /\ Judgement(Closed)' = Judgement(Closed)
  <1>1. /\ nodes' = nodes /\ incoming' = incoming
        /\ Nodes' = Nodes /\ Targets' = Targets
        /\ \A h : Parents(h)' = Parents(h)
    BY DEF submission, Nodes, Targets, Parents
  <1>2. Closed' <=> Closed
    BY <1>1 DEF Closed, Acyclic, Connected
  <1>3. Permitted' = Permitted
    BY <1>1 DEF Permitted
  <1>4. \A t : Passes(t)' <=> Passes(t)
    BY <1>1 DEF Passes, Preserves
  <1>5. Established(Closed)' <=> Established(Closed)
    BY <1>1, <1>2, <1>3, <1>4 DEF Established
  <1>6. Judgement(Closed)' = Judgement(Closed)
    <2>1. Established(Closed) \in BOOLEAN /\ Established(Closed)' \in BOOLEAN
      BY DEF Established
    <2> QED BY <1>3, <1>5, <2>1 DEF Judgement
  <1> QED BY <1>1, <1>2, <1>6

LEMMA DecisionsStay ==
  ASSUME IInv, UNCHANGED <<submission, decision>>
  PROVE  DecisionIsExact'
  <1>1. decision' = decision /\ Judgement(Closed)' = Judgement(Closed)
    BY SubmissionStays
  <1> QED BY <1>1 DEF IInv, DecisionIsExact

LEMMA InitEstablishes == Init => IInv
  <1> SUFFICES ASSUME Init PROVE IInv
    OBVIOUS
  <1>1. TypeOK
    <2>1. PICK N \in SUBSET Hashes, T \in SUBSET Hashes :
            /\ nodes \in [N -> Sources]
            /\ incoming \in [T -> [from: SUBSET Hashes \ {{}}, grant: Grants]]
      BY DEF Init
    <2>2. Nodes = N /\ Targets = T
      BY <2>1 DEF Nodes, Targets
    <2>3. incoming \in [T -> [from: SUBSET Hashes, grant: Grants]]
      BY <2>1
    <2>4. Undecided \in Decision
      BY DEF Undecided, Decision
    <2>5. stack \in Seq(Frame)
      BY DEF Init
    <2> QED BY <2>1, <2>2, <2>3, <2>4, <2>5 DEF Init, TypeOK, Readers
  <1>2. StackInv /\ ReachedInv /\ SearchInv
    <2>1. stack = <<>> /\ Len(stack) = 0 /\ seen = {} /\ Visiting = {}
          /\ ~fault /\ pc = "visit"
      BY DEF Init, Visiting
    <2> QED BY <2>1 DEF StackInv, ReachedInv, SearchInv, FaultlessInv,
                        AcyclicIn
  <1>3. DecisionIsExact
    BY DEF Init, DecisionIsExact
  <1> QED BY <1>1, <1>2, <1>3 DEF IInv

(* Both programs' visit() comes to the same, though each asks in its order. *)
LEMMA VisitOutcome ==
  ASSUME IInv, NEW h, NEW calls, Visit(h, calls)
  PROVE  \/ Invalid(h) /\ stack' = calls /\ fault' = TRUE
         \/ h \in seen /\ stack' = calls /\ fault' = fault
         \/ /\ ~Invalid(h) /\ h \notin seen
            /\ stack' = Append(calls, [node |-> h, rest |-> Parents(h)])
            /\ fault' = fault
  BY DEF Visit, EvaluateVisit, AssessVisit, Calls, Invalid

LEMMA StartPreserves == IInv /\ Start => IInv'
  <1> SUFFICES ASSUME IInv, Start PROVE IInv'
    OBVIOUS
  <1>1. /\ UNCHANGED <<submission, reader, seen, decision>>
        /\ pc' = "search" /\ seen = {} /\ stack = <<>> /\ ~fault
        /\ Visiting = {} /\ Visit(root, <<>>) /\ root \in Hashes
    BY EvaluatorAssumption DEF Start, IInv, SearchInv, Visiting
  <1>2. /\ Nodes' = Nodes /\ Targets' = Targets /\ (Closed' <=> Closed)
        /\ \A h : Parents(h)' = Parents(h)
        /\ nodes' = nodes /\ incoming' = incoming
    BY <1>1, SubmissionStays DEF submission
  <1>3. DecisionIsExact'
    BY <1>1, DecisionsStay
  <1>6. \/ root \notin Nodes /\ stack' = <<>> /\ fault' = TRUE
        \/ /\ root \in Nodes
           /\ stack' = Append(<<>>, [node |-> root, rest |-> Parents(root)])
           /\ fault' = fault
    <2>1. Invalid(root) <=> root \notin Nodes
      BY <1>1 DEF Invalid
    <2> QED BY <1>1, <2>1, VisitOutcome
  <1>4. CASE root \notin Nodes
    <2>1. fault' /\ stack' = <<>> /\ Visiting' = {}
      BY <1>4, <1>6 DEF Visiting
    <2>2. TypeOK'
      BY <1>1, <1>2, <2>1 DEF IInv, TypeOK
    <2>3. StackInv' /\ ReachedInv' /\ SearchInv'
      BY <1>1, <1>2, <1>4, <2>1 DEF StackInv, ReachedInv, SearchInv, Closed
    <2> QED BY <1>3, <2>2, <2>3 DEF IInv
  <1>5. CASE root \in Nodes
    <2> DEFINE frame == [node |-> root, rest |-> Parents(root)]
    <2>1. fault' = FALSE /\ stack' = <<frame>>
      BY <1>1, <1>5, <1>6 DEF IInv, TypeOK
    <2>2. Parents(root) \subseteq Hashes
      BY DEF IInv, TypeOK, Parents
    <2>3. frame \in Frame
      BY <1>1, <2>2 DEF Frame
    <2>4. /\ Len(stack') = 1 /\ stack'[1].node = root
          /\ stack'[1].rest = Parents(root) /\ stack' \in Seq(Frame)
      BY <2>1, <2>3
    <2>5. Visiting' = {root}
      BY <2>4 DEF Visiting
    <2>6. TypeOK'
      BY <1>1, <1>2, <2>1, <2>4 DEF IInv, TypeOK
    <2>7. StackInv'
      BY <1>1, <1>2, <1>5, <2>4 DEF StackInv
    <2>8. ReachedInv'
      <3> SUFFICES ASSUME NEW S \in SUBSET Nodes', ClosedUpwards(S)'
                   PROVE  (seen \cup Visiting)' \subseteq S
        BY DEF ReachedInv
      <3>1. root \in S
        BY DEF ClosedUpwards
      <3> QED BY <1>1, <2>5, <3>1
    <2>9. SearchInv'
      BY <1>1, <1>2, <2>1, <2>4, <2>5
      DEF SearchInv, FaultlessInv, AcyclicIn
    <2> QED BY <1>3, <2>6, <2>7, <2>8, <2>9 DEF IInv
  <1> QED BY <1>4, <1>5

(* The loop of the innermost call takes one more of its parents. *)
Taken(calls, h) == [calls EXCEPT ![Len(calls)].rest = @ \ {h}]

OneFewer(shorter, calls, h) ==
  /\ shorter \in Seq(Frame) /\ Len(shorter) = Len(calls)
  /\ \A i \in 1..Len(calls) :
       /\ shorter[i].node = calls[i].node
       /\ shorter[i].rest = IF i = Len(calls) THEN calls[i].rest \ {h}
                                              ELSE calls[i].rest

LEMMA SequenceOf ==
  ASSUME NEW F, NEW m \in Nat, NEW s \in [1..m -> F]
  PROVE  s \in Seq(F) /\ Len(s) = m
  OBVIOUS

LEMMA LoopStep ==
  ASSUME NEW calls \in Seq(Frame), calls # <<>>, NEW h, NEW shorter,
         shorter = Taken(calls, h)
  PROVE  OneFewer(shorter, calls, h)
  <1> DEFINE k == Len(calls)
             last == [calls[k] EXCEPT !.rest = @ \ {h}]
  <1>1. /\ k \in Nat \ {0} /\ k \in 1..k /\ DOMAIN calls = 1..k
        /\ \A i \in 1..k : calls[i] \in Frame
    OBVIOUS
  <1>2. /\ last \in Frame /\ last.node = calls[k].node
        /\ last.rest = calls[k].rest \ {h}
    BY <1>1 DEF Frame
  <1>3. shorter = [calls EXCEPT ![k] = last]
    BY <1>1 DEF Taken
  <1> HIDE DEF last
  <1>4. /\ DOMAIN shorter = 1..k /\ shorter[k] = last
        /\ \A i \in 1..k : i # k => shorter[i] = calls[i]
    BY <1>1, <1>3
  <1>5. shorter \in Seq(Frame) /\ Len(shorter) = k
    <2>1. shorter = [i \in 1..k |-> IF i = k THEN last ELSE calls[i]]
      BY <1>1, <1>3
    <2>2. shorter \in [1..k -> Frame]
      BY <1>1, <1>2, <2>1
    <2> QED BY <1>1, <2>2, SequenceOf
  <1> QED BY <1>2, <1>4, <1>5 DEF OneFewer

LEMMA DescendPreserves == IInv /\ Descend => IInv'
  <1> SUFFICES ASSUME IInv, Descend PROVE IInv'
    OBVIOUS
  <1> DEFINE n == Len(stack)
  <1>1. /\ UNCHANGED <<submission, reader, pc, seen, decision>>
        /\ pc = "search" /\ stack # <<>>
    BY DEF Descend
  <1>2. PICK h \in Top.rest, calls \in Seq(Frame) :
          /\ Len(calls) = n
          /\ \A i \in 1..n : /\ calls[i].node = stack[i].node
                             /\ calls[i].rest = IF i = n THEN stack[i].rest \ {h}
                                                         ELSE stack[i].rest
          /\ Visit(h, calls)
    <2>1. PICK h \in Top.rest :
            Visit(h, [stack EXCEPT ![Len(stack)].rest = @ \ {h}])
      BY DEF Descend
    <2>2. PICK calls : calls = Taken(stack, h) /\ Visit(h, calls)
      BY <2>1 DEF Taken
    <2>3. stack \in Seq(Frame)
      BY DEF IInv, TypeOK
    <2>4. OneFewer(calls, stack, h)
      BY <1>1, <2>2, <2>3, LoopStep
    <2> QED BY <2>2, <2>4 DEF OneFewer
  <1>3. /\ Nodes' = Nodes /\ Targets' = Targets /\ (Closed' <=> Closed)
        /\ \A g : Parents(g)' = Parents(g)
        /\ nodes' = nodes /\ incoming' = incoming
    BY <1>1, SubmissionStays DEF submission
  <1>4. DecisionIsExact'
    BY <1>1, DecisionsStay
  <1>5. /\ n \in Nat \ {0} /\ n \in 1..n
        /\ h \in stack[n].rest /\ h \in Parents(stack[n].node)
        /\ h \in Hashes /\ stack[n].node \in Nodes
    <2>1. n \in Nat \ {0} /\ n \in 1..n /\ stack[n] \in Frame
      BY <1>1 DEF IInv, TypeOK
    <2> QED BY <1>2, <2>1 DEF IInv, StackInv, Top, Frame
  <1>6. /\ calls \in Seq(Frame) /\ Len(calls) = n
        /\ \A i \in 1..n : /\ calls[i].node = stack[i].node
                           /\ calls[i].rest = IF i = n THEN stack[i].rest \ {h}
                                                       ELSE stack[i].rest
    BY <1>2
  <1>7. CASE /\ stack' = calls
             /\ \/ Invalid(h) /\ fault' = TRUE
                \/ h \in seen /\ fault' = fault
    <2>1. Visiting' = Visiting
      BY <1>6, <1>7 DEF Visiting
    <2> DEFINE t == stack'
    <2>7. /\ t = stack' /\ t \in Seq(Frame) /\ Len(t) = n
          /\ \A i \in 1..n : /\ t[i].node = stack[i].node
                             /\ t[i].rest \subseteq stack[i].rest
      BY <1>6, <1>7
    <2> HIDE DEF t
    <2>2. TypeOK'
      BY <1>1, <1>3, <1>6, <1>7 DEF IInv, TypeOK
    <2>3. StackInv'
      <3>1. \A i \in 1..n : /\ t[i].node \in Nodes \ seen
                            /\ t[i].rest \subseteq Parents(t[i].node)
        BY <2>7 DEF IInv, StackInv
      <3>2. ASSUME NEW i \in 1..(n - 1)
            PROVE  t[i + 1].node \in Parents(t[i].node)
        <4>1. i \in 1..n /\ i + 1 \in 1..n
          BY <1>5
        <4> QED BY <2>7, <4>1 DEF IInv, StackInv
      <3>3. \A i, j \in 1..n : t[i].node = t[j].node => i = j
        BY <2>7 DEF IInv, StackInv
      <3> QED BY <1>1, <1>3, <2>7, <3>1, <3>2, <3>3 DEF StackInv
    <2>4. ReachedInv'
      <3> SUFFICES ASSUME NEW S \in SUBSET Nodes, ClosedUpwards(S)
                   PROVE  seen \cup Visiting \subseteq S
        BY <1>1, <1>3, <2>1 DEF ReachedInv, ClosedUpwards
      <3> QED BY DEF IInv, ReachedInv
    <2>5. fault' => ~Closed'
      BY <1>1, <1>3, <1>7, FailureIsReal DEF IInv, SearchInv
    <2>6. ASSUME ~fault' PROVE FaultlessInv'
      <3>1. h \in seen /\ ~fault /\ FaultlessInv
        BY <1>7, <2>6 DEF IInv, SearchInv
      <3>2. ASSUME NEW i \in 1..n
            PROVE  Parents(stack[i].node)
                     \subseteq seen \cup calls[i].rest \cup Called(i)
        BY <1>6, <3>1 DEF FaultlessInv
      <3>3. ASSUME NEW i \in 1..n PROVE Called(i)' = Called(i)
        <4>1. CASE i < n
          <5>1. i + 1 \in 1..n
            BY <1>5, <4>1
          <5> QED BY <2>7, <4>1, <5>1 DEF Called
        <4>2. CASE i = n
          BY <2>7, <4>2 DEF Called
        <4> QED BY <1>5, <4>1, <4>2
      <3>4. \A i \in 1..Len(stack') :
              (Parents(stack[i].node)
                 \subseteq seen \cup stack[i].rest \cup Called(i))'
        BY <1>1, <1>3, <1>6, <1>7, <3>2, <3>3
      <3> QED BY <1>1, <1>3, <2>1, <3>1, <3>4 DEF FaultlessInv, AcyclicIn
    <2> QED BY <1>1, <1>4, <2>2, <2>3, <2>4, <2>5, <2>6 DEF IInv, SearchInv
  <1>8. CASE /\ ~Invalid(h) /\ h \notin seen
             /\ stack' = Append(calls, [node |-> h, rest |-> Parents(h)])
             /\ fault' = fault
    <2>1. h \in Nodes /\ h \notin Visiting
      BY <1>8 DEF Invalid
    <2>2. [node |-> h, rest |-> Parents(h)] \in Frame
      BY <1>5 DEF IInv, TypeOK, Parents, Frame
    <2>3. /\ stack' \in Seq(Frame) /\ Len(stack') = n + 1
          /\ \A i \in 1..n : stack'[i] = calls[i]
          /\ stack'[n + 1].node = h /\ stack'[n + 1].rest = Parents(h)
      BY <1>5, <1>6, <1>8, <2>2
    <2> DEFINE t == stack'
    <2>10. /\ t = stack' /\ t \in Seq(Frame) /\ Len(t) = n + 1
           /\ \A i \in 1..n :
                /\ t[i].node = stack[i].node
                /\ t[i].rest = IF i = n THEN stack[i].rest \ {h}
                                        ELSE stack[i].rest
           /\ t[n + 1].node = h /\ t[n + 1].rest = Parents(h)
      BY <1>6, <2>3
    <2> HIDE DEF t
    <2>12. /\ \A i \in 1..n : t[i].node = stack[i].node
           /\ \A i \in 1..n : t[i].rest \subseteq stack[i].rest
           /\ t[n + 1].node = h /\ t[n + 1].rest = Parents(h)
      BY <2>10
    <2>11. \A i \in 1..(n + 1) : i \in 1..n \/ i = n + 1
      BY <1>5
    <2>4. Visiting' = Visiting \cup {h}
      <3>1. Visiting' = {t[i].node : i \in 1..(n + 1)}
        BY <2>10 DEF Visiting
      <3>2. n + 1 \in 1..(n + 1) /\ \A i \in 1..n : i \in 1..(n + 1)
        BY <1>5
      <3>3. {t[i].node : i \in 1..n} = Visiting
        BY <2>12 DEF Visiting
      <3>4. \A g \in Visiting' : g \in Visiting \cup {h}
        BY <2>11, <2>12, <3>1, <3>3
      <3>5. \A g \in Visiting \cup {h} : g \in Visiting'
        BY <2>12, <3>1, <3>2, <3>3
      <3> QED BY <3>4, <3>5
    <2>5. TypeOK'
      BY <1>1, <1>3, <1>8, <2>3 DEF IInv, TypeOK
    <2>6. StackInv'
      <3>1. \A i \in 1..(n + 1) : /\ t[i].node \in Nodes \ seen
                                  /\ t[i].rest \subseteq Parents(t[i].node)
        <4>1. \A i \in 1..n : /\ stack[i].node \in Nodes \ seen
                              /\ stack[i].rest \subseteq Parents(stack[i].node)
          BY DEF IInv, StackInv
        <4>2. \A i \in 1..n : /\ t[i].node \in Nodes \ seen
                              /\ t[i].rest \subseteq Parents(t[i].node)
          BY <2>12, <4>1
        <4> QED BY <1>8, <2>1, <2>11, <2>12, <4>2
      <3>2. ASSUME NEW i \in 1..n
            PROVE  t[i + 1].node \in Parents(t[i].node)
        <4>1. CASE i = n
          BY <1>5, <2>10, <4>1
        <4>2. CASE i < n
          <5>1. i \in 1..(n - 1) /\ i + 1 \in 1..n
            BY <1>5, <4>2
          <5>2. stack[i + 1].node \in Parents(stack[i].node)
            BY <5>1 DEF IInv, StackInv
          <5> QED BY <2>10, <5>1, <5>2
        <4> QED BY <1>5, <4>1, <4>2
      <3>3. \A i \in 1..n : t[i].node # h
        <4>1. \A i \in 1..n : stack[i].node \in Visiting
          BY DEF Visiting
        <4> QED BY <2>1, <2>12, <4>1
      <3>4. ASSUME NEW i \in 1..(n + 1), NEW j \in 1..(n + 1),
                   t[i].node = t[j].node
            PROVE  i = j
        <4>1. CASE i \in 1..n /\ j \in 1..n
          BY <2>10, <3>4, <4>1 DEF IInv, StackInv
        <4>2. CASE i = n + 1 \/ j = n + 1
          BY <2>10, <2>11, <3>3, <3>4, <4>2
        <4> QED BY <2>11, <4>1, <4>2
      <3>5. Len(t) - 1 = n
        BY <1>5, <2>10
      <3>6. t \in Seq(Frame) /\ Len(t) = n + 1 /\ t = stack'
        BY <2>10
      <3> QED BY <1>1, <1>3, <3>6, <3>1, <3>2, <3>4, <3>5 DEF StackInv
    <2>7. ReachedInv'
      <3> SUFFICES ASSUME NEW S \in SUBSET Nodes, ClosedUpwards(S)
                   PROVE  seen \cup Visiting \cup {h} \subseteq S
        BY <1>1, <1>3, <2>4 DEF ReachedInv, ClosedUpwards
      <3>1. seen \cup Visiting \subseteq S
        BY DEF IInv, ReachedInv
      <3>2. stack[n].node \in S
        BY <1>5, <3>1 DEF Visiting
      <3> QED BY <1>5, <3>1, <3>2 DEF ClosedUpwards
    <2>8. fault' => ~Closed'
      BY <1>3, <1>8 DEF IInv, SearchInv
    <2>9. ASSUME ~fault' PROVE FaultlessInv'
      <3>1. FaultlessInv
        BY <1>8, <2>9 DEF IInv, SearchInv
      <3>2. ASSUME NEW i \in 1..(n + 1)
            PROVE  Parents(t[i].node) \subseteq seen \cup t[i].rest \cup Called(i)'
        <4>1. CASE i = n + 1
          BY <2>10, <4>1
        <4>2. CASE i = n
          <5>1. Called(i)' = {h} /\ Called(i) = {}
            BY <1>5, <2>10, <4>2 DEF Called
          <5>2. Parents(stack[i].node) \subseteq seen \cup stack[i].rest
            BY <1>5, <3>1, <4>2, <5>1 DEF FaultlessInv
          <5> QED BY <1>5, <2>10, <4>2, <5>1, <5>2
        <4>3. CASE i \in 1..n /\ i < n
          <5>1. i + 1 \in 1..n /\ i < n + 1
            BY <1>5, <4>3
          <5>2. Called(i)' = {t[i + 1].node} /\ Called(i) = {stack[i + 1].node}
            BY <2>10, <4>3, <5>1 DEF Called
          <5>3. Parents(stack[i].node)
                  \subseteq seen \cup stack[i].rest \cup Called(i)
            BY <3>1, <4>3 DEF FaultlessInv
          <5> QED BY <1>5, <2>10, <4>3, <5>1, <5>2, <5>3
        <4> QED BY <1>5, <2>11, <4>1, <4>2, <4>3
      <3>3. \A i \in 1..Len(stack') :
              (Parents(stack[i].node)
                 \subseteq seen \cup stack[i].rest \cup Called(i))'
        BY <1>1, <1>3, <2>10, <3>2
      <3> QED BY <1>1, <1>3, <2>4, <3>1, <3>3 DEF FaultlessInv, AcyclicIn
    <2> QED BY <1>1, <1>4, <2>5, <2>6, <2>7, <2>8, <2>9 DEF IInv, SearchInv
  <1> QED BY <1>2, <1>7, <1>8, VisitOutcome

LEMMA FrontOf ==
  ASSUME NEW F, NEW s \in Seq(F), s # <<>>
  PROVE  /\ SubSeq(s, 1, Len(s) - 1) \in Seq(F)
         /\ Len(SubSeq(s, 1, Len(s) - 1)) = Len(s) - 1
         /\ \A i \in 1..(Len(s) - 1) : SubSeq(s, 1, Len(s) - 1)[i] = s[i]
  <1> DEFINE m == Len(s) - 1
  <1>1. m \in Nat /\ \A i \in 1..m : s[i] \in F
    OBVIOUS
  <1> HIDE DEF m
  <1>2. /\ SubSeq(s, 1, m) \in Seq(F)
        /\ Len(SubSeq(s, 1, m)) = IF 1 <= m THEN m - 1 + 1 ELSE 0
        /\ \A i \in 1..(m - 1 + 1) : SubSeq(s, 1, m)[i] = s[1 + i - 1]
    BY <1>1, SubSeqProperties
  <1>3. Len(SubSeq(s, 1, m)) = m /\ \A i \in 1..m : SubSeq(s, 1, m)[i] = s[i]
    <2>1. m - 1 + 1 = m /\ \A i \in 1..m : 1 + i - 1 = i
      BY <1>1
    <2> QED BY <1>1, <1>2, <2>1
  <1> QED BY <1>2, <1>3 DEF m

LEMMA ReturnPreserves == IInv /\ Return => IInv'
  <1> SUFFICES ASSUME IInv, Return PROVE IInv'
    OBVIOUS
  <1> DEFINE n == Len(stack)
             t == stack'
             top == Top.node
  <1>1. /\ UNCHANGED <<submission, reader, pc, fault, decision>>
        /\ pc = "search" /\ stack # <<>> /\ Top.rest = {}
        /\ stack' = SubSeq(stack, 1, Len(stack) - 1)
        /\ seen' = seen \cup {top}
    BY DEF Return
  <1>2. /\ Nodes' = Nodes /\ Targets' = Targets /\ (Closed' <=> Closed)
        /\ \A g : Parents(g)' = Parents(g)
        /\ nodes' = nodes /\ incoming' = incoming
    BY <1>1, SubmissionStays DEF submission
  <1>3. DecisionIsExact'
    BY <1>1, DecisionsStay
  <1>4. /\ n \in Nat \ {0} /\ n \in 1..n /\ n - 1 \in Nat
        /\ stack[n].node = top /\ stack[n].rest = {} /\ top \in Nodes \ seen
    BY <1>1 DEF IInv, TypeOK, StackInv, Top
  <1>5. /\ t \in Seq(Frame) /\ Len(t) = n - 1
        /\ \A i \in 1..(n - 1) : t[i] = stack[i]
    BY <1>1, <1>4, FrontOf DEF IInv, TypeOK
  <1>6. \A i \in 1..n : i = n \/ (i \in 1..(n - 1) /\ i # n /\ i + 1 \in 1..n)
    BY <1>4
  <1>7. \A i \in 1..(n - 1) : i \in 1..n /\ i # n /\ i + 1 \in 1..n
    BY <1>4
  <1>8. t = stack'
    OBVIOUS
  <1> HIDE DEF t, top
  <1>9. seen' \cup Visiting' = seen \cup Visiting
    <2>1. Visiting' = {stack[i].node : i \in 1..(n - 1)}
      BY <1>5, <1>8 DEF Visiting
    <2>2. Visiting = Visiting' \cup {top}
      BY <1>4, <1>6, <1>7, <2>1 DEF Visiting
    <2> QED BY <1>1, <2>2
  <1>10. TypeOK'
    BY <1>1, <1>2, <1>4, <1>5, <1>8 DEF IInv, TypeOK
  <1>11. StackInv'
    <2>1. \A i \in 1..(n - 1) : /\ t[i].node \in Nodes \ seen
                                /\ t[i].rest \subseteq Parents(t[i].node)
                                /\ t[i].node # top
      BY <1>4, <1>5, <1>7 DEF IInv, StackInv
    <2>2. ASSUME NEW i \in 1..(n - 1 - 1)
          PROVE  t[i + 1].node \in Parents(t[i].node)
      <3>1. i \in 1..(n - 1) /\ i + 1 \in 1..(n - 1)
        BY <1>4
      <3> QED BY <1>5, <3>1 DEF IInv, StackInv
    <2>3. \A i, j \in 1..(n - 1) : t[i].node = t[j].node => i = j
      BY <1>5, <1>7 DEF IInv, StackInv
    <2> QED BY <1>1, <1>2, <1>5, <1>8, <2>1, <2>2, <2>3 DEF StackInv
  <1>12. ReachedInv'
    <2> SUFFICES ASSUME NEW S \in SUBSET Nodes, ClosedUpwards(S)
                 PROVE  seen \cup Visiting \subseteq S
      BY <1>1, <1>2, <1>9 DEF ReachedInv, ClosedUpwards
    <2> QED BY DEF IInv, ReachedInv
  <1>13. fault' => ~Closed'
    BY <1>1, <1>2 DEF IInv, SearchInv
  <1>14. ASSUME ~fault' PROVE FaultlessInv'
    <2>1. FaultlessInv
      BY <1>1, <1>14 DEF IInv, SearchInv
    <2>2. Parents(top) \subseteq seen
      BY <1>4, <2>1 DEF FaultlessInv, Called
    <2>3. \A h \in seen' : Parents(h) \subseteq seen'
      BY <1>1, <2>1, <2>2 DEF FaultlessInv
    <2>4. ASSUME NEW i \in 1..(n - 1)
          PROVE  Parents(t[i].node) \subseteq seen' \cup t[i].rest \cup Called(i)'
      <3>1. Parents(stack[i].node)
              \subseteq seen \cup stack[i].rest \cup {stack[i + 1].node}
        <4>1. i \in 1..n /\ i < n
          BY <1>4
        <4> QED BY <2>1, <4>1 DEF FaultlessInv, Called
      <3>2. CASE i + 1 = n
        BY <1>1, <1>4, <1>5, <3>1, <3>2
      <3>3. CASE i + 1 # n
        <4>1. i + 1 \in 1..(n - 1) /\ i < n - 1
          BY <1>4, <3>3
        <4>2. Called(i)' = {stack[i + 1].node}
          BY <1>5, <1>8, <4>1 DEF Called
        <4> QED BY <1>1, <1>5, <3>1, <4>2
      <3> QED BY <3>2, <3>3
    <2>5. ASSUME NEW S \in SUBSET seen', S # {}
          PROVE  \E h \in S : Parents(h) \cap S = {}
      <3>1. CASE S \cap seen = {}
        BY <1>1, <1>4, <2>2, <2>5, <3>1
      <3>2. CASE S \cap seen # {}
        <4>1. PICK h \in S \cap seen : Parents(h) \cap (S \cap seen) = {}
          BY <2>1, <3>2 DEF FaultlessInv, AcyclicIn
        <4>2. Parents(h) \subseteq seen
          BY <2>1, <4>1 DEF FaultlessInv
        <4> QED BY <4>1, <4>2
      <3> QED BY <3>1, <3>2
    <2>6. AcyclicIn(seen)'
      BY <1>2, <2>5 DEF AcyclicIn
    <2>7. pc' = "search" => root \in (seen \cup Visiting)'
      BY <1>1, <1>9, <2>1 DEF FaultlessInv
    <2>8. \A i \in 1..Len(stack') :
            (Parents(stack[i].node)
               \subseteq seen \cup stack[i].rest \cup Called(i))'
      BY <1>2, <1>5, <1>8, <2>4
    <2>9. (\A h \in seen : Parents(h) \subseteq seen)'
      BY <1>2, <2>3
    <2> QED BY <2>6, <2>7, <2>8, <2>9 DEF FaultlessInv
  <1>15. SearchInv'
    BY <1>1, <1>13, <1>14 DEF SearchInv
  <1> QED BY <1>3, <1>10, <1>11, <1>12, <1>15 DEF IInv

(* The verifier's rules come to what the service's do.                       *)
LEMMA AssessmentIsJudgement ==
  ASSUME IInv, NEW closure \in BOOLEAN
  PROVE  Assessment(closure) = Judgement(closure)
  <1>1. \A t \in Targets : VerifierPasses(t) <=> Passes(t)
    BY DEF VerifierPasses, Passes, Preserves
  <1>2. Allowed = Permitted
    <2>1. ASSUME NEW op \in Operations
          PROVE  op \in Allowed <=> op \in Permitted
      <3> DEFINE Blocks(h) == UNION {u.blocks : u \in nodes[h].unknowns}
                 Sets == {Operations \ nodes[h].operations : h \in Nodes}
                           \cup {Blocks(h) : h \in Nodes}
                           \cup {Operations \ incoming[t].grant.operations : t \in Targets}
      <3>1. Removed = UNION Sets
        BY Zenon DEF Removed
      <3>2. \A h : op \in Blocks(h) <=> \E u \in nodes[h].unknowns : op \in u.blocks
        OBVIOUS
      <3> HIDE DEF Blocks
      <3>3. op \in UNION Sets <=>
              \/ \E h \in Nodes : op \notin nodes[h].operations \/ op \in Blocks(h)
              \/ \E t \in Targets : op \notin incoming[t].grant.operations
        <4> DEFINE Lacking(h) == Operations \ nodes[h].operations
                   Ungranted(t) == Operations \ incoming[t].grant.operations
        <4>1. op \in UNION Sets <=>
                \/ \E h \in Nodes : op \in Lacking(h) \/ op \in Blocks(h)
                \/ \E t \in Targets : op \in Ungranted(t)
          BY Zenon
        <4>2. \A h : op \in Lacking(h) <=> op \notin nodes[h].operations
          OBVIOUS
        <4>3. \A t : op \in Ungranted(t) <=> op \notin incoming[t].grant.operations
          OBVIOUS
        <4> HIDE DEF Lacking, Ungranted, Sets
        <4> QED BY <4>1, <4>2, <4>3
      <3>4. op \in Allowed <=> op \notin UNION Sets
        BY <3>1, Zenon DEF Allowed
      <3> HIDE DEF Sets
      <3>5. op \in Permitted <=>
              /\ \A h \in Nodes : /\ op \in nodes[h].operations
                                  /\ \A u \in nodes[h].unknowns : op \notin u.blocks
              /\ \A t \in Targets : op \in incoming[t].grant.operations
        BY Zenon DEF Permitted
      <3> QED BY <3>2, <3>3, <3>4, <3>5
    <2>2. Allowed \subseteq Operations /\ Permitted \subseteq Operations
      BY DEF Allowed, Permitted
    <2> QED BY <2>1, <2>2
  <1>3. Assessed(closure) <=> Established(closure)
    BY <1>1, <1>2 DEF Assessed, Established
  <1>4. Assessed(closure) \in BOOLEAN /\ Established(closure) \in BOOLEAN
    BY DEF Assessed, Established
  <1> QED BY <1>2, <1>3, <1>4 DEF Assessment, Judgement

LEMMA DecidePreserves == IInv /\ Decide => IInv'
  <1> SUFFICES ASSUME IInv, Decide PROVE IInv'
    OBVIOUS
  <1>1. /\ UNCHANGED <<submission, stack>> /\ stack = <<>> /\ pc = "search"
        /\ decision' = [decision EXCEPT ![reader] = Judgement(GraphClosure)]
        /\ seen' = {} /\ fault' = FALSE /\ reader' = "verifier"
        /\ pc' \in {"visit", "done"}
    <2>1. GraphClosure \in BOOLEAN
      BY DEF GraphClosure, IInv, TypeOK
    <2>2. Assessment(GraphClosure) = Judgement(GraphClosure)
      BY <2>1, AssessmentIsJudgement
    <2> QED BY <2>2 DEF Decide
  <1>2. /\ Nodes' = Nodes /\ Targets' = Targets
        /\ Judgement(Closed)' = Judgement(Closed)
        /\ nodes' = nodes /\ incoming' = incoming
    BY <1>1, SubmissionStays DEF submission
  <1>3. Judgement(GraphClosure) = Judgement(Closed)
    <2>1. GraphClosure <=> Closed
      BY <1>1, ClosureIsExact
    <2>2. Established(GraphClosure) = Established(Closed)
      BY <2>1 DEF Established
    <2> QED BY <2>2 DEF Judgement
  <1>4. Judgement(Closed) \in Decision
    <2>1. Permitted \subseteq Operations
      BY DEF Permitted
    <2>2. Established(Closed) \in BOOLEAN
      BY DEF Established
    <2> QED BY <2>1, <2>2 DEF Judgement, Decision
  <1>5. TypeOK'
    <2>1. decision' \in [Readers -> Decision]
      BY <1>1, <1>3, <1>4 DEF IInv, TypeOK
    <2> QED BY <1>1, <1>2, <2>1 DEF IInv, TypeOK, Readers
  <1>6. stack' = <<>> /\ Len(stack') = 0 /\ Visiting' = {}
    BY <1>1 DEF Visiting
  <1>7. StackInv' /\ ReachedInv'
    BY <1>1, <1>6 DEF StackInv, ReachedInv
  <1>8. SearchInv'
    BY <1>1, <1>6 DEF SearchInv, FaultlessInv, AcyclicIn
  <1>9. DecisionIsExact'
    <2>1. ASSUME NEW r \in Readers, decision'[r] # Undecided
          PROVE  decision'[r] = Judgement(Closed)
      <3>1. CASE r = reader
        BY <1>1, <1>3, <3>1 DEF IInv, TypeOK
      <3>2. CASE r # reader
        BY <1>1, <2>1, <3>2 DEF IInv, TypeOK, DecisionIsExact
      <3> QED BY <3>1, <3>2
    <2> QED BY <1>2, <2>1 DEF DecisionIsExact
  <1> QED BY <1>5, <1>7, <1>8, <1>9 DEF IInv

LEMMA StutterPreserves == IInv /\ UNCHANGED vars => IInv'
  <1> SUFFICES ASSUME IInv, UNCHANGED vars PROVE IInv'
    OBVIOUS
  <1>1. /\ UNCHANGED <<submission, reader, pc, stack, seen, fault, decision>>
        /\ nodes' = nodes /\ incoming' = incoming
        /\ Nodes' = Nodes /\ Targets' = Targets /\ (Closed' <=> Closed)
        /\ \A g : Parents(g)' = Parents(g)
    BY SubmissionStays DEF vars, submission
  <1>2. Visiting' = Visiting /\ \A i : Called(i)' = Called(i)
    BY <1>1 DEF Visiting, Called
  <1>3. TypeOK'
    BY <1>1 DEF IInv, TypeOK
  <1>4. StackInv' /\ ReachedInv'
    BY <1>1, <1>2 DEF IInv, StackInv, ReachedInv, ClosedUpwards
  <1>5. SearchInv'
    BY <1>1, <1>2 DEF IInv, SearchInv, FaultlessInv, AcyclicIn
  <1>6. DecisionIsExact'
    BY <1>1, DecisionsStay
  <1> QED BY <1>3, <1>4, <1>5, <1>6 DEF IInv

-----------------------------------------------------------------------------
(* The invariant of the search holds for any submission, in any order in     *)
(* which visit() goes through the sources of a warrant.                      *)
THEOREM EvaluatorInvariant == Spec => []IInv
  <1>1. IInv /\ [Next]_vars => IInv'
    BY StartPreserves, DescendPreserves, ReturnPreserves, DecidePreserves,
       StutterPreserves
    DEF Next, Done
  <1> QED BY InitEstablishes, <1>1, PTL DEF Spec

(* Type correctness of evaluate()'s search and of its replay. *)
THEOREM TypeCorrect == Spec => []TypeOK
  <1>1. IInv => TypeOK
    BY DEF IInv
  <1> QED BY EvaluatorInvariant, <1>1, PTL

(* GRAPH_CLOSURE, found by a search in any order, is closure by its          *)
(* definition: root, references, connection and the absence of cycles. Both  *)
(* readers therefore decide alike.                                           *)
THEOREM DecisionCorrect == Spec => []DecisionIsExact
  <1>1. IInv => DecisionIsExact
    BY DEF IInv
  <1> QED BY EvaluatorInvariant, <1>1, PTL

(* What is established at the root carries the qualifiers and unknowns of    *)
(* all sources and claims no operation that one of them does not.            *)
THEOREM RootCarriesEverySource == Spec => []RootCarriesAll
  <1>1. IInv => RootCarriesAll
    <2> SUFFICES ASSUME IInv, NEW r \in Readers, decision[r].established
                 PROVE  \A h \in Nodes :
                          /\ nodes[h].qualifiers \subseteq nodes[root].qualifiers
                          /\ nodes[h].unknowns \subseteq nodes[root].unknowns
                          /\ nodes[root].operations \subseteq nodes[h].operations
      BY DEF RootCarriesAll
    <2>1. decision[r] # Undecided
      BY DEF Undecided
    <2>2. decision[r] = Judgement(Closed)
      BY <2>1 DEF IInv, DecisionIsExact
    <2>3. Established(Closed)
      BY <2>2 DEF Judgement
    <2> QED BY <2>3, EstablishedCarriesAll
  <1> QED BY EvaluatorInvariant, <1>1, PTL
=============================================================================
