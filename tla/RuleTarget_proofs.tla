------------------------- MODULE RuleTarget_proofs -------------------------
(***************************************************************************)
(* What the search of the address space, the choice of a rule's variable   *)
(* and the write to it promise, for every address space, every limit and   *)
(* every set of payloads.                                                  *)
(***************************************************************************)
EXTENDS RuleTarget, FiniteSetTheorems, TLAPS

(***************************************************************************)
(* A set of numbers up to a bound has a least one: the intervals from 0 to *)
(* its members are finite sets, and inclusion is well-founded on those.    *)
(* It stands in for induction along a path.                                *)
(***************************************************************************)
LEMMA Least ==
    ASSUME NEW k \in Nat, NEW T \in SUBSET (0..k), T # {}
    PROVE  \E x \in T : \A y \in T : x <= y
<1> DEFINE S == 0..k
           R == StrictSubsetOrdering(S)
           U == {0..x : x \in T}
<1>1. IsFiniteSet(S)
  BY FS_Interval
<1>2. IsWellFoundedOn(R, FiniteSubsetsOf(S))
  BY <1>1, FS_StrictSubsetOrderingWellFounded
<1>3. U \subseteq FiniteSubsetsOf(S) /\ U # {}
  <2>1. \A x \in T : 0..x \subseteq S /\ IsFiniteSet(0..x)
    BY FS_Interval
  <2>2. QED BY <2>1 DEF FiniteSubsetsOf
<1>4. PICK X \in U : \A Y \in U : <<Y, X>> \notin R
  <2> HIDE DEF R, U, S
  <2>1. QED BY <1>2, <1>3, WFMin
<1>5. PICK x \in T : X = 0..x
  OBVIOUS
<1>6. \A y \in T : y < x => <<0..y, 0..x>> \in R
  <2> SUFFICES ASSUME NEW y \in T, y < x PROVE <<0..y, 0..x>> \in R
    OBVIOUS
  <2>1. 0..y \subseteq S /\ 0..x \subseteq S
    OBVIOUS
  <2>2. 0..y \subseteq 0..x /\ 0..y # 0..x
    <3>1. x \in 0..x /\ x \notin 0..y
      OBVIOUS
    <3>2. QED BY <3>1
  <2>3. QED BY <2>1, <2>2 DEF StrictSubsetOrdering
<1>7. \A y \in T : ~(y < x)
  BY <1>4, <1>5, <1>6
<1> QED BY <1>7

-----------------------------------------------------------------------------
(* Ways through an address space *)

\* The empty way.
LEMMA WayToRoot ==
    ASSUME NEW c
    PROVE  Way(c, Root, 0)
<1> DEFINE p == [i \in 0..0 |-> Root]
<1>1. p \in [0..0 -> Nodes]
  BY SearchAssumption DEF Nodes
<1>2. p[0] = Root
  OBVIOUS
<1>3. 0..0 - 1 = {}
  OBVIOUS
<1> QED BY <1>1, <1>2, <1>3 DEF Way

\* One step more.
LEMMA WayOn ==
    ASSUME NEW c \in [Objects -> SUBSET Nodes], NEW k \in Nat,
           NEW n \in Objects, NEW m \in c[n], Way(c, n, k)
    PROVE  Way(c, m, k + 1)
<1>1. PICK p \in [0..k -> Nodes] :
        /\ p[0] = Root /\ p[k] = n
        /\ \A i \in 0..k - 1 : p[i] \in Objects /\ p[i + 1] \in c[p[i]]
  BY DEF Way
<1> DEFINE q == [i \in 0..k + 1 |-> IF i = k + 1 THEN m ELSE p[i]]
<1>2. q \in [0..k + 1 -> Nodes]
  BY m \in Nodes
<1>3. q[0] = Root /\ q[k + 1] = m
  BY <1>1
<1>4. ASSUME NEW i \in 0..(k + 1) - 1
      PROVE  q[i] \in Objects /\ q[i + 1] \in c[q[i]]
  <2>1. q[i] = p[i]
    OBVIOUS
  <2>2. CASE i = k
    BY <2>1, <2>2, <1>1, q[i + 1] = m
  <2>3. CASE i # k
    <3>1. i \in 0..k - 1 /\ q[i + 1] = p[i + 1]
      BY <2>3
    <3>2. QED BY <2>1, <3>1, <1>1
  <2> QED BY <2>2, <2>3
<1> QED BY <1>2, <1>3, <1>4 DEF Way

\* If the start node's level is 0 and no step of a way leads more than one
\* level deeper, the way's last node is no deeper than the way is long.
LEMMA LevelBound ==
    ASSUME NEW c \in [Objects -> SUBSET Nodes], NEW f \in [Nodes -> 0..Unseen],
           NEW k \in 0..MaxDepth, NEW n, Way(c, n, k), f[Root] = 0,
           \A x \in Objects : f[x] < MaxDepth => \A y \in c[x] : f[y] <= f[x] + 1
    PROVE  f[n] <= k
<1> USE SearchAssumption DEF Unseen
<1>1. PICK p \in [0..k -> Nodes] :
        /\ p[0] = Root /\ p[k] = n
        /\ \A i \in 0..k - 1 : p[i] \in Objects /\ p[i + 1] \in c[p[i]]
  BY DEF Way
<1> DEFINE T == {i \in 0..k : ~(f[p[i]] <= i)}
<1>2. SUFFICES ASSUME T # {} PROVE FALSE
  <2>1. k \in 0..k
    OBVIOUS
  <2> QED BY <1>1, <1>2, <2>1
<1>3. PICK x \in T : \A y \in T : x <= y
  <2>1. T \in SUBSET (0..k) /\ k \in Nat
    OBVIOUS
  <2> HIDE DEF T
  <2> QED BY <1>2, <2>1, Least, Zenon
<1>4. x # 0
  BY <1>1
<1>5. x - 1 \in 0..k - 1 /\ x - 1 \notin T
  BY <1>3, <1>4
<1>6. p[x - 1] \in Nodes /\ f[p[x - 1]] \in Nat /\ f[p[x - 1]] <= x - 1
  BY <1>5
<1>7. p[x - 1] \in Objects /\ p[x] \in c[p[x - 1]]
  <2>1. (x - 1) + 1 = x
    OBVIOUS
  <2> QED BY <1>1, <1>5, <2>1
<1>8. f[p[x]] <= f[p[x - 1]] + 1
  BY <1>6, <1>7
<1>9. f[p[x]] \in Nat
  OBVIOUS
<1> QED BY <1>6, <1>8, <1>9

-----------------------------------------------------------------------------
(* The search *)

\* The levels are those of ways, and only what was queued is found
Traced ==
    /\ level[Root] = 0 \/ children = NoSpace
    /\ \A n \in Nodes : level[n] # Unseen => Way(children, n, level[n])
    /\ \A n \in pending \cup found : level[n] # Unseen
    /\ found \subseteq Matching /\ IsFiniteSet(found)

\* As long as nothing failed: the queue spans two levels at most, what has left
\* it has all its children on the next level or above, and is found if it matches
BreadthFirst ==
    ~failed =>
        /\ \A n \in pending : \A m \in Nodes : level[m] # Unseen => level[m] <= level[n] + 1
        /\ \A n \in Objects \ pending :
             level[n] < MaxDepth => \A m \in children[n] : level[m] <= level[n] + 1
        /\ \A n \in Matching \ pending : level[n] # Unseen => n \in found

SearchInv == SearchTypeOK /\ Traced /\ BreadthFirst

LEMMA SearchInit == NoSearch => SearchInv
<1> SUFFICES ASSUME NoSearch PROVE SearchInv
  OBVIOUS
<1> USE SearchAssumption DEF NoSearch
<1>1. SearchTypeOK
  <2>1. children \in [Objects -> SUBSET Nodes]
    BY DEF NoSpace
  <2>2. level \in [Nodes -> 0..Unseen]
    BY DEF Unseen
  <2>3. processed \in 0..MaxNodes
    OBVIOUS
  <2> QED BY <2>1, <2>2, <2>3 DEF SearchTypeOK
<1>2. Traced
  BY FS_EmptySet DEF Traced
<1>3. BreadthFirst
  BY DEF BreadthFirst, Unseen, NoSpace, Nodes, Matching
<1> QED BY <1>1, <1>2, <1>3 DEF SearchInv

LEMMA SearchEnds == EndSearch => SearchInv'
<1> SUFFICES ASSUME EndSearch PROVE SearchInv'
  OBVIOUS
<1> USE SearchAssumption DEF EndSearch
<1>1. SearchTypeOK'
  <2>1. children' \in [Objects -> SUBSET Nodes]
    BY DEF NoSpace
  <2>2. level' \in [Nodes -> 0..Unseen]
    BY DEF Unseen
  <2>3. processed' \in 0..MaxNodes
    OBVIOUS
  <2> QED BY <2>1, <2>2, <2>3 DEF SearchTypeOK
<1>2. Traced'
  BY FS_EmptySet DEF Traced
<1>3. BreadthFirst'
  BY DEF BreadthFirst, Unseen, NoSpace, Nodes, Matching
<1> QED BY <1>1, <1>2, <1>3 DEF SearchInv

LEMMA SearchBegins == StartSearch => SearchInv'
<1> SUFFICES ASSUME StartSearch PROVE SearchInv'
  OBVIOUS
<1> USE SearchAssumption DEF StartSearch
<1>0. Root \in Nodes
  BY DEF Nodes
<1>1. SearchTypeOK'
  <2>1. children' \in [Objects -> SUBSET Nodes]
    OBVIOUS
  <2>2. level' \in [Nodes -> 0..Unseen]
    BY DEF Unseen
  <2>3. processed' \in 0..MaxNodes
    OBVIOUS
  <2> QED BY <1>0, <2>1, <2>2, <2>3 DEF SearchTypeOK
<1>2. Traced'
  <2>1. \A n \in Nodes : level'[n] # Unseen => Way(children', n, level'[n])
    <3> SUFFICES ASSUME NEW n \in Nodes, level'[n] # Unseen
                 PROVE  Way(children', n, level'[n])
      OBVIOUS
    <3>1. n = Root /\ level'[n] = 0
      OBVIOUS
    <3> QED BY <3>1, WayToRoot
  <2>2. level'[Root] = 0 /\ 0 # Unseen
    BY <1>0 DEF Unseen
  <2>3. pending' \cup found' = {Root} /\ found' \subseteq Matching /\ IsFiniteSet(found')
    BY FS_EmptySet
  <2> QED BY <2>1, <2>2, <2>3 DEF Traced
<1>3. BreadthFirst'
  BY <1>0 DEF BreadthFirst, Unseen, Nodes, Matching
<1> QED BY <1>1, <1>2, <1>3 DEF SearchInv

LEMMA SearchStays == SearchInv /\ UNCHANGED searchVars => SearchInv'
BY DEF SearchInv, SearchTypeOK, Traced, BreadthFirst, searchVars

\* The step that counts: a node is taken from the front of the queue.
LEMMA SearchGoesOn ==
    ASSUME SearchInv, NEW n \in Nodes, Visit(n)
    PROVE  SearchInv'
<1> USE SearchAssumption
<1> DEFINE fresh == IF Enters(n) THEN Fresh(n) ELSE {}
           Failing == /\ failed' = TRUE
                      /\ pending' = pending \ {n}
                      /\ UNCHANGED <<level, found>>
           Passing == /\ pending' = (pending \ {n}) \cup fresh
                      /\ level' = [m \in Nodes |-> IF m \in fresh THEN level[n] + 1 ELSE level[m]]
                      /\ found' = found \cup ({n} \cap Matching)
                      /\ UNCHANGED failed
<1>1. /\ n \in pending /\ \A m \in pending : level[n] <= level[m]
      /\ processed' = processed + 1 /\ processed < MaxNodes
      /\ children' = children
      /\ Failing \/ Passing
  BY DEF Visit, More, NextInLine
<1>2. SearchTypeOK /\ Traced /\ BreadthFirst
  BY DEF SearchInv
<1>3. children \in [Objects -> SUBSET Nodes] /\ level \in [Nodes -> 0..Unseen]
  BY <1>2 DEF SearchTypeOK
<1>4. processed' \in 0..MaxNodes
  BY <1>1, <1>2 DEF SearchTypeOK
<1>5. CASE Failing
  <2>1. SearchTypeOK'
    BY <1>1, <1>2, <1>4, <1>5 DEF SearchTypeOK
  <2>2. Traced'
    BY <1>1, <1>2, <1>5 DEF Traced
  <2>3. BreadthFirst'
    BY <1>5 DEF BreadthFirst
  <2> QED BY <2>1, <2>2, <2>3 DEF SearchInv
<1>6. CASE Passing
  <2> HIDE DEF fresh
  <2>1. level[n] # Unseen /\ level[n] \in 0..MaxDepth
    BY <1>1, <1>2, <1>3 DEF Traced, Unseen
  <2>2. /\ fresh \subseteq Nodes
        /\ \A m \in fresh : /\ n \in Objects /\ level[n] < MaxDepth
                            /\ m \in children[n] /\ level[m] = Unseen
    BY <1>3 DEF fresh, Enters, Fresh
  <2>3. n \notin fresh
    BY <2>1, <2>2
  <2>4. \A m \in fresh : level'[m] = level[n] + 1 /\ level'[m] \in 0..MaxDepth
    BY <1>6, <2>1, <2>2
  <2>5. \A m \in Nodes \ fresh : level'[m] = level[m]
    BY <1>6
  <2>6. SearchTypeOK'
    BY <1>1, <1>2, <1>4, <1>6, <2>2, <2>4, <2>5 DEF SearchTypeOK, Unseen
  <2>7. Traced'
    <3>1. level'[Root] = 0 \/ children' = NoSpace
      BY <1>1, <1>2, <2>2, <2>5 DEF Traced, Unseen, Nodes
    <3>2. \A m \in Nodes : level'[m] # Unseen => Way(children', m, level'[m])
      <4> SUFFICES ASSUME NEW m \in Nodes, level'[m] # Unseen
                   PROVE  Way(children, m, level'[m])
        BY <1>1
      <4>1. CASE m \in fresh
        <5>1. Way(children, n, level[n])
          BY <1>2, <2>1 DEF Traced
        <5>2. n \in Objects /\ m \in children[n] /\ level[n] \in Nat
          BY <2>1, <2>2, <4>1
        <5>3. Way(children, m, level[n] + 1)
          BY <1>3, <5>1, <5>2, WayOn
        <5> QED BY <5>3, <4>1, <2>4
      <4>2. CASE m \notin fresh
        BY <4>2, <2>5, <1>2 DEF Traced
      <4> QED BY <4>1, <4>2
    <3>3. \A m \in pending' \cup found' : level'[m] # Unseen
      <4>1. \A m \in pending \cup found : m \in Nodes /\ level[m] # Unseen
        BY <1>2 DEF Traced, SearchTypeOK
      <4> QED BY <1>1, <1>6, <4>1, <2>4, <2>5 DEF Unseen
    <3>4. found' \subseteq Matching /\ IsFiniteSet(found')
      <4>1. found \subseteq Matching /\ IsFiniteSet(found)
        BY <1>2 DEF Traced
      <4>2. IsFiniteSet({n} \cap Matching)
        BY FS_Singleton, FS_Subset, {n} \cap Matching \subseteq {n}
      <4> QED BY <1>6, <4>1, <4>2, FS_Union
    <3> QED BY <3>1, <3>2, <3>3, <3>4 DEF Traced
  <2>8. BreadthFirst'
    <3> SUFFICES ASSUME ~failed
                 PROVE
                   /\ \A x \in pending' : \A m \in Nodes :
                        level'[m] # Unseen => level'[m] <= level'[x] + 1
                   /\ \A x \in Objects \ pending' :
                        level'[x] < MaxDepth => \A m \in children[x] : level'[m] <= level'[x] + 1
                   /\ \A x \in Matching \ pending' : level'[x] # Unseen => x \in found'
      BY <1>1, <1>6 DEF BreadthFirst
    <3>1. \A m \in Nodes : level[m] # Unseen => level[m] <= level[n] + 1
      BY <1>1, <1>2 DEF BreadthFirst
    <3>2. \A m \in Nodes : level'[m] # Unseen => level'[m] <= level[n] + 1
      BY <3>1, <2>1, <2>4, <2>5
    <3>3. \A x \in pending' : x \in Nodes /\ level'[x] \in Nat /\ level[n] <= level'[x]
      <4>1. \A x \in pending : x \in Nodes /\ x \notin fresh
        BY <1>2, <2>2 DEF Traced, SearchTypeOK
      <4> QED BY <1>1, <1>3, <1>6, <2>1, <2>2, <2>4, <2>5, <4>1 DEF Unseen
    <3>4. \A x \in pending' : \A m \in Nodes :
            level'[m] # Unseen => level'[m] <= level'[x] + 1
      <4> SUFFICES ASSUME NEW x \in pending', NEW m \in Nodes, level'[m] # Unseen
                   PROVE  level'[m] <= level'[x] + 1
        OBVIOUS
      <4>1. level'[m] \in Nat
        BY <2>6 DEF SearchTypeOK, Unseen
      <4>2. level'[m] <= level[n] + 1
        BY <3>2
      <4>3. level'[x] \in Nat /\ level[n] <= level'[x]
        BY <3>3
      <4> QED BY <2>1, <4>1, <4>2, <4>3
    <3>5. ASSUME NEW x \in Objects \ pending', level'[x] < MaxDepth, NEW m \in children[x]
          PROVE  level'[m] <= level'[x] + 1
      <4>1. x \in Nodes /\ m \in Nodes /\ x \notin fresh /\ level'[x] = level[x]
        BY <1>3, <1>6, <2>5, <3>5 DEF Nodes
      <4>2. level[x] \in 0..MaxDepth /\ level[x] # Unseen
        BY <1>3, <3>5, <4>1 DEF Unseen
      <4>3. CASE x = n
        <5>1. level'[m] # Unseen
          <6>1. CASE m \in fresh
            BY <6>1, <2>4 DEF Unseen
          <6>2. CASE m \notin fresh
            <7>1. level[m] # Unseen
              BY <6>2, <4>3, <3>5, <4>1 DEF fresh, Enters, Fresh
            <7> QED BY <7>1, <6>2, <4>1, <2>5
          <6> QED BY <6>1, <6>2
        <5> QED BY <5>1, <3>2, <4>1, <4>3
      <4>4. CASE x # n
        <5>1. x \in Objects \ pending
          BY <1>6, <4>4
        <5>2. level[m] <= level[x] + 1
          BY <5>1, <4>1, <3>5, <1>2 DEF BreadthFirst
        <5>3. level[m] # Unseen
          BY <5>2, <4>1, <4>2, <3>5 DEF Unseen
        <5>4. m \notin fresh
          BY <5>3, <2>2
        <5> QED BY <5>2, <5>4, <4>1, <2>5
      <4> QED BY <4>3, <4>4
    <3>6. ASSUME NEW x \in Matching \ pending', level'[x] # Unseen
          PROVE  x \in found'
      <4>1. x \in Nodes /\ x \notin fresh /\ level[x] # Unseen
        BY <1>6, <2>5, <3>6 DEF Nodes
      <4>2. CASE x = n
        BY <4>2, <1>6
      <4>3. CASE x # n
        BY <4>3, <4>1, <1>2, <1>6 DEF BreadthFirst
      <4> QED BY <4>2, <4>3
    <3> QED BY <3>4, <3>5, <3>6
  <2> QED BY <2>6, <2>7, <2>8 DEF SearchInv
<1> QED BY <1>1, <1>5, <1>6

\* What the invariant says of results.
LEMMA SearchKeeps == SearchInv => FoundInReach /\ FoundAll
<1> SUFFICES ASSUME SearchInv PROVE FoundInReach /\ FoundAll
  OBVIOUS
<1> USE SearchAssumption
<1>1. SearchTypeOK /\ Traced /\ BreadthFirst
  BY DEF SearchInv
<1>2. children \in [Objects -> SUBSET Nodes] /\ level \in [Nodes -> 0..Unseen]
  BY <1>1 DEF SearchTypeOK
<1>3. ASSUME NEW n \in found
      PROVE  n \in Matching /\ InReach(n)
  <2>1. n \in Nodes /\ n \in Matching /\ level[n] # Unseen /\ Way(children, n, level[n])
    BY <1>1 DEF Traced, Nodes
  <2>2. level[n] \in 0..MaxDepth
    BY <1>2, <2>1 DEF Unseen
  <2> QED BY <2>1, <2>2 DEF InReach
<1>4. ASSUME pending = {}, ~failed, NEW n \in Matching, InReach(n)
      PROVE  n \in found
  <2>1. PICK k \in 0..MaxDepth : Way(children, n, k)
    BY <1>4 DEF InReach
  <2>2. CASE children = NoSpace
    <3>1. PICK p \in [0..k -> Nodes] :
            /\ p[0] = Root /\ p[k] = n
            /\ \A i \in 0..k - 1 : p[i] \in Objects /\ p[i + 1] \in children[p[i]]
      BY <2>1 DEF Way
    <3>2. k = 0
      <4>1. k # 0 => 0 \in 0..k - 1
        OBVIOUS
      <4> QED BY <4>1, <3>1, <2>2 DEF NoSpace
    <3>3. n = Root
      BY <3>1, <3>2
    <3> QED BY <3>3, <1>4
  <2>3. CASE level[Root] = 0
    <3>1. \A x \in Objects : level[x] < MaxDepth => \A y \in children[x] : level[y] <= level[x] + 1
      BY <1>1, <1>4 DEF BreadthFirst
    <3>2. level[n] <= k
      BY <1>2, <2>1, <2>3, <3>1, LevelBound
    <3>3. n \in Nodes /\ level[n] # Unseen
      BY <3>2, <1>2 DEF Unseen, Nodes
    <3> QED BY <3>3, <1>1, <1>4 DEF BreadthFirst
  <2> QED BY <2>2, <2>3, <1>1 DEF Traced
<1> QED BY <1>3, <1>4 DEF FoundInReach, FoundAll

-----------------------------------------------------------------------------
(* The write *)

\* int() of a number in tenths drops the tenths.
LEMMA TruncCuts ==
    ASSUME NEW x \in Int
    PROVE  /\ Trunc(x) \in Int /\ Trunc(x) % 10 = 0
           /\ IF x >= 0 THEN x - Trunc(x) \in 0..9 ELSE Trunc(x) - x \in 0..9
<1>1. CASE x >= 0
  <2>1. Trunc(x) = (x \div 10) * 10
    BY <1>1 DEF Trunc
  <2> QED BY <1>1, <2>1
<1>2. CASE x < 0
  <2>1. Trunc(x) = -(((-x) \div 10) * 10)
    BY <1>2 DEF Trunc
  <2> QED BY <1>2, <2>1
<1> QED BY <1>1, <1>2

Numeric == payload.kind \in {"int", "float", "bool"}

\* The conversion succeeded, and every type the value may be written as that
\* is the variable's own gives it the payload's number
TypedCarries ==
    /\ payload \in Payloads
    /\ typed.kind \in Kinds
    /\ Numeric /\ node \in {variant, Inferred(typed)} => Carries(typed, payload, node)

WriteInv ==
    /\ step \in WriteSteps /\ node \in NodeTypes /\ variant \in Types
    /\ valueOnly \in BOOLEAN /\ lost \in BOOLEAN
    /\ step = "convert" => payload \in Payloads /\ stored = Nothing
    /\ step \in {"set", "raw", "attribute", "auto", "last"} => TypedCarries
    /\ step # "ok" /\ ~lost => stored = Nothing
    /\ step = "ok" => stored # Nothing
    /\ stored # Nothing =>
         stored = typed /\ node \in {variant, Inferred(typed)} /\ TypedCarries

LEMMA WriteInit == NoWrite => WriteInv
BY DEF NoWrite, WriteInv, WriteSteps, Types, NodeTypes, Nothing

LEMMA WriteEnds == EndWrite => WriteInv'
BY DEF EndWrite, WriteInv, WriteSteps, Types, NodeTypes, Nothing

LEMMA WriteBegins ==
    ASSUME NEW p \in Payloads, StartWrite(p)
    PROVE  WriteInv'
BY DEF StartWrite, WriteInv, WriteSteps, Types, NodeTypes, Nothing

LEMMA MessageBegins ==
    ASSUME NEW m \in Messages, StartWrite(Coerced(m))
    PROVE  WriteInv'
<1>1. Coerced(m) \in Payloads
  BY PayloadAssumption
<1> QED BY <1>1, WriteBegins

LEMMA WriteStays == WriteInv /\ UNCHANGED writeVars => WriteInv'
BY DEF WriteInv, TypedCarries, Numeric, writeVars, Carries

\* A converted value carries the payload's number.
LEMMA ConvertedCarries ==
    ASSUME NEW p \in Payloads, NEW t \in NodeTypes
    PROVE  /\ Converted(p, t).kind \in Kinds
           /\ p.kind \in {"int", "float", "bool"} => Carries(Converted(p, t), p, t)
<1> USE PayloadAssumption
<1>1. p.kind \in Kinds /\ p.v \in Int
  OBVIOUS
<1>2. CASE t = "Boolean"
  <2>1. Converted(p, t) = Truth(p)
    BY <1>2 DEF Converted, Integral
  <2>2. Truth(p).kind = "bool" /\ Truth(p).v = IF p.kind = "digits" THEN IF p.v = 10 THEN 10 ELSE 0
                                               ELSE IF p.v # 0 THEN 10 ELSE 0
    BY DEF Truth, Num
  <2> QED BY <1>1, <1>2, <2>1, <2>2 DEF Carries, Kinds, Integral
<1>3. CASE t \in Integral
  <2>1. Converted(p, t) = Num("int", Trunc(p.v))
    BY <1>3 DEF Converted, Integral
  <2>2. Num("int", Trunc(p.v)).kind = "int" /\ Num("int", Trunc(p.v)).v = Trunc(p.v)
    BY DEF Num
  <2>3. /\ Trunc(p.v) \in Int /\ Trunc(p.v) % 10 = 0
        /\ IF p.v >= 0 THEN p.v - Trunc(p.v) \in 0..9 ELSE Trunc(p.v) - p.v \in 0..9
    BY <1>1, TruncCuts
  <2> QED BY <1>3, <2>1, <2>2, <2>3 DEF Carries, Kinds
<1>4. CASE t \in {"Float", "Double", "String"}
  <2>1. Converted(p, t) = Num(IF t = "String" THEN "text" ELSE "float", p.v)
    BY <1>4 DEF Converted, Integral
  <2> QED BY <1>4, <2>1 DEF Carries, Kinds, Num, Integral
<1>5. CASE t = "Byte"
  <2>1. Converted(p, t) = IF p.kind \in {"int", "float", "bool"} THEN Num("float", p.v) ELSE p
    BY <1>5 DEF Converted, Integral
  <2> QED BY <1>1, <1>5, <2>1 DEF Carries, Kinds, Num, Integral
<1> QED BY <1>2, <1>3, <1>4, <1>5 DEF NodeTypes, Integral

LEMMA ConvertKeeps == WriteInv /\ Convert => WriteInv'
<1> SUFFICES ASSUME WriteInv, Convert PROVE WriteInv'
  OBVIOUS
<1> USE PayloadAssumption
<1>1. /\ step = "convert" /\ step' \in {"set", "error"}
      /\ node' = node /\ valueOnly' = valueOnly /\ stored' = stored
      /\ payload' = payload /\ lost' = lost
  BY DEF Convert
<1>2. payload \in Payloads /\ payload.kind \in Kinds /\ payload.v \in Int
  BY <1>1 DEF WriteInv
<1>3. TypedCarries' /\ variant' \in Types
  <2>1. CASE typed' = Converted(payload, node) /\ variant' = node
    <3>1. /\ Converted(payload, node).kind \in Kinds
          /\ Numeric => Carries(Converted(payload, node), payload, node)
      BY <1>2, ConvertedCarries DEF WriteInv, Numeric
    <3> QED BY <2>1, <3>1, <1>1, <1>2 DEF TypedCarries, Numeric, WriteInv, Types
  <2>2. CASE typed' = Num("float", payload.v) /\ variant' = "Float"
    <3>1. Num("float", payload.v).kind = "float" /\ Num("float", payload.v).v = payload.v
      BY DEF Num
    <3>2. Inferred(Num("float", payload.v)) = "Double"
      BY <3>1 DEF Inferred
    <3>3. \A t \in {"Float", "Double"} : Carries(Num("float", payload.v), payload, t)
      BY <3>1 DEF Carries, Integral
    <3> QED BY <2>2, <3>1, <3>2, <3>3, <1>1, <1>2 DEF TypedCarries, Numeric, Kinds, Types, NodeTypes
  <2>3. CASE FloatFails(payload) /\ typed' = payload /\ variant' = Inferred(payload)
    <3>1. payload.kind \in {"text", "null", "list", "object"}
      BY <2>3 DEF FloatFails
    <3>2. ~Numeric' /\ Inferred(payload) \in Types
      BY <1>1, <3>1 DEF Numeric, Inferred, Types, NodeTypes
    <3> QED BY <2>3, <3>2, <1>1, <1>2 DEF TypedCarries
  <2> QED BY <2>1, <2>2, <2>3 DEF Convert
<1> QED BY <1>1, <1>3 DEF WriteInv, WriteSteps

LEMMA AttemptKeeps ==
    ASSUME WriteInv, NEW t \in {variant, Inferred(typed)}, NEW bare \in BOOLEAN,
           NEW after \in [Results -> WriteSteps], Attempt(typed, t, bare, after),
           step \in {"set", "raw", "attribute", "auto", "last"},
           \A a \in Results : after[a] = "ok" <=> a = "good",
           \A a \in Results : after[a] \notin {"convert"}
    PROVE  WriteInv'
<1>1. PICK a \in Answers(typed, t, bare) :
        /\ stored' = IF a \in {"good", "applied"} THEN typed ELSE stored
        /\ lost' = (lost \/ a = "applied")
        /\ step' = after[a]
        /\ UNCHANGED <<node, valueOnly, payload, typed, variant>>
  BY DEF Attempt
<1>2. a \in Results /\ (a \in {"good", "applied"} => t = node)
  BY DEF Answers
<1>3. TypedCarries /\ TypedCarries'
  BY <1>1 DEF WriteInv, TypedCarries, Numeric, Carries
<1>4. typed # Nothing
  BY <1>3 DEF TypedCarries, Kinds, Nothing
<1>5. Inferred(typed)' = Inferred(typed)
  BY <1>1
<1>6. CASE a \in {"good", "applied"}
  <2>1. stored' = typed /\ node \in {variant, Inferred(typed)}
    BY <1>1, <1>2, <1>6
  <2>2. step' # "ok" /\ ~lost' => FALSE
    BY <1>1, <1>2, <1>6
  <2> QED BY <1>1, <1>2, <1>3, <1>4, <1>5, <2>1, <2>2 DEF WriteInv
<1>7. CASE a \notin {"good", "applied"}
  <2>1. stored' = stored /\ step' # "ok"
    BY <1>1, <1>2, <1>7
  <2>2. lost' = lost
    BY <1>1, <1>7 DEF WriteInv
  <2> QED BY <1>1, <1>2, <1>3, <1>5, <2>1, <2>2 DEF WriteInv
<1> QED BY <1>6, <1>7

LEMMA WriteKeeps == WriteInv /\ WriteStep => WriteInv'
<1> SUFFICES ASSUME WriteInv, WriteStep PROVE WriteInv'
  OBVIOUS
<1> USE DEF OkOr, Results, WriteSteps
<1>1. CASE Convert
  BY <1>1, ConvertKeeps
<1>2. CASE SetValue
  BY <1>2, AttemptKeeps DEF SetValue, AfterSet
<1>3. CASE WriteRaw
  BY <1>3, AttemptKeeps DEF WriteRaw
<1>4. CASE SetAttribute
  BY <1>4, AttemptKeeps DEF SetAttribute
<1>5. CASE SetInferred
  BY <1>5, AttemptKeeps DEF SetInferred
<1> QED BY <1>1, <1>2, <1>3, <1>4, <1>5 DEF WriteStep

-----------------------------------------------------------------------------
(* The rule *)

\* What a rule has chosen settles the name among the results
ChosenSettles == at = "chosen" => found \cap Exact = {target} \/ found = {target}

RuleInv ==
    /\ SearchInv /\ WriteInv /\ ChosenSettles
    /\ at \in {"idle", "search", "chosen", "write", "diagnose"} /\ target \in Matching \cup {None}

LEMMA ChosenIsOnly ==
    ASSUME IsFiniteSet(found), NEW x \in Chosen
    PROVE  x \in found /\ (found \cap Exact = {x} \/ found = {x})
<1>1. IsFiniteSet(found \cap Exact)
  BY FS_Subset
<1>2. CASE Cardinality(found \cap Exact) = 1
  <2>1. x \in found \cap Exact
    BY <1>2 DEF Chosen
  <2>2. PICK y : found \cap Exact = {y}
    BY <1>1, <1>2, FS_Singleton
  <2> QED BY <2>1, <2>2
<1>3. CASE Cardinality(found \cap Exact) # 1
  <2>1. Cardinality(found) = 1 /\ x \in found
    BY <1>3 DEF Chosen
  <2>2. PICK y : found = {y}
    BY <2>1, FS_Singleton
  <2> QED BY <2>1, <2>2
<1> QED BY <1>2, <1>3

LEMMA RuleInitial == Init => RuleInv
BY SearchInit, WriteInit DEF Init, RuleInv, ChosenSettles

LEMMA RuleInvStep == RuleInv /\ [Next]_vars => RuleInv'
<1> SUFFICES ASSUME RuleInv, [Next]_vars PROVE RuleInv'
  OBVIOUS
<1> USE DEF RuleInv
<1>1. CASE MessageUnresolved
  BY <1>1, SearchBegins, WriteStays DEF MessageUnresolved, ChosenSettles
<1>2. CASE SearchTurn
  <2>1. PICK n \in Nodes : Visit(n)
    BY <1>2 DEF SearchTurn
  <2>2. SearchInv'
    BY <2>1, SearchGoesOn
  <2> QED BY <1>2, <2>2, WriteStays DEF SearchTurn, ChosenSettles
<1>3. CASE Resolve
  <2>1. WriteInv'
    BY <1>3, WriteStays DEF Resolve
  <2>2. CASE target' \in Chosen /\ at' = "chosen" /\ UNCHANGED searchVars
    <3>1. IsFiniteSet(found) /\ found \subseteq Matching /\ found' = found
      BY <2>2 DEF SearchInv, Traced, searchVars
    <3>2. target' \in found /\ (found \cap Exact = {target'} \/ found = {target'})
      BY <3>1, <2>2, ChosenIsOnly
    <3>3. SearchInv'
      BY <2>2, SearchStays
    <3> QED BY <2>1, <2>2, <3>1, <3>2, <3>3 DEF ChosenSettles
  <2>3. CASE at' = "idle" /\ EndSearch /\ UNCHANGED target
    BY <2>1, <2>3, SearchEnds DEF ChosenSettles
  <2> QED BY <1>3, <2>2, <2>3 DEF Resolve
<1>4. ASSUME NEW m \in Messages, MessageResolved(m) PROVE RuleInv'
  BY <1>4, MessageBegins, SearchStays DEF MessageResolved, ChosenSettles
<1>5. ASSUME NEW m \in Messages, WriteResolved(m) PROVE RuleInv'
  BY <1>5, MessageBegins, SearchEnds DEF WriteResolved, ChosenSettles
<1>6. CASE WriteSkipped
  BY <1>6, SearchEnds, WriteStays DEF WriteSkipped, ChosenSettles
<1>7. CASE Writing
  BY <1>7, SearchStays, WriteKeeps DEF Writing, ChosenSettles
<1>8. CASE MessageDone
  BY <1>8, SearchStays, WriteEnds DEF MessageDone, ChosenSettles
<1>9. ASSUME NEW p \in Payloads, Diagnose(p) PROVE RuleInv'
  BY <1>9, WriteBegins, SearchStays DEF Diagnose, ChosenSettles
<1>10. CASE Readback
  BY <1>10, SearchStays, WriteEnds DEF Readback, ChosenSettles
<1>11. CASE UNCHANGED vars
  BY <1>11, SearchStays, WriteStays DEF vars, ChosenSettles, searchVars
<1> QED
  BY <1>1, <1>2, <1>3, <1>4, <1>5, <1>6, <1>7, <1>8, <1>9, <1>10, <1>11 DEF Next

LEMMA RuleInvariant == Spec => []RuleInv
BY RuleInitial, RuleInvStep, PTL DEF Spec

\* The type invariant.
THEOREM TypeCorrect == Spec => []TypeOK
<1>1. RuleInv => TypeOK
  BY DEF RuleInv, SearchInv, WriteInv, TypeOK
<1> QED BY <1>1, RuleInvariant, PTL

\* Whatever fails on the way, a search returns variables of a matching name
\* within its depth only: search_variables follows ways of at most that length.
THEOREM SearchSound == Spec => []FoundInReach
<1>1. RuleInv => FoundInReach
  BY SearchKeeps DEF RuleInv
<1> QED BY <1>1, RuleInvariant, PTL

\* A search that nothing cut short misses no match within its depth, whatever
\* cycles and shortcuts the address space has: queueing each node once is
\* enough because the queue is first in, first out.
THEOREM SearchComplete == Spec => []FoundAll
<1>1. RuleInv => FoundAll
  BY SearchKeeps DEF RuleInv
<1> QED BY <1>1, RuleInvariant, PTL

\* The variable a rule settles on after such a search is the only exact match
\* or the only match there is.
THEOREM RuleUnambiguous == Spec => []ResolvedUnambiguously
<1>1. RuleInv => ResolvedUnambiguously
  <2> SUFFICES ASSUME RuleInv, at = "chosen", pending = {}, ~failed
               PROVE  LET reach == {n \in Matching : InReach(n)}
                      IN  reach \cap Exact = {target} \/ reach = {target}
    BY DEF ResolvedUnambiguously
  <2>1. FoundInReach /\ FoundAll
    BY SearchKeeps DEF RuleInv
  <2>2. {n \in Matching : InReach(n)} = found
    BY <2>1 DEF FoundInReach, FoundAll
  <2> QED BY <2>2 DEF RuleInv, ChosenSettles
<1> QED BY <1>1, RuleInvariant, PTL

\* Under every type, payload, rejection and lost answer, write_variable reports
\* success only when the variable holds the payload's number, and an error only
\* when nothing was written or the answer that said so was lost.
THEOREM WriteIsTruthful == Spec => []WriteTruthful
<1>1. RuleInv => WriteTruthful
  BY DEF RuleInv, WriteInv, TypedCarries, Numeric, WriteTruthful
<1> QED BY <1>1, RuleInvariant, PTL

=============================================================================
