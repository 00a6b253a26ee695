------------------------- MODULE MessagePath_proofs -------------------------
(***************************************************************************)
(* For every set of mappings, topics and request threads and every bound:  *)
(* each rule that was there when a message came is applied to it once, in  *)
(* the order of the list, and each mapping that asks for a row has its     *)
(* INSERT tried.                                                           *)
(***************************************************************************)
EXTENDS MessagePath, Integers, FiniteSetTheorems, WellFoundedInduction, TLAPS

-----------------------------------------------------------------------------
(* Numbers and lists                                                       *)

\* A set of numbers has a least one; it stands in for induction.
LEMMA Least ==
    ASSUME NEW T \in SUBSET Nat, T # {}
    PROVE  \E x \in T : \A y \in T : x <= y
<1> DEFINE R == OpToRel(<, Nat)
<1>1. \A x, y \in Nat : y < x => <<y, x>> \in R
  BY DEF OpToRel
<1>2. IsWellFoundedOn(R, Nat)
  BY NatLessThanWellFounded
<1> HIDE DEF R
<1>3. PICK x \in T : \A y \in T : <<y, x>> \notin R
  BY <1>2, WFMin
<1>4. \A y \in T : ~(y < x)
  BY <1>1, <1>3
<1> QED BY <1>4

\* The members of S up to i grow by one at a time with i, so that S has an
\* n-th member: the least i with n of them.
LEMMA NthFacts ==
    ASSUME NEW k \in Nat, NEW S \in SUBSET (1..k), NEW n \in 1..Cardinality(S)
    PROVE  Nth(n, S) \in S /\ Cardinality({j \in S : j <= Nth(n, S)}) = n
<1> DEFINE upTo(i) == {j \in S : j <= i}
           T == {i \in 0..k : Cardinality(upTo(i)) >= n}
<1>0. \A j \in S : j \in Nat /\ 1 <= j /\ j <= k
  OBVIOUS
<1>1. IsFiniteSet(S)
  <2>1. IsFiniteSet(1..k)
    BY FS_Interval
  <2> QED BY <2>1, FS_Subset, S \subseteq 1..k
<1>2. \A i \in 0..k : IsFiniteSet(upTo(i)) /\ Cardinality(upTo(i)) \in Nat
  BY <1>1, FS_Subset, FS_CardinalityType
<1>3. k \in T
  <2>1. upTo(k) = S
    BY <1>0
  <2>2. Cardinality(S) >= n /\ k \in 0..k
    BY <1>1, FS_CardinalityType
  <2> QED BY <2>1, <2>2
<1>4. PICK x \in T : \A y \in T : x <= y
  <2>1. T \in SUBSET Nat /\ T # {}
    BY <1>3
  <2> HIDE DEF T
  <2> QED BY <2>1, Least
<1>5. x \in 0..k /\ x # 0
  <2>0. \A j \in S : ~(j <= 0)
    BY <1>0
  <2>1. upTo(0) = {}
    BY <2>0
  <2>2. Cardinality(upTo(0)) = 0
    BY <2>1, FS_EmptySet
  <2> QED BY <2>2
<1>6. x - 1 \in 0..k /\ x - 1 \notin T
  <2>1. x - 1 \in 0..k /\ ~(x <= x - 1)
    BY <1>5
  <2> HIDE DEF T
  <2> QED BY <1>4, <2>1
<1>7. Cardinality(upTo(x - 1)) < n /\ Cardinality(upTo(x)) >= n
  <2>1. Cardinality(upTo(x - 1)) \in Nat /\ ~(Cardinality(upTo(x - 1)) >= n)
    BY <1>2, <1>6
  <2>2. Cardinality(upTo(x)) >= n
    OBVIOUS
  <2> HIDE DEF upTo
  <2> QED BY <2>1, <2>2
<1>8. \A j \in S : j <= x <=> j <= x - 1 \/ j = x
  BY <1>0, <1>5
<1>9. x \in S
  <2>1. ASSUME x \notin S PROVE upTo(x) = upTo(x - 1)
    BY <2>1, <1>8
  <2>2. Cardinality(upTo(x)) # Cardinality(upTo(x - 1))
    <3>1. Cardinality(upTo(x - 1)) \in Nat /\ Cardinality(upTo(x)) \in Nat
      BY <1>2, <1>5, <1>6
    <3> HIDE DEF upTo
    <3> QED BY <1>7, <3>1
  <2> QED BY <2>1, <2>2
<1>10. upTo(x) = upTo(x - 1) \cup {x}
  BY <1>8, <1>9
<1>11. x \notin upTo(x - 1)
  BY <1>5
<1> HIDE DEF upTo, T
<1>12. Cardinality(upTo(x)) = Cardinality(upTo(x - 1)) + 1
  BY <1>2, <1>6, <1>10, <1>11, FS_AddElement
<1>13. Cardinality(upTo(x)) = n
  BY <1>2, <1>6, <1>7, <1>12
<1> QED BY <1>9, <1>13 DEF Nth, upTo

Uids(list) == {list[i].uid : i \in DOMAIN list}
Distinct(list) == \A i, j \in DOMAIN list : list[i].uid = list[j].uid => i = j

\* What is left of a list is of it, and no rule is there twice.
LEMMA WithoutFacts ==
    ASSUME NEW list \in Seq(Rules), NEW id, Distinct(list)
    PROVE  /\ Without(list, id) \in Seq(Rules)
           /\ Distinct(Without(list, id))
           /\ Uids(Without(list, id)) \subseteq Uids(list)
<1> DEFINE left == {i \in DOMAIN list : list[i].id # id}
           c == Cardinality(left)
           kept == [n \in 1..c |-> list[Nth(n, left)]]
<1>1. left \in SUBSET (1..Len(list)) /\ Len(list) \in Nat
  OBVIOUS
<1>2. c \in Nat
  <2>1. IsFiniteSet(1..Len(list))
    BY <1>1, FS_Interval
  <2>2. IsFiniteSet(left)
    BY <1>1, <2>1, FS_Subset
  <2> QED BY <2>2, FS_CardinalityType
<1>3. \A n \in 1..c : Nth(n, left) \in left /\ Cardinality({j \in left : j <= Nth(n, left)}) = n
  <2> HIDE DEF left
  <2> QED BY <1>1, NthFacts
<1>4. Without(list, id) = kept
  BY DEF Without
<1> HIDE DEF left, c
<1>5. \A n \in 1..c : Nth(n, left) \in DOMAIN list
  BY <1>3 DEF left
<1>6. kept \in Seq(Rules)
  <2>1. \A n \in 1..c : list[Nth(n, left)] \in Rules
    BY <1>5
  <2>2. kept \in [1..c -> Rules]
    BY <2>1
  <2> HIDE DEF kept
  <2> QED BY <1>2, <2>2
<1>7. Distinct(kept)
  <2> SUFFICES ASSUME NEW m \in 1..c, NEW n \in 1..c, kept[m].uid = kept[n].uid PROVE m = n
    BY DEF Distinct
  <2>1. Nth(m, left) = Nth(n, left)
    BY <1>5 DEF Distinct
  <2> QED BY <1>3, <2>1
<1>8. Uids(kept) \subseteq Uids(list)
  BY <1>5 DEF Uids
<1> QED BY <1>4, <1>6, <1>7, <1>8

-----------------------------------------------------------------------------
(* The invariant                                                           *)

\* The rule a request thread has made and not yet appended, the list it has
\* filtered and not yet assigned.
Making(t)    == job[t].at = "append"
Filtering(t) == job[t].at = "assign"

\* No rule is in a list twice, and one that is still to be appended is in none:
\* neither in the list of the service nor in one that is to replace it.
RuleInv ==
    /\ Distinct(rules) /\ Distinct(walk.list)
    /\ \A u \in Uids(rules) : u <= created
    /\ \A t \in Threads : Filtering(t) =>
          Distinct(job[t].kept) /\ \A u \in Uids(job[t].kept) : u <= created
    /\ \A t \in Threads : Making(t) =>
          /\ job[t].rule.uid <= created
          /\ job[t].rule.uid \notin Uids(rules)
          /\ \A s \in Threads : Filtering(s) => job[t].rule.uid \notin Uids(job[s].kept)
          /\ \A s \in Threads : Making(s) /\ job[s].rule.uid = job[t].rule.uid => s = t

\* Rule u has been applied to the message.
Served(u) == \E i \in DOMAIN served : served[i] = u

\* The walk still comes to rule u.
Ahead(u) ==
    \E j \in DOMAIN Walked : /\ j >= walk.pos
                             /\ Walked[j].uid = u
                             /\ TopicMatches(msg.topic, Walked[j].source)

\* What the loop over the rules has done lies behind it in the list, what it
\* owes lies ahead, whatever happens to the list meanwhile.
WalkInv ==
    /\ at # "wait" => msg \in Messages
    /\ at \notin {"rules", "lookup"} => served = <<>>
    /\ \A i, j \in DOMAIN served : served[i] = served[j] => i = j
    /\ at = "rules" => /\ \A i \in DOMAIN served : \E j \in DOMAIN Walked :
                             j < walk.pos /\ Walked[j].uid = served[i]
                       /\ \A u \in due : Served(u) \/ Ahead(u)
    /\ at = "lookup" => \A u \in due : Served(u)

\* A mapping that asks for a row has had its INSERT, or its turn is to come.
MappingInv ==
    /\ at \in {"rules", "lookup"} => wanted = {}
    /\ at = "wait" => wanted \subseteq settled
    /\ at \in {"write", "store"} =>
          /\ todo # {}
          /\ wanted \subseteq settled \cup todo
          /\ \A m \in wanted : /\ MappingOf[m].key \in msg.fields
                               /\ MappingOf[m].node # NoNode
                               /\ MappingOf[m].store

IInv == TypeOK /\ RuleInv /\ WalkInv /\ MappingInv

-----------------------------------------------------------------------------
(* Types                                                                   *)

LEMMA JobTypes ==
    ASSUME TypeOK, NEW t \in Threads
    PROVE  /\ Making(t) => job[t].rule \in Rules
           /\ Filtering(t) => job[t].kept \in Seq(Rules)
           /\ job[t].at = "subscribe" => job[t].topic \in Patterns
<1>1. job[t] \in Jobs \cup {Idle}
  BY DEF TypeOK
<1> QED BY <1>1 DEF Jobs, Idle, Making, Filtering

\* There are no more rules in a list than have been created.
LEMMA FewRules ==
    ASSUME NEW list \in Seq(Rules), Distinct(list), NEW c \in Nat,
           \A u \in Uids(list) : u <= c
    PROVE  Len(list) <= c
<1> DEFINE f == [i \in 1..Len(list) |-> list[i].uid]
<1>1. \A i \in 1..Len(list) : list[i].uid \in 1..c
  <2>1. \A i \in 1..Len(list) : list[i] \in Rules /\ list[i].uid \in Uids(list)
    BY DEF Uids
  <2> QED BY <2>1, BoundAssumption DEF Rules
<1>2. f \in [1..Len(list) -> 1..c]
  BY <1>1
<1>3. \A i, j \in 1..Len(list) : f[i] = f[j] => i = j
  BY DEF Distinct
<1>4. \A k \in Nat : IsFiniteSet(1..k) /\ Cardinality(1..k) = k
  <2> SUFFICES ASSUME NEW k \in Nat PROVE IsFiniteSet(1..k) /\ Cardinality(1..k) = k
    OBVIOUS
  <2>1. 1 \in Int /\ k \in Int /\ (IF 1 > k THEN 0 ELSE k - 1 + 1) = k
    OBVIOUS
  <2> QED BY <2>1, FS_Interval
<1>5. Len(list) \in Nat
  OBVIOUS
<1> HIDE DEF f
<1>6. ASSUME Cardinality(1..c) < Cardinality(1..Len(list)) PROVE FALSE
  <2> DEFINE S == 1..Len(list)
             T == 1..c
  <2>1. f \in [S -> T] /\ IsFiniteSet(S) /\ IsFiniteSet(T) /\ Cardinality(T) < Cardinality(S)
    BY <1>2, <1>4, <1>5, <1>6
  <2>2. \A i, j \in S : f[i] = f[j] => i = j
    BY <1>3
  <2> HIDE DEF S, T
  <2> QED BY <2>1, <2>2, FS_PigeonHole
<1> QED BY <1>4, <1>5, <1>6

LEMMA WalkedType == TypeOK => Walked \in Seq(Rules)
BY DEF TypeOK, Walked

LEMMA CurrentFacts ==
    ASSUME TypeOK, todo # {}
    PROVE  Current \in todo
<1>1. \E m \in todo : \A n \in todo : m <= n
  BY Least, MappingAssumption DEF TypeOK
<1> QED BY <1>1 DEF Current

\* Delivery to the broker's queue keeps the queue's type.
LEMMA DeliverType ==
    ASSUME TypeOK, NEW m \in Messages, Deliver(m)
    PROVE  inbox' \in Seq(Messages) /\ Len(inbox') <= MaxQueue
BY BoundAssumption DEF TypeOK, Deliver

LEMMA InitIInv == Init => IInv
<1> SUFFICES ASSUME Init PROVE IInv
  OBVIOUS
<1>1. TypeOK
  BY MappingAssumption, BoundAssumption
  DEF Init, TypeOK, Patterns, Rows, NoWalk, NoMessage, Idle
<1>2. RuleInv
  BY DEF Init, RuleInv, Distinct, Uids, Making, Filtering, NoWalk, Idle
<1>3. WalkInv
  BY DEF Init, WalkInv
<1>4. MappingInv
  BY DEF Init, MappingInv
<1> QED BY <1>1, <1>2, <1>3, <1>4 DEF IInv

\* Each action keeps the types; that an id is within its bound rests on there
\* being no more rules in the list than were created.
LEMMA TypeStep ==
    ASSUME IInv, [Next]_vars
    PROVE  TypeOK'
<1> USE DEF IInv
<1>m. Mappings \subseteq Nat /\ MaxRules \in Nat /\ MaxQueue \in Nat /\ MaxMessages \in Nat /\ MaxDbFails \in Nat
  BY MappingAssumption, BoundAssumption
<1>1. CASE Receive
  <2>1. Head(inbox) \in Messages /\ Tail(inbox) \in Seq(Messages) /\ Len(Tail(inbox)) <= MaxQueue
    BY <1>1, <1>m DEF Receive, TypeOK
  <2>2. {rules[i].uid : i \in {j \in DOMAIN rules : TopicMatches(msg'.topic, rules[j].source)}} \subseteq 1..MaxRules
    <3>1. \A i \in DOMAIN rules : rules[i] \in Rules
      BY DEF TypeOK
    <3>2. \A i \in DOMAIN rules : rules[i].uid \in 1..MaxRules
      BY <3>1 DEF Rules
    <3> QED BY <3>2
  <2> QED BY <1>1, <2>1, <2>2 DEF Receive, TypeOK, ruleVars, dbVars
<1>2. CASE NextRule
  <2> DEFINE rule == Walked[walk.pos]
  <2>1. rule \in Rules /\ walk.pos + 1 \in Nat \ {0}
    BY <1>2, WalkedType DEF NextRule, TypeOK
  <2>2. msg \in Messages
    BY <1>2 DEF NextRule, WalkInv
  <2>3. inbox' \in Seq(Messages) /\ Len(inbox') <= MaxQueue
    <3>1. rule.target \in Topics => [msg EXCEPT !.topic = rule.target] \in Messages
      BY <2>2 DEF Messages
    <3>2. CASE UNCHANGED inbox
      BY <3>2 DEF TypeOK
    <3>3. CASE rule.target \in Topics /\ Deliver([msg EXCEPT !.topic = rule.target])
      BY <3>1, <3>3, DeliverType
    <3> QED BY <1>2, <3>2, <3>3 DEF NextRule, Forward
  <2>4. served' \in Seq(1..MaxRules)
    <3>1. rule.uid \in 1..MaxRules
      BY <2>1 DEF Rules
    <3>2. served' = served \/ served' = Append(served, rule.uid)
      BY <1>2 DEF NextRule
    <3>3. served \in Seq(1..MaxRules)
      BY DEF TypeOK
    <3> DEFINE U == 1..MaxRules
               u == rule.uid
    <3>4. served \in Seq(U) /\ u \in U /\ (served' = served \/ served' = Append(served, u))
      BY <3>1, <3>2, <3>3
    <3> HIDE DEF U, u
    <3>5. served' \in Seq(U)
      BY <3>4
    <3> QED BY <3>5 DEF U
  <2>5. walk' \in [live : BOOLEAN, list : Seq(Rules), pos : Nat \ {0}]
    BY <1>2, <2>1 DEF NextRule, TypeOK
  <2> QED BY <1>2, <2>3, <2>4, <2>5 DEF NextRule, TypeOK, ruleVars, dbVars
<1>3. CASE RulesDone
  BY <1>3 DEF RulesDone, TypeOK, NoWalk, ruleVars, dbVars, history
<1>4. CASE Lookup
  BY <1>4 DEF Lookup, Return, TypeOK, ruleVars, dbVars
<1>5. CASE WriteToPlc
  BY <1>5 DEF WriteToPlc, Proceed, Return, TypeOK, ruleVars, dbVars, history
<1>6. CASE Store
  <2>1. Current \in todo
    BY <1>6, CurrentFacts DEF Store, MappingInv
  <2>2. dbFails' \in 0..MaxDbFails
    BY <1>6, <1>m DEF Store, TypeOK
  <2>3. settled' \subseteq Mappings /\ todo' \subseteq Mappings
    BY <1>6, <2>1 DEF Store, Proceed, TypeOK
  <2> QED BY <1>6, <2>2, <2>3 DEF Store, Proceed, Return, TypeOK, ruleVars, dbVars
<1>7. CASE \E m \in Messages : PublishOther(m)
  <2> PICK m \in Messages : PublishOther(m)
    BY <1>7
  <2>1. inbox' \in Seq(Messages) /\ Len(inbox') <= MaxQueue
    BY DeliverType DEF PublishOther
  <2>2. sent' \in 0..MaxMessages
    BY <1>m DEF PublishOther, TypeOK
  <2> QED BY <2>1, <2>2 DEF PublishOther, TypeOK, ruleVars, dbVars, history
<1>8. CASE \E t \in Threads : Request(t)
  <2> PICK t \in Threads : Request(t)
    BY <1>8
  <2>1. ASSUME NEW source \in Patterns, NEW target \in Topics \cup Nodes, CreateRule(t, source, target)
        PROVE  TypeOK'
    <3> DEFINE rule == [uid |-> created + 1, id |-> Len(rules) + 1, source |-> source, target |-> target]
    <3>1. Len(rules) <= created
      BY FewRules DEF TypeOK, RuleInv
    <3>2. created + 1 \in 1..MaxRules /\ Len(rules) + 1 \in 1..MaxRules
      BY <2>1, <3>1, <1>m DEF CreateRule, TypeOK
    <3>3. rule \in Rules
      BY <3>2 DEF Rules
    <3>4. job' = [job EXCEPT ![t] = [at |-> "append", rule |-> rule]]
      BY <2>1 DEF CreateRule, Goto
    <3>5. job' \in [Threads -> Jobs \cup {Idle}]
      BY <3>3, <3>4 DEF TypeOK, Jobs
    <3>6. created' \in 0..MaxRules
      BY <2>1, <3>2 DEF CreateRule
    <3> QED BY <2>1, <3>5, <3>6 DEF CreateRule, TypeOK, dbVars, history
  <2>2. ASSUME NEW id \in 1..MaxRules, FilterRules(t, id)
        PROVE  TypeOK'
    <3>1. Without(rules, id) \in Seq(Rules)
      BY WithoutFacts DEF TypeOK, RuleInv
    <3>2. job' \in [Threads -> Jobs \cup {Idle}]
      BY <2>2, <3>1 DEF FilterRules, Goto, TypeOK, Jobs
    <3> QED BY <2>2, <3>2 DEF FilterRules, TypeOK, dbVars, history
  <2> QED BY <2>1, <2>2 DEF Request
<1>9. CASE \E t \in Threads : Continue(t)
  <2> PICK t \in Threads : Continue(t)
    BY <1>9
  <2>1. CASE AppendRule(t)
    <3>1. job[t].rule \in Rules
      BY <2>1, JobTypes DEF AppendRule, Making
    <3>2. job' \in [Threads -> Jobs \cup {Idle}]
      BY <2>1, <3>1 DEF AppendRule, Goto, TypeOK, Jobs, Rules
    <3>3. rules' \in Seq(Rules)
      BY <2>1, <3>1 DEF AppendRule, TypeOK
    <3> QED BY <2>1, <3>2, <3>3 DEF AppendRule, TypeOK, dbVars, history
  <2>2. CASE SubscribeRule(t)
    <3>1. subs' \subseteq Patterns
      BY <2>2, JobTypes DEF SubscribeRule, TypeOK
    <3>2. job' \in [Threads -> Jobs \cup {Idle}]
      BY <2>2 DEF SubscribeRule, Goto, TypeOK
    <3> QED BY <2>2, <3>1, <3>2 DEF SubscribeRule, TypeOK, dbVars, history
  <2>3. CASE AssignRules(t)
    <3>1. rules' \in Seq(Rules)
      BY <2>3, JobTypes DEF AssignRules, Filtering
    <3>2. job' \in [Threads -> Jobs \cup {Idle}]
      BY <2>3 DEF AssignRules, Goto, TypeOK
    <3>3. walk' \in [live : BOOLEAN, list : Seq(Rules), pos : Nat \ {0}]
      BY <2>3 DEF AssignRules, TypeOK
    <3> QED BY <2>3, <3>1, <3>2, <3>3 DEF AssignRules, TypeOK, dbVars, history
  <2> QED BY <2>1, <2>2, <2>3 DEF Continue
<1>10. CASE DbDown
  <2>1. dbFails' \in 0..MaxDbFails
    BY <1>10, <1>m DEF DbDown, TypeOK
  <2> QED BY <1>10, <2>1 DEF DbDown, TypeOK, ruleVars, history
<1>11. CASE DbUp
  BY <1>11 DEF DbUp, TypeOK, ruleVars, history
<1>12. CASE UNCHANGED vars
  BY <1>12 DEF vars, TypeOK, ruleVars, dbVars, history
<1> QED BY <1>1, <1>2, <1>3, <1>4, <1>5, <1>6, <1>7, <1>8, <1>9, <1>10, <1>11, <1>12
        DEF Next, OnMessage

-----------------------------------------------------------------------------
(* No rule is there twice                                                  *)

LEMMA AppendFacts ==
    ASSUME NEW list \in Seq(Rules), NEW r \in Rules, Distinct(list), r.uid \notin Uids(list)
    PROVE  /\ Distinct(Append(list, r))
           /\ Uids(Append(list, r)) = Uids(list) \cup {r.uid}
<1> DEFINE longer == Append(list, r)
<1>1. /\ DOMAIN longer = DOMAIN list \cup {Len(list) + 1} /\ Len(list) + 1 \notin DOMAIN list
      /\ longer[Len(list) + 1] = r
      /\ \A i \in DOMAIN list : longer[i] = list[i]
  OBVIOUS
<1> HIDE DEF longer
<1>2. Distinct(longer)
  BY <1>1 DEF Distinct, Uids
<1>3. Uids(longer) = Uids(list) \cup {r.uid}
  BY <1>1 DEF Uids
<1> QED BY <1>2, <1>3 DEF longer

\* The steps that leave the rules and the requests alone.
LEMMA RuleFrame ==
    ASSUME RuleInv, UNCHANGED <<rules, job, created>>, Distinct(walk'.list)
    PROVE  RuleInv'
BY DEF RuleInv, Making, Filtering

LEMMA RuleStep ==
    ASSUME IInv, [Next]_vars
    PROVE  RuleInv'
<1> USE DEF IInv
<1>a. Distinct(walk.list) /\ Distinct(<<>>)
  BY DEF RuleInv, Distinct
<1>b. rules \in Seq(Rules) /\ created \in Nat
  BY DEF TypeOK
<1>1. CASE OnMessage
  <2>1. UNCHANGED <<rules, job, created>>
    BY <1>1 DEF OnMessage, Receive, NextRule, RulesDone, Lookup, WriteToPlc, Store, ruleVars
  <2>2. walk'.list = <<>> \/ walk'.list = walk.list
    BY <1>1 DEF OnMessage, Receive, NextRule, RulesDone, Lookup, WriteToPlc, Store, NoWalk, TypeOK
  <2> QED BY <1>a, <2>1, <2>2, RuleFrame
<1>2. CASE \E m \in Messages : PublishOther(m)
  BY <1>2, <1>a, RuleFrame DEF PublishOther, ruleVars
<1>3. ASSUME NEW t \in Threads, NEW source \in Patterns, NEW target \in Topics \cup Nodes,
             CreateRule(t, source, target)
      PROVE  RuleInv'
  <2>1. /\ UNCHANGED <<rules, walk>> /\ created' = created + 1
        /\ job'[t].at = "append" /\ job'[t].rule.uid = created + 1
        /\ \A s \in Threads \ {t} : job'[s] = job[s]
    BY <1>3 DEF CreateRule, Goto, TypeOK
  <2>2. \A s \in Threads : Making(s) => job[s].rule.uid \in Nat
    BY JobTypes DEF Rules
  <2>3. \A s \in Threads : Filtering(s) => \A u \in Uids(job[s].kept) : u \in Nat /\ u <= created
    <3>1. ASSUME NEW s \in Threads, Filtering(s) PROVE \A i \in DOMAIN job[s].kept : job[s].kept[i] \in Rules
      BY <3>1, JobTypes
    <3> QED BY <3>1 DEF RuleInv, Uids, Rules
  <2>4. \A u \in Uids(rules) : u \in Nat /\ u <= created
    <3>1. \A i \in DOMAIN rules : rules[i] \in Rules
      BY <1>b
    <3> QED BY <3>1 DEF RuleInv, Uids, Rules
  <2> QED BY <1>b, <2>1, <2>2, <2>3, <2>4 DEF RuleInv, Making, Filtering
<1>4. ASSUME NEW t \in Threads, NEW id \in 1..MaxRules, FilterRules(t, id)
      PROVE  RuleInv'
  <2>1. /\ UNCHANGED <<rules, walk, created>>
        /\ job'[t] = [at |-> "assign", kept |-> Without(rules, id)]
        /\ \A s \in Threads \ {t} : job'[s] = job[s]
    BY <1>4 DEF FilterRules, Goto, TypeOK
  <2>2. Distinct(Without(rules, id)) /\ Uids(Without(rules, id)) \subseteq Uids(rules)
    BY <1>b, WithoutFacts DEF RuleInv
  <2> QED BY <2>1, <2>2 DEF RuleInv, Making, Filtering
<1>5. ASSUME NEW t \in Threads, AppendRule(t)
      PROVE  RuleInv'
  <2>1. /\ rules' = Append(rules, job[t].rule) /\ UNCHANGED <<walk, created>>
        /\ job'[t].at = "subscribe" /\ \A s \in Threads \ {t} : job'[s] = job[s]
        /\ Making(t)
    BY <1>5 DEF AppendRule, Goto, TypeOK, Making
  <2>2. Distinct(rules') /\ Uids(rules') = Uids(rules) \cup {job[t].rule.uid}
    BY <1>b, <2>1, JobTypes, AppendFacts DEF RuleInv
  <2> QED BY <2>1, <2>2 DEF RuleInv, Making, Filtering
<1>6. ASSUME NEW t \in Threads, SubscribeRule(t)
      PROVE  RuleInv'
  <2>1. /\ UNCHANGED <<rules, walk, created>>
        /\ job'[t].at = "idle" /\ \A s \in Threads \ {t} : job'[s] = job[s]
    BY <1>6 DEF SubscribeRule, Goto, TypeOK, Idle
  <2> QED BY <2>1 DEF RuleInv, Making, Filtering
<1>7. ASSUME NEW t \in Threads, AssignRules(t)
      PROVE  RuleInv'
  <2>1. /\ rules' = job[t].kept /\ UNCHANGED created
        /\ walk'.list = walk.list \/ walk'.list = rules
        /\ job'[t].at = "idle" /\ \A s \in Threads \ {t} : job'[s] = job[s]
        /\ Filtering(t)
    BY <1>7 DEF AssignRules, Goto, TypeOK, Idle, Filtering
  <2> QED BY <2>1 DEF RuleInv, Making, Filtering
<1>8. CASE DbDown \/ DbUp \/ UNCHANGED vars
  BY <1>8, <1>a, RuleFrame DEF DbDown, DbUp, vars, ruleVars
<1> QED BY <1>1, <1>2, <1>3, <1>4, <1>5, <1>6, <1>7, <1>8 DEF Next, Request, Continue

-----------------------------------------------------------------------------
(* The mappings                                                            *)

LEMMA MappingStep ==
    ASSUME IInv, [Next]_vars
    PROVE  MappingInv'
<1> USE DEF IInv
<1>1. CASE Receive
  BY <1>1 DEF Receive, MappingInv
<1>2. CASE NextRule \/ RulesDone
  BY <1>2 DEF NextRule, RulesDone, MappingInv, history
<1>3. CASE Lookup
  BY <1>3 DEF Lookup, Return, MappingInv
<1>4. CASE WriteToPlc
  <2>1. Current \in todo
    BY <1>4, CurrentFacts DEF WriteToPlc, MappingInv
  <2> QED BY <1>4, <2>1 DEF WriteToPlc, Proceed, Return, MappingInv, history
<1>5. CASE Store
  <2>1. Current \in todo
    BY <1>5, CurrentFacts DEF Store, MappingInv
  <2> QED BY <1>5, <2>1 DEF Store, Proceed, Return, MappingInv
<1>6. CASE \E m \in Messages : PublishOther(m)
  BY <1>6 DEF PublishOther, MappingInv, history
<1>7. CASE \E t \in Threads : Request(t) \/ Continue(t)
  BY <1>7 DEF Request, Continue, CreateRule, FilterRules, AppendRule, SubscribeRule, AssignRules,
              MappingInv, history
<1>8. CASE DbDown \/ DbUp \/ UNCHANGED vars
  BY <1>8 DEF DbDown, DbUp, vars, MappingInv, history
<1> QED BY <1>1, <1>2, <1>3, <1>4, <1>5, <1>6, <1>7, <1>8 DEF Next, OnMessage

-----------------------------------------------------------------------------
(* The walk over the rules                                                 *)

LEMMA WalkedDistinct == RuleInv => Distinct(Walked)
BY DEF RuleInv, Walked

\* The loop does not notice a step that leaves its list as it is or makes it
\* longer at the end.
LEMMA WalkFrame ==
    ASSUME WalkInv, UNCHANGED <<at, msg, served, due>>, walk'.pos = walk.pos,
           \A j \in DOMAIN Walked : j \in DOMAIN Walked' /\ Walked'[j] = Walked[j]
    PROVE  WalkInv'
<1>1. ASSUME NEW u, Ahead(u) PROVE Ahead(u)'
  BY <1>1 DEF Ahead
<1>2. ASSUME NEW u, Served(u) PROVE Served(u)'
  BY <1>2 DEF Served
<1>3. ASSUME at = "rules", NEW i \in DOMAIN served
      PROVE  \E j \in DOMAIN Walked' : j < walk'.pos /\ Walked'[j].uid = served[i]
  BY <1>3 DEF WalkInv
<1> QED BY <1>1, <1>2, <1>3 DEF WalkInv

\* One turn of the loop: its rule is served if it matches, and not again.
LEMMA WalkTurn ==
    ASSUME IInv, NextRule
    PROVE  WalkInv'
<1> USE DEF IInv
<1> DEFINE W == Walked
           rule == W[walk.pos]
           hit == TopicMatches(msg.topic, rule.source)
<1>1. /\ W \in Seq(Rules) /\ Distinct(W) /\ served \in Seq(1..MaxRules)
      /\ walk.pos \in DOMAIN W /\ walk.pos \in Nat
  BY WalkedType, WalkedDistinct DEF NextRule, TypeOK
<1>2. /\ Walked' = W /\ walk'.pos = walk.pos + 1
      /\ UNCHANGED <<at, msg, due>> /\ at = "rules"
      /\ hit => served' = Append(served, rule.uid)
      /\ ~hit => served' = served
  BY DEF NextRule, Walked, ruleVars, TypeOK
<1>3. /\ \A i \in DOMAIN served : \E j \in DOMAIN W : j < walk.pos /\ W[j].uid = served[i]
      /\ \A i, j \in DOMAIN served : served[i] = served[j] => i = j
      /\ \A u \in due : Served(u) \/ Ahead(u)
  BY <1>2 DEF WalkInv
<1>4. \A i \in DOMAIN served : served[i] # rule.uid
  <2> SUFFICES ASSUME NEW i \in DOMAIN served, served[i] = rule.uid PROVE FALSE
    OBVIOUS
  <2>1. PICK j \in DOMAIN W : j < walk.pos /\ W[j].uid = served[i]
    BY <1>3
  <2> HIDE DEF W
  <2>2. j = walk.pos
    BY <1>1, <2>1 DEF Distinct
  <2> QED BY <1>1, <2>1, <2>2
<1>5. hit => /\ DOMAIN served' = DOMAIN served \cup {Len(served) + 1}
             /\ Len(served) + 1 \notin DOMAIN served
             /\ served'[Len(served) + 1] = rule.uid
             /\ \A i \in DOMAIN served : served'[i] = served[i]
  <2> DEFINE u == rule.uid
  <2>1. hit => served' = Append(served, u)
    BY <1>2
  <2> HIDE DEF u, hit
  <2>2. hit => /\ DOMAIN served' = DOMAIN served \cup {Len(served) + 1}
               /\ Len(served) + 1 \notin DOMAIN served
               /\ served'[Len(served) + 1] = u
               /\ \A i \in DOMAIN served : served'[i] = served[i]
    BY <1>1, <2>1
  <2> QED BY <2>2 DEF u
<1>6. ASSUME NEW u, Served(u) PROVE Served(u)'
  BY <1>2, <1>5, <1>6 DEF Served
<1>7. ASSUME NEW u, Ahead(u) PROVE Served(u)' \/ Ahead(u)'
  <2>1. PICK j \in DOMAIN W : j >= walk.pos /\ W[j].uid = u /\ TopicMatches(msg.topic, W[j].source)
    BY <1>7 DEF Ahead
  <2>2. CASE j = walk.pos
    BY <1>5, <2>1, <2>2 DEF Served
  <2>3. CASE j # walk.pos
    <3>1. j >= walk.pos + 1
      BY <1>1, <2>1, <2>3
    <3> QED BY <1>2, <2>1, <3>1 DEF Ahead, TopicMatches
  <2> QED BY <2>2, <2>3
<1> HIDE DEF W, rule, hit
<1>8. \A i \in DOMAIN served' : \E j \in DOMAIN W : j < walk.pos + 1 /\ W[j].uid = served'[i]
  <2>1. \A j \in DOMAIN W : j \in Nat
    BY <1>1
  <2>2. \A i \in DOMAIN served : \E j \in DOMAIN W : j < walk.pos + 1 /\ W[j].uid = served[i]
    BY <1>1, <1>3, <2>1
  <2>3. walk.pos < walk.pos + 1 /\ W[walk.pos].uid = rule.uid
    BY <1>1 DEF rule
  <2> QED BY <1>1, <1>2, <1>5, <2>2, <2>3
<1>9. \A i, j \in DOMAIN served' : served'[i] = served'[j] => i = j
  BY <1>2, <1>3, <1>4, <1>5
<1>10. msg \in Messages
  BY <1>2 DEF WalkInv
<1> QED BY <1>2, <1>3, <1>6, <1>7, <1>8, <1>9, <1>10 DEF WalkInv

LEMMA WalkStep ==
    ASSUME IInv, [Next]_vars
    PROVE  WalkInv'
<1> USE DEF IInv
<1>1. CASE Receive
  <2>1. /\ at' = "rules" /\ msg' \in Messages /\ served = <<>> /\ served' = <<>>
        /\ Walked' = rules /\ walk'.pos = 1
    BY <1>1 DEF Receive, Walked, WalkInv, TypeOK, ruleVars
  <2>2. \A u \in due' : Ahead(u)'
    <3>1. \A j \in DOMAIN rules : j >= 1
      BY DEF TypeOK
    <3> QED BY <1>1, <2>1, <3>1 DEF Receive, Ahead, TopicMatches
  <2> QED BY <2>1, <2>2 DEF WalkInv
<1>2. CASE NextRule
  BY <1>2, WalkTurn
<1>3. CASE RulesDone
  <2>1. \A u \in due : ~Ahead(u)
    <3>1. Walked \in Seq(Rules) /\ walk.pos \in Nat
      BY WalkedType DEF TypeOK
    <3>2. \A j \in DOMAIN Walked : ~(j >= walk.pos)
      BY <1>3, <3>1 DEF RulesDone
    <3> QED BY <3>2 DEF Ahead
  <2> QED BY <1>3, <2>1 DEF RulesDone, WalkInv, Served, history
<1>4. CASE Lookup
  BY <1>4 DEF Lookup, Return, WalkInv
<1>5. CASE WriteToPlc \/ Store
  BY <1>5 DEF WriteToPlc, Store, Proceed, Return, WalkInv, history
<1>6. ASSUME NEW t \in Threads, AppendRule(t)
      PROVE  WalkInv'
  <2>1. UNCHANGED <<at, msg, served, due, walk>>
    BY <1>6 DEF AppendRule, history
  <2>2. \A j \in DOMAIN rules : j \in DOMAIN rules' /\ rules'[j] = rules[j]
    BY <1>6, JobTypes DEF AppendRule, TypeOK, Making
  <2> QED BY <2>1, <2>2, WalkFrame DEF Walked
<1>7. ASSUME NEW t \in Threads, AssignRules(t)
      PROVE  WalkInv'
  <2>1. UNCHANGED <<at, msg, served, due>> /\ walk'.pos = walk.pos /\ Walked' = Walked
    BY <1>7 DEF AssignRules, Walked, TypeOK, history
  <2> QED BY <2>1, WalkFrame
<1>8. CASE \/ \E m \in Messages : PublishOther(m)
           \/ \E t \in Threads : Request(t) \/ SubscribeRule(t)
           \/ DbDown \/ DbUp \/ UNCHANGED vars
  <2>1. UNCHANGED <<at, msg, served, due, walk, rules>>
    BY <1>8 DEF PublishOther, Request, CreateRule, FilterRules, SubscribeRule, DbDown, DbUp,
                vars, ruleVars, history
  <2> QED BY <2>1, WalkFrame DEF Walked
<1> QED BY <1>1, <1>2, <1>3, <1>4, <1>5, <1>6, <1>7, <1>8 DEF Next, OnMessage, Continue

-----------------------------------------------------------------------------
(* The order of the walk                                                   *)

\* A step that serves no rule keeps the order: what has been served stays where
\* it is in the list, and no rule is there twice.
LEMMA OrderFrame ==
    ASSUME WalkInv, ServedInOrder, UNCHANGED <<at, served>>, Distinct(Walked'),
           \A j \in DOMAIN Walked : j \in DOMAIN Walked' /\ Walked'[j] = Walked[j]
    PROVE  ServedInOrder'
<1> SUFFICES ASSUME at = "rules",
                    NEW i \in DOMAIN served, NEW j \in DOMAIN served, i < j,
                    NEW p \in DOMAIN Walked', NEW q \in DOMAIN Walked',
                    Walked'[p].uid = served[i], Walked'[q].uid = served[j]
             PROVE  p < q
  BY DEF ServedInOrder
<1>1. PICK p0 \in DOMAIN Walked : Walked[p0].uid = served[i]
  BY DEF WalkInv
<1>2. PICK q0 \in DOMAIN Walked : Walked[q0].uid = served[j]
  BY DEF WalkInv
<1>3. p = p0 /\ q = q0
  BY <1>1, <1>2 DEF Distinct
<1> QED BY <1>1, <1>2, <1>3 DEF ServedInOrder

\* A turn of the loop serves the rule after all it has served before.
LEMMA OrderTurn ==
    ASSUME IInv, ServedInOrder, NextRule
    PROVE  ServedInOrder'
<1> USE DEF IInv
<1> DEFINE W == Walked
           u == W[walk.pos].uid
<1>1. /\ W \in Seq(Rules) /\ Distinct(W) /\ served \in Seq(1..MaxRules)
      /\ walk.pos \in DOMAIN W
  BY WalkedType, WalkedDistinct DEF NextRule, TypeOK
<1>2. at = "rules" /\ Walked' = W /\ (served' = served \/ served' = Append(served, u))
  BY DEF NextRule, Walked, ruleVars, TypeOK
<1>3. \A i \in DOMAIN served : \E j \in DOMAIN W : j < walk.pos /\ W[j].uid = served[i]
  BY <1>2 DEF WalkInv
<1>4. \A i, j \in DOMAIN served, p, q \in DOMAIN W :
          i < j /\ W[p].uid = served[i] /\ W[q].uid = served[j] => p < q
  BY <1>2 DEF ServedInOrder
<1> HIDE DEF W
<1>5. CASE served' = served
  BY <1>2, <1>4, <1>5 DEF ServedInOrder
<1>6. CASE served' = Append(served, u)
  <2>1. SUFFICES ASSUME NEW i \in DOMAIN served', NEW j \in DOMAIN served', i < j,
                        NEW p \in DOMAIN W, NEW q \in DOMAIN W,
                        W[p].uid = served'[i], W[q].uid = served'[j]
                 PROVE  p < q
    BY <1>2 DEF ServedInOrder
  <2> HIDE DEF u
  <2>2. /\ i \in DOMAIN served /\ served'[i] = served[i]
        /\ \/ j \in DOMAIN served /\ served'[j] = served[j]
           \/ served'[j] = u
    BY <1>1, <1>6, <2>1
  <2>3. CASE j \in DOMAIN served /\ served'[j] = served[j]
    BY <1>4, <2>1, <2>2, <2>3
  <2>4. CASE served'[j] = u
    <3>1. q = walk.pos
      BY <1>1, <2>1, <2>4 DEF u, Distinct
    <3>2. PICK p0 \in DOMAIN W : p0 < walk.pos /\ W[p0].uid = served[i]
      BY <1>3, <2>2
    <3>3. p = p0
      BY <1>1, <2>1, <2>2, <3>2 DEF Distinct
    <3> QED BY <3>1, <3>2, <3>3
  <2> QED BY <2>2, <2>3, <2>4
<1> QED BY <1>2, <1>5, <1>6

LEMMA OrderStep ==
    ASSUME IInv, IInv', ServedInOrder, [Next]_vars
    PROVE  ServedInOrder'
<1> USE DEF IInv
<1>0. Distinct(Walked')
  BY DEF RuleInv, Walked
<1>1. CASE Receive
  <2>1. served' = <<>>
    BY <1>1 DEF Receive, WalkInv
  <2> QED BY <2>1 DEF ServedInOrder
<1>2. CASE NextRule
  BY <1>2, OrderTurn
<1>3. CASE RulesDone \/ Lookup \/ WriteToPlc \/ Store
  <2>1. at' # "rules"
    BY <1>3 DEF RulesDone, Lookup, WriteToPlc, Store, Proceed, Return
  <2> QED BY <2>1 DEF ServedInOrder
<1>4. ASSUME NEW t \in Threads, AppendRule(t)
      PROVE  ServedInOrder'
  <2>1. UNCHANGED <<at, served, walk>>
    BY <1>4 DEF AppendRule, history
  <2>2. \A j \in DOMAIN rules : j \in DOMAIN rules' /\ rules'[j] = rules[j]
    BY <1>4, JobTypes DEF AppendRule, TypeOK, Making
  <2> QED BY <1>0, <2>1, <2>2, OrderFrame DEF Walked
<1>5. ASSUME NEW t \in Threads, AssignRules(t)
      PROVE  ServedInOrder'
  <2>1. UNCHANGED <<at, served>> /\ Walked' = Walked
    BY <1>5 DEF AssignRules, Walked, TypeOK, history
  <2> QED BY <1>0, <2>1, OrderFrame
<1>6. CASE \/ \E m \in Messages : PublishOther(m)
           \/ \E t \in Threads : Request(t) \/ SubscribeRule(t)
           \/ DbDown \/ DbUp \/ UNCHANGED vars
  <2>1. UNCHANGED <<at, served, walk, rules>>
    BY <1>6 DEF PublishOther, Request, CreateRule, FilterRules, SubscribeRule, DbDown, DbUp,
                vars, ruleVars, history
  <2> QED BY <1>0, <2>1, OrderFrame DEF Walked
<1> QED BY <1>1, <1>2, <1>3, <1>4, <1>5, <1>6 DEF Next, OnMessage, Continue

-----------------------------------------------------------------------------
(* The theorems                                                            *)

\* What the theorems below rest on: the types, the rules and the requests for
\* them, the walk of the loop (mqtt_service.py:543) and the mappings it works off.
THEOREM Invariance == Spec => []IInv
<1>1. IInv /\ [Next]_vars => IInv'
  BY TypeStep, RuleStep, WalkStep, MappingStep DEF IInv
<1> QED BY InitIInv, <1>1, PTL DEF Spec

\* Every rule's id is one that the bound allows, the list of rules no longer
\* than the rules created (mqtt_service.py:430).
THEOREM TypeCorrect == Spec => []TypeOK
BY Invariance, PTL DEF IInv

\* A message meets each rule that was in the list when it came, once and in the
\* order of the list, whatever requests append and remove under the loop
\* (mqtt_service.py:456, :543).
THEOREM RulesAreServed == Spec => []RulesServed
<1>1. Init => ServedInOrder
  BY DEF Init, ServedInOrder
<1>2. IInv /\ IInv' /\ ServedInOrder /\ [Next]_vars => ServedInOrder'
  BY OrderStep
<1>3. IInv /\ ServedInOrder => RulesServed
  BY DEF IInv, WalkInv, RulesServed, ServedOnce, Served
<1> QED BY <1>1, <1>2, <1>3, Invariance, PTL DEF Spec

\* One mapping that fails does not cost the next its INSERT
\* (mqtt_service.py:208-226).
THEOREM MappingsAreStored == Spec => []MappingsStored
<1>1. IInv => MappingsStored
  BY DEF IInv, MappingInv, MappingsStored
<1> QED BY <1>1, Invariance, PTL

=============================================================================
