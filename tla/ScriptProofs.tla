---------------------------- MODULE ScriptProofs ----------------------------
(***************************************************************************)
(* The scripts that act on a chain.  The deployment scripts, for every     *)
(* list of contracts, callers, circuits, relayers and fees, every number   *)
(* of runs, faults and late transactions: set-relayers never leaves the    *)
(* verifier without a relayer, and a run of deploy-fresh that meets no     *)
(* fault resumes whatever earlier runs left.  The testnet drivers, for     *)
(* every number of concurrent runs, seed, amount and wallet operation: one *)
(* that reports a pass is right, and the roots they declare keep up.       *)
(***************************************************************************)
EXTENDS Deployment, Drivers, Sums, SequenceTheorems, TLAPS

(***************************************************************************)
(* The plan of deploy-fresh under a given environment, as a constant.      *)
(***************************************************************************)
Environments == [key : Keys, next : Nat, root : GenesisRoots, treasury : BOOLEAN]

TreasuryOf(e) == IF e.treasury THEN << <<"treasury">> >> ELSE <<>>

WiringOf(e) ==
     Each(Callers, LAMBDA c : <<"authorize", c>>)
  \o << <<"root", e.root>> >>
  \o Each(Circuits, LAMBDA c : <<"key", c, FirstVersion, e.key>>)
  \o << <<"context">> >>
  \o Each(Circuits, LAMBDA c : <<"bind", c, FirstVersion>>)
  \o << <<"relayer", FirstRelayer>> >>
  \o TreasuryOf(e)
  \o Each(Fees, LAMBDA f : <<"fee", f>>)

DeployPlan(e) == Deploys \o WiringOf(e)

\* The calls of that plan.
DeployCalls(e) ==
       {<<"deploy", c>> : c \in Elements(ContractOrder)}
  \cup {<<"authorize", c>> : c \in Elements(Callers)}
  \cup {<<"key", c, FirstVersion, e.key>> : c \in Elements(Circuits)}
  \cup {<<"bind", c, FirstVersion>> : c \in Elements(Circuits)}
  \cup {<<"fee", f>> : f \in Elements(Fees)}
  \cup {<<"root", e.root>>, <<"context">>, <<"relayer", FirstRelayer>>, <<"treasury">>}

\* The calls of the other two scripts, and of the operator who reopens.
OtherCalls ==
       {<<"key", c, v, k>> : c \in Elements(Circuits), v \in Nat, k \in Keys}
  \cup {<<"relayer", r>> : r \in Elements(Relayers)}
  \cup {<<"versions", v>> : v \in Nat}
  \cup {<<"unseat", FirstRelayer>>, <<"pause">>, <<"begin">>, <<"complete">>, <<"unpause">>}

Calls == OtherCalls \cup UNION {DeployCalls(e) : e \in Environments}

\* In the sequence u, every y has an x before it.
Precedes(u, x, y) == \A j \in DOMAIN u : u[j] = y => \E i \in 1..(j - 1) : u[i] = x

-----------------------------------------------------------------------------
(***************************************************************************)
(* Sequences.                                                              *)
(***************************************************************************)
LEMMA FunctionIsSequence ==
  ASSUME NEW n \in Nat, NEW T, NEW f \in [1..n -> T]
  PROVE  f \in Seq(T) /\ Len(f) = n /\ DOMAIN f = 1..n
  OBVIOUS

\* A sequence made of another one, call by call.
LEMMA EachIsSequence ==
  ASSUME NEW s, s \in Seq(Elements(s)), NEW T, NEW f,
         f = [i \in DOMAIN s |-> f[i]], \A i \in DOMAIN s : f[i] \in T
  PROVE  f \in Seq(T) /\ Len(f) = Len(s) /\ DOMAIN f = 1..Len(s)
  <1>1. Len(s) \in Nat /\ DOMAIN s = 1..Len(s)
    OBVIOUS
  <1>2. f \in [1..Len(s) -> T]
    BY <1>1
  <1> QED
    BY <1>1, <1>2, FunctionIsSequence

LEMMA ConcatElements ==
  ASSUME NEW S, NEW s \in Seq(S), NEW t \in Seq(S)
  PROVE  Elements(s \o t) = Elements(s) \cup Elements(t)
  <1>1. /\ s \o t \in Seq(S) /\ Len(s \o t) = Len(s) + Len(t)
        /\ \A i \in 1..(Len(s) + Len(t)) : (s \o t)[i] = IF i <= Len(s) THEN s[i] ELSE t[i - Len(s)]
    BY ConcatProperties
  <1>2. /\ Len(s) \in Nat /\ Len(t) \in Nat
        /\ DOMAIN s = 1..Len(s) /\ DOMAIN t = 1..Len(t) /\ DOMAIN (s \o t) = 1..(Len(s) + Len(t))
    BY <1>1
  <1>3. Elements(s \o t) \subseteq Elements(s) \cup Elements(t)
    BY <1>1, <1>2 DEF Elements
  <1>4. ASSUME NEW i \in DOMAIN s
        PROVE  s[i] \in Elements(s \o t)
    BY <1>1, <1>2 DEF Elements
  <1>5. ASSUME NEW i \in DOMAIN t
        PROVE  t[i] \in Elements(s \o t)
    <2>1. i + Len(s) \in DOMAIN (s \o t) /\ (s \o t)[i + Len(s)] = t[i]
      BY <1>1, <1>2
    <2> QED
      BY <2>1 DEF Elements
  <1> QED
    BY <1>3, <1>4, <1>5 DEF Elements

\* What has its x before every y keeps it, whatever follows, if it has an x.
LEMMA PrecedesKept ==
  ASSUME NEW S, NEW s \in Seq(S), NEW t \in Seq(S), NEW x, NEW y,
         x \in Elements(s), Precedes(s, x, y)
  PROVE  Precedes(s \o t, x, y)
  <1>1. /\ s \o t \in Seq(S) /\ Len(s \o t) = Len(s) + Len(t)
        /\ \A i \in 1..(Len(s) + Len(t)) : (s \o t)[i] = IF i <= Len(s) THEN s[i] ELSE t[i - Len(s)]
    BY ConcatProperties
  <1>2. /\ Len(s) \in Nat /\ Len(t) \in Nat
        /\ DOMAIN s = 1..Len(s) /\ DOMAIN (s \o t) = 1..(Len(s) + Len(t))
    BY <1>1
  <1> SUFFICES ASSUME NEW j \in DOMAIN (s \o t), (s \o t)[j] = y
               PROVE  \E i \in 1..(j - 1) : (s \o t)[i] = x
    BY DEF Precedes
  <1>3. CASE j <= Len(s)
    <2>1. j \in DOMAIN s /\ s[j] = y
      BY <1>1, <1>2, <1>3
    <2>2. PICK i \in 1..(j - 1) : s[i] = x
      BY <2>1 DEF Precedes
    <2>3. (s \o t)[i] = x
      BY <1>1, <1>2, <1>3, <2>2
    <2> QED
      BY <2>3
  <1>4. CASE ~(j <= Len(s))
    <2>1. PICK i \in DOMAIN s : s[i] = x
      BY DEF Elements
    <2>2. (s \o t)[i] = x /\ i \in 1..(j - 1)
      BY <1>1, <1>2, <1>4, <2>1
    <2> QED
      BY <2>2
  <1> QED
    BY <1>3, <1>4

\* And whatever goes before it, as long as that holds no y.
LEMMA PrecedesAfter ==
  ASSUME NEW S, NEW s \in Seq(S), NEW t \in Seq(S), NEW x, NEW y,
         y \notin Elements(s), Precedes(t, x, y)
  PROVE  Precedes(s \o t, x, y)
  <1>1. /\ s \o t \in Seq(S) /\ Len(s \o t) = Len(s) + Len(t)
        /\ \A i \in 1..(Len(s) + Len(t)) : (s \o t)[i] = IF i <= Len(s) THEN s[i] ELSE t[i - Len(s)]
    BY ConcatProperties
  <1>2. /\ Len(s) \in Nat /\ Len(t) \in Nat
        /\ DOMAIN s = 1..Len(s) /\ DOMAIN t = 1..Len(t) /\ DOMAIN (s \o t) = 1..(Len(s) + Len(t))
    BY <1>1
  <1> SUFFICES ASSUME NEW j \in DOMAIN (s \o t), (s \o t)[j] = y
               PROVE  \E i \in 1..(j - 1) : (s \o t)[i] = x
    BY DEF Precedes
  <1>3. ~(j <= Len(s)) /\ j - Len(s) \in DOMAIN t /\ t[j - Len(s)] = y
    <2>1. ~(j <= Len(s))
      BY <1>1, <1>2 DEF Elements
    <2> QED
      BY <1>1, <1>2, <2>1
  <1>4. PICK i \in 1..((j - Len(s)) - 1) : t[i] = x
    BY <1>3 DEF Precedes
  <1>5. (s \o t)[i + Len(s)] = x /\ i + Len(s) \in 1..(j - 1)
    BY <1>1, <1>2, <1>3, <1>4
  <1> QED
    BY <1>5

-----------------------------------------------------------------------------
(***************************************************************************)
(* The plans.                                                              *)
(***************************************************************************)
\* The two sequences the binding of a circuit stands between.
LEMMA WiringParts ==
  ASSUME NEW e \in Environments
  PROVE  LET S == DeployCalls(e)
             a == Each(Callers, LAMBDA c : <<"authorize", c>>)
             n == Each(Circuits, LAMBDA c : <<"key", c, FirstVersion, e.key>>)
             b == Each(Circuits, LAMBDA c : <<"bind", c, FirstVersion>>)
             f == Each(Fees, LAMBDA x : <<"fee", x>>)
         IN /\ Deploys \in Seq(S) /\ a \in Seq(S) /\ n \in Seq(S) /\ b \in Seq(S) /\ f \in Seq(S)
            /\ << <<"root", e.root>> >> \in Seq(S)
            /\ << <<"context">> >> \in Seq(S)
            /\ << <<"relayer", FirstRelayer>> >> \in Seq(S) /\ TreasuryOf(e) \in Seq(S)
            /\ DOMAIN Deploys = 1..Len(ContractOrder) /\ DOMAIN n = 1..Len(Circuits)
  <1> DEFINE S == DeployCalls(e)
             a == Each(Callers, LAMBDA c : <<"authorize", c>>)
             n == Each(Circuits, LAMBDA c : <<"key", c, FirstVersion, e.key>>)
             b == Each(Circuits, LAMBDA c : <<"bind", c, FirstVersion>>)
             f == Each(Fees, LAMBDA x : <<"fee", x>>)
  <1>1. Deploys \in Seq(S) /\ DOMAIN Deploys = 1..Len(ContractOrder)
    <2>1. \A i \in DOMAIN ContractOrder : Deploys[i] \in S
      BY DEF Deploys, Each, Elements, DeployCalls
    <2> HIDE DEF S
    <2> QED
      BY <2>1, EachIsSequence, DeploymentAssumption DEF Deploys, Each
  <1>2. a \in Seq(S)
    <2>1. \A i \in DOMAIN Callers : a[i] \in S
      BY DEF Each, Elements, DeployCalls
    <2> HIDE DEF S
    <2> QED
      BY <2>1, EachIsSequence, DeploymentAssumption DEF Each
  <1>3. n \in Seq(S) /\ DOMAIN n = 1..Len(Circuits)
    <2>1. \A i \in DOMAIN Circuits : n[i] \in S
      BY DEF Each, Elements, DeployCalls
    <2>2. n = [i \in DOMAIN Circuits |-> n[i]]
      BY DEF Each
    <2>3. Circuits \in Seq(Elements(Circuits))
      BY DeploymentAssumption
    <2> HIDE DEF S, n
    <2> QED
      BY <2>1, <2>2, <2>3, EachIsSequence
  <1>4. b \in Seq(S)
    <2>1. \A i \in DOMAIN Circuits : b[i] \in S
      BY DEF Each, Elements, DeployCalls
    <2> HIDE DEF S
    <2> QED
      BY <2>1, EachIsSequence, DeploymentAssumption DEF Each
  <1>5. f \in Seq(S)
    <2>1. \A i \in DOMAIN Fees : f[i] \in S
      BY DEF Each, Elements, DeployCalls
    <2> HIDE DEF S
    <2> QED
      BY <2>1, EachIsSequence, DeploymentAssumption DEF Each
  <1>6. <<"root", e.root>> \in S /\ <<"context">> \in S /\ <<"relayer", FirstRelayer>> \in S
          /\ <<"treasury">> \in S
    BY DEF DeployCalls
  <1> HIDE DEF S, a, n, b, f
  <1>7. /\ << <<"root", e.root>> >> \in Seq(S) /\ << <<"context">> >> \in Seq(S)
        /\ << <<"relayer", FirstRelayer>> >> \in Seq(S) /\ TreasuryOf(e) \in Seq(S)
    BY <1>6 DEF TreasuryOf
  <1> USE DEF S, a, n, b, f
  <1> QED
    BY <1>1, <1>2, <1>3, <1>4, <1>5, <1>7

LEMMA WiringType ==
  ASSUME NEW e \in Environments
  PROVE  WiringOf(e) \in Seq(DeployCalls(e))
  <1> DEFINE S == DeployCalls(e)
             a == Each(Callers, LAMBDA c : <<"authorize", c>>)
             n == Each(Circuits, LAMBDA c : <<"key", c, FirstVersion, e.key>>)
             b == Each(Circuits, LAMBDA c : <<"bind", c, FirstVersion>>)
             f == Each(Fees, LAMBDA x : <<"fee", x>>)
             r == << <<"root", e.root>> >>
             t == << <<"context">> >>
             u == << <<"relayer", FirstRelayer>> >>
             v == TreasuryOf(e)
  <1>1. /\ a \in Seq(S) /\ n \in Seq(S) /\ b \in Seq(S) /\ f \in Seq(S)
        /\ r \in Seq(S) /\ t \in Seq(S) /\ u \in Seq(S) /\ v \in Seq(S)
    BY WiringParts
  <1>2. WiringOf(e) = a \o r \o n \o t \o b \o u \o v \o f
    BY DEF WiringOf
  <1> HIDE DEF S, a, r, n, t, b, u, v, f
  <1>3. a \o r \o n \o t \o b \o u \o v \o f \in Seq(S)
    BY <1>1, ConcatProperties
  <1> USE DEF S
  <1> QED
    BY <1>2, <1>3

\* deploy-fresh deploys a contract after those it calls, and binds a circuit
\* after its key.
LEMMA DeployPlanOrder ==
  ASSUME NEW e \in Environments
  PROVE  /\ DeployPlan(e) \in Seq(DeployCalls(e))
         /\ \A c \in Elements(Circuits) :
              Precedes(DeployPlan(e), <<"key", c, FirstVersion, e.key>>, <<"bind", c, FirstVersion>>)
         /\ \A c \in Elements(ContractOrder) : \A d \in Refers[c] :
              Precedes(DeployPlan(e), <<"deploy", d>>, <<"deploy", c>>)
  <1> DEFINE S == DeployCalls(e)
             a == Each(Callers, LAMBDA c : <<"authorize", c>>)
             n == Each(Circuits, LAMBDA c : <<"key", c, FirstVersion, e.key>>)
             b == Each(Circuits, LAMBDA c : <<"bind", c, FirstVersion>>)
             f == Each(Fees, LAMBDA x : <<"fee", x>>)
             r == << <<"root", e.root>> >>
             t == << <<"context">> >>
             u == << <<"relayer", FirstRelayer>> >>
             v == TreasuryOf(e)
             q == a \o r \o n \o t
  <1>1. /\ Deploys \in Seq(S) /\ a \in Seq(S) /\ n \in Seq(S) /\ b \in Seq(S) /\ f \in Seq(S)
        /\ r \in Seq(S) /\ t \in Seq(S) /\ u \in Seq(S) /\ v \in Seq(S)
    BY WiringParts
  <1>2. WiringOf(e) = q \o b \o u \o v \o f
    BY DEF WiringOf
  <1>3. ASSUME NEW c \in Elements(Circuits)
        PROVE  /\ \A s \in {a, r, n, t, Deploys} : <<"bind", c, FirstVersion>> \notin Elements(s)
               /\ <<"key", c, FirstVersion, e.key>> \in Elements(n)
    <2>1. <<"bind", c, FirstVersion>> \notin Elements(a)
      BY DEF Elements, Each
    <2>2. <<"bind", c, FirstVersion>> \notin Elements(r)
      BY DEF Elements
    <2>3. <<"bind", c, FirstVersion>> \notin Elements(n)
      BY DEF Elements, Each
    <2>4. <<"bind", c, FirstVersion>> \notin Elements(t)
      BY DEF Elements
    <2>5. <<"bind", c, FirstVersion>> \notin Elements(Deploys)
      BY DEF Elements, Each, Deploys
    <2>6. <<"key", c, FirstVersion, e.key>> \in Elements(n)
      BY DEF Elements, Each
    <2> QED
      BY <2>1, <2>2, <2>3, <2>4, <2>5, <2>6
  <1>4. ASSUME NEW c \in Elements(ContractOrder), NEW d \in Refers[c]
        PROVE  /\ <<"deploy", d>> \in Elements(Deploys)
               /\ Precedes(Deploys, <<"deploy", d>>, <<"deploy", c>>)
    <2>1. ASSUME NEW j \in DOMAIN Deploys, Deploys[j] = <<"deploy", c>>
          PROVE  \E i \in 1..(j - 1) : Deploys[i] = <<"deploy", d>>
      <3>1. j \in DOMAIN ContractOrder /\ ContractOrder[j] = c
        BY <2>1 DEF Deploys, Each
      <3>2. PICK i \in 1..(j - 1) : ContractOrder[i] = d
        BY <3>1, DeploymentAssumption
      <3>3. i \in DOMAIN ContractOrder
        <4>1. ContractOrder \in Seq(Elements(ContractOrder))
          BY DeploymentAssumption
        <4> QED
          BY <4>1, <3>1, <3>2
      <3> QED
        BY <3>2, <3>3 DEF Deploys, Each
    <2>2. PICK j \in DOMAIN ContractOrder : ContractOrder[j] = c
      BY DEF Elements
    <2>3. j \in DOMAIN Deploys /\ Deploys[j] = <<"deploy", c>>
      BY <2>2 DEF Deploys, Each
    <2>4. PICK i \in 1..(j - 1) : Deploys[i] = <<"deploy", d>>
      BY <2>1, <2>3
    <2>5. DOMAIN Deploys = 1..Len(ContractOrder) /\ Len(ContractOrder) \in Nat
      <3>1. DOMAIN Deploys = 1..Len(ContractOrder)
        BY WiringParts
      <3>2. ContractOrder \in Seq(Elements(ContractOrder))
        BY DeploymentAssumption
      <3> QED
        BY <3>1, <3>2
    <2>6. i \in DOMAIN Deploys
      BY <2>3, <2>5
    <2> QED
      BY <2>1, <2>4, <2>6 DEF Precedes, Elements
  <1> HIDE DEF S, a, r, n, t, b, u, v, f
  <1>5. /\ a \o r \in Seq(S) /\ a \o r \o n \in Seq(S) /\ q \in Seq(S) /\ q \o b \in Seq(S)
        /\ q \o b \o u \in Seq(S) /\ q \o b \o u \o v \in Seq(S)
        /\ q \o b \o u \o v \o f \in Seq(S)
    BY <1>1, ConcatProperties
  <1>6. Elements(q) = Elements(a) \cup Elements(r) \cup Elements(n) \cup Elements(t)
    <2>1. Elements(a \o r) = Elements(a) \cup Elements(r)
      BY <1>1, ConcatElements
    <2>2. Elements(a \o r \o n) = Elements(a \o r) \cup Elements(n)
      BY <1>1, <1>5, ConcatElements, ZenonT(30)
    <2>3. Elements(a \o r \o n \o t) = Elements(a \o r \o n) \cup Elements(t)
      BY <1>1, <1>5, ConcatElements, ZenonT(30)
    <2> QED
      BY <2>1, <2>2, <2>3
  <1> HIDE DEF q
  <1>7. Deploys \o WiringOf(e) \in Seq(S)
    BY <1>1, <1>2, <1>5, ConcatProperties
  <1>8. ASSUME NEW c \in Elements(Circuits)
        PROVE  Precedes(Deploys \o WiringOf(e), <<"key", c, FirstVersion, e.key>>, <<"bind", c, FirstVersion>>)
    <2> DEFINE x == <<"key", c, FirstVersion, e.key>>
               y == <<"bind", c, FirstVersion>>
    <2>1. x \in Elements(q) /\ y \notin Elements(q) /\ y \notin Elements(Deploys)
      BY <1>3, <1>6
    <2> HIDE DEF x, y
    <2>2. Precedes(q, x, y)
      BY <2>1 DEF Precedes, Elements
    <2>3. Precedes(q \o b, x, y) /\ x \in Elements(q \o b)
      <3>1. Precedes(q \o b, x, y)
        BY <1>1, <1>5, <2>1, <2>2, PrecedesKept
      <3>2. Elements(q \o b) = Elements(q) \cup Elements(b)
        BY <1>1, <1>5, ConcatElements
      <3> QED
        BY <2>1, <2>2, <3>1, <3>2
    <2>4. Precedes(q \o b \o u, x, y) /\ x \in Elements(q \o b \o u)
      <3>1. Precedes(q \o b \o u, x, y)
        BY <1>1, <1>5, <2>1, <2>3, PrecedesKept
      <3>2. Elements(q \o b \o u) = Elements(q \o b) \cup Elements(u)
        BY <1>1, <1>5, ConcatElements, ZenonT(30)
      <3> QED
        BY <2>1, <2>3, <3>1, <3>2
    <2>v. Precedes(q \o b \o u \o v, x, y) /\ x \in Elements(q \o b \o u \o v)
      <3>1. Precedes(q \o b \o u \o v, x, y)
        BY <1>1, <1>5, <2>1, <2>4, PrecedesKept
      <3>2. Elements(q \o b \o u \o v) = Elements(q \o b \o u) \cup Elements(v)
        BY <1>1, <1>5, ConcatElements, ZenonT(30)
      <3> QED
        BY <2>1, <2>4, <3>1, <3>2
    <2>5. Precedes(q \o b \o u \o v \o f, x, y)
      BY <1>1, <1>5, <2>v, PrecedesKept
    <2>6. Precedes(Deploys \o WiringOf(e), x, y)
      BY <1>1, <1>2, <1>5, <2>1, <2>5, PrecedesAfter
    <2> USE DEF x, y
    <2> QED
      BY <2>6
  <1>9. ASSUME NEW c \in Elements(ContractOrder), NEW d \in Refers[c]
        PROVE  Precedes(Deploys \o WiringOf(e), <<"deploy", d>>, <<"deploy", c>>)
    <2> DEFINE x == <<"deploy", d>>
               y == <<"deploy", c>>
    <2>1. x \in Elements(Deploys) /\ Precedes(Deploys, x, y)
      BY <1>4
    <2> HIDE DEF x, y
    <2>2. Precedes(Deploys \o WiringOf(e), x, y)
      BY <1>1, <1>2, <1>5, <2>1, PrecedesKept
    <2> USE DEF x, y
    <2> QED
      BY <2>2
  <1> USE DEF S
  <1> QED
    BY <1>7, <1>8, <1>9 DEF DeployPlan

LEMMA PlanSame ==
  ASSUME UNCHANGED <<script, env>>
  PROVE  Plan' = Plan
  BY DEF Plan, Upgrading, Wiring, Seating, Deploys, Each

LEMMA DeployPlanIs ==
  ASSUME script = "deploy"
  PROVE  Plan = DeployPlan(env) /\ Deploys \o Wiring = DeployPlan(env)
  BY DEF Plan, DeployPlan, WiringOf, Wiring, TreasuryOf

\* set-relayers seats every relayer, then drops the deployer.
LEMMA SeatingPlan ==
  /\ Seating \in Seq(Calls) /\ Len(Relayers) \in Nat /\ DOMAIN Relayers = 1..Len(Relayers)
  /\ DOMAIN Seating = 1..(Len(Relayers) + 1)
  /\ \A i \in 1..Len(Relayers) : Seating[i] = <<"relayer", Relayers[i]>>
  /\ Seating[Len(Relayers) + 1] = <<"unseat", FirstRelayer>>
  <1> DEFINE s == Each(Relayers, LAMBDA r : <<"relayer", r>>)
             t == << <<"unseat", FirstRelayer>> >>
  <1>1. s \in Seq(Calls) /\ Len(s) = Len(Relayers)
    <2>1. \A i \in DOMAIN Relayers : s[i] \in Calls
      BY DEF Each, Elements, Calls, OtherCalls
    <2> QED
      BY <2>1, EachIsSequence, DeploymentAssumption, SMTT(30) DEF Each
  <1>2. t \in Seq(Calls) /\ Len(t) = 1 /\ t[1] = <<"unseat", FirstRelayer>>
    <2>1. <<"unseat", FirstRelayer>> \in Calls
      BY DEF Calls, OtherCalls
    <2> QED
      BY <2>1
  <1>3. Len(Relayers) \in Nat /\ DOMAIN Relayers = 1..Len(Relayers)
    <2>1. Relayers \in Seq(Elements(Relayers))
      BY DeploymentAssumption
    <2> QED
      BY <2>1
  <1>4. \A i \in 1..Len(Relayers) : s[i] = <<"relayer", Relayers[i]>>
    BY <1>3 DEF Each
  <1> HIDE DEF s, t
  <1>5. /\ s \o t \in Seq(Calls) /\ Len(s \o t) = Len(Relayers) + 1
        /\ \A i \in 1..(Len(Relayers) + 1) :
             (s \o t)[i] = IF i <= Len(Relayers) THEN s[i] ELSE t[i - Len(Relayers)]
    BY <1>1, <1>2, ConcatProperties, SMTT(30)
  <1>6. Seating = s \o t
    BY DEF Seating, s, t
  <1>7. (s \o t)[Len(Relayers) + 1] = <<"unseat", FirstRelayer>>
    BY <1>2, <1>3, <1>5
  <1>8. \A i \in 1..Len(Relayers) : (s \o t)[i] = <<"relayer", Relayers[i]>>
    BY <1>3, <1>4, <1>5
  <1> QED
    BY <1>3, <1>5, <1>6, <1>7, <1>8

LEMMA UpgradingPlan ==
  ASSUME env \in Environments
  PROVE  Upgrading \in Seq(Calls)
  <1> DEFINE s == Each(Circuits, LAMBDA c : <<"key", c, env.next, env.key>>)
             t == << <<"pause">>, <<"begin">>, <<"versions", env.next>>, <<"complete">> >>
  <1>1. s \in Seq(Calls)
    <2>1. env.next \in Nat /\ env.key \in Keys
      BY DEF Environments
    <2>2. \A i \in DOMAIN Circuits : s[i] \in Calls
      BY <2>1 DEF Each, Elements, Calls, OtherCalls
    <2>3. s = [i \in DOMAIN Circuits |-> s[i]]
      BY DEF Each
    <2>4. Circuits \in Seq(Elements(Circuits))
      BY DeploymentAssumption
    <2> HIDE DEF s
    <2> QED
      BY <2>2, <2>3, <2>4, EachIsSequence
  <1>2. t \in Seq(Calls)
    <2>1. env.next \in Nat
      BY DEF Environments
    <2>2. {<<"pause">>, <<"begin">>, <<"versions", env.next>>, <<"complete">>} \subseteq Calls
      BY <2>1 DEF Calls, OtherCalls
    <2> QED
      BY <2>2
  <1>3. Upgrading = s \o t
    BY DEF Upgrading
  <1> HIDE DEF s, t
  <1> QED
    BY <1>1, <1>2, <1>3, ConcatProperties

ScriptNames == {"deploy", "upgrade", "relayers"}

LEMMA PlanType ==
  ASSUME env \in Environments, script \in ScriptNames
  PROVE  Plan \in Seq(Calls)
  <1>1. CASE script = "deploy"
    <2>1. env \in Environments
      OBVIOUS
    <2>2. DeployPlan(env) \in Seq(DeployCalls(env)) /\ DeployCalls(env) \subseteq Calls
      BY <2>1, DeployPlanOrder DEF Calls
    <2>3. DeployPlan(env) \in Seq(Calls)
      BY <2>2
    <2> QED
      BY <2>3, <1>1, DeployPlanIs
  <1>2. CASE script = "upgrade"
    BY <1>2, UpgradingPlan DEF Plan
  <1>3. CASE script = "relayers"
    BY <1>3, SeatingPlan DEF Plan
  <1> QED
    BY <1>1, <1>2, <1>3 DEF ScriptNames

-----------------------------------------------------------------------------
(***************************************************************************)
(* The types, and what a script waits for.                                 *)
(***************************************************************************)
TypeInv ==
  /\ chain \subseteq Calls /\ state \in {"ACTIVE", "PAUSED", "UPGRADING"} /\ version \in Nat
  /\ mempool \in Seq([call : Calls, awaited : BOOLEAN])
  /\ script \in ScriptNames /\ running \in BOOLEAN /\ pc \in Nat \ {0}
  /\ env \in Environments
  /\ answer \in {"none", "pending", "success", "abort"}
  /\ exit \in {"none", "complete", "failed"}
  /\ clean \in BOOLEAN /\ quiet \in BOOLEAN /\ faults \in Nat

\* A script waits for one transaction at most, and it is its current call.
Waiting ==
  /\ running /\ answer # "none" => pc \in DOMAIN Plan
  /\ ~running => answer = "none"
  /\ \A i \in DOMAIN mempool :
       mempool[i].awaited => running /\ answer = "pending" /\ mempool[i].call = Current
  /\ \A i, j \in DOMAIN mempool : mempool[i].awaited /\ mempool[j].awaited => i = j

(***************************************************************************)
(* set-relayers: what it has seated stays, and the call that drops the     *)
(* deployer is sent, so it is mined, after all relayers are seated.        *)
(***************************************************************************)
AllSeated == \A r \in Elements(Relayers) : <<"relayer", r>> \in chain

SeatedInOrder ==
  /\ script = "relayers" /\ running =>
       /\ \A i \in 1..(pc - 1) : i <= Len(Relayers) => <<"relayer", Relayers[i]>> \in chain
       /\ answer = "success" /\ pc <= Len(Relayers) => <<"relayer", Relayers[pc]>> \in chain
  /\ \A i \in DOMAIN mempool : mempool[i].call[1] = "unseat" => AllSeated

RelayerInv == TypeInv /\ Waiting /\ SeatedInOrder

(***************************************************************************)
(* deploy-fresh: before the first deployment passes, only its own calls    *)
(* are on chain or on their way, with the keys of the one environment; a   *)
(* run that met no fault has in force all that can be, up to its current   *)
(* call, and waits for the account's last transaction.                     *)
(***************************************************************************)
InForceBefore(n) ==
  \A i \in 1..(n - 1) : i \in DOMAIN Plan /\ Feasible(Plan[i]) => Plan[i] \in chain

CleanRun ==
  /\ InForceBefore(pc)
  /\ answer = "pending" => /\ mempool # <<>> /\ mempool[Len(mempool)].awaited
                           /\ HasFunction(Current)
  /\ answer = "success" => Current \in chain
  /\ answer = "abort" /\ Swallows(Current) /\ Feasible(Current) => Current \in chain

\* One that began with nothing pending waits for its own transaction alone.
QuietRun ==
  /\ answer # "pending" => mempool = <<>>
  /\ answer = "pending" => Len(mempool) = 1 /\ (Current[1] = "deploy" => Current \notin chain)
  /\ answer = "abort" => Swallows(Current)

FreshDeployment ==
  script = "deploy" =>
    /\ state = "ACTIVE" /\ chain \subseteq DeployCalls(env)
    /\ \A i \in DOMAIN mempool : mempool[i].call \in DeployCalls(env)
    /\ clean /\ running => CleanRun /\ (quiet => QuietRun)
    /\ clean /\ ~running => (exit = "complete" => Configured) /\ (quiet => exit = "complete")

LEMMA CurrentCall ==
  ASSUME TypeInv, MoreToDo
  PROVE  pc \in DOMAIN Plan /\ Current \in Calls
  <1>1. Plan \in Seq(Calls)
    BY PlanType DEF TypeInv
  <1>2. pc \in 1..Len(Plan)
    BY <1>1 DEF MoreToDo, TypeInv
  <1> QED
    BY <1>1, <1>2 DEF Current

\* What the node mines is a call of the protocol's scripts.
LEMMA MinedCall ==
  ASSUME TypeInv, Mine
  PROVE  /\ 1 \in DOMAIN mempool /\ Head(mempool) = mempool[1]
         /\ mempool[1].call \in Calls
         /\ mempool[1].awaited \in BOOLEAN
         /\ Tail(mempool) \in Seq([call : Calls, awaited : BOOLEAN])
         /\ \A i \in DOMAIN Tail(mempool) :
              i + 1 \in DOMAIN mempool /\ Tail(mempool)[i] = mempool[i + 1]
  <1> DEFINE T == [call : Calls, awaited : BOOLEAN]
  <1>1. mempool \in Seq(T) /\ mempool # <<>>
    BY DEF TypeInv, Mine
  <1>2. mempool[1] \in T => mempool[1].call \in Calls /\ mempool[1].awaited \in BOOLEAN
    OBVIOUS
  <1> HIDE DEF T
  <1>3. /\ 1 \in DOMAIN mempool /\ Head(mempool) = mempool[1] /\ mempool[1] \in T
        /\ Tail(mempool) \in Seq(T)
        /\ \A i \in DOMAIN Tail(mempool) :
             i + 1 \in DOMAIN mempool /\ Tail(mempool)[i] = mempool[i + 1]
    BY <1>1
  <1> USE DEF T
  <1> QED
    BY <1>2, <1>3

\* Only the removal of a relayer takes anything off the chain.
LEMMA MinedEffect ==
  ASSUME TypeInv, Mine
  PROVE  LET c == mempool[1].call
         IN  /\ chain' \in SUBSET Calls
             /\ version' \in Nat /\ state' \in {"ACTIVE", "PAUSED", "UPGRADING"}
             /\ c[1] # "unseat" => chain \subseteq chain'
             /\ chain' \subseteq chain \cup {c}
             /\ c[1] = "unseat" => c = <<"unseat", FirstRelayer>>
                                     /\ chain \ {<<"relayer", FirstRelayer>>} \subseteq chain'
             /\ Accepts(c) /\ c[1] \notin DOMAIN Transition \cup {"unseat", "versions"} => c \in chain'
             /\ c[1] \notin DOMAIN Transition => state' = state
  <1> DEFINE c == mempool[1].call
  <1>1. c \in Calls /\ Head(mempool).call = c
    BY MinedCall
  <1>2. IF Accepts(c) THEN Apply(c) ELSE UNCHANGED chainVars
    BY <1>1 DEF Mine
  <1>3. c[1] = "unseat" => c = <<"unseat", FirstRelayer>>
    BY <1>1 DEF Calls, OtherCalls, DeployCalls
  <1>4. c[1] = "versions" => c[2] \in Nat
    BY <1>1 DEF Calls, OtherCalls, DeployCalls
  <1>5. c[1] \in DOMAIN Transition => Transition[c[1]] \in {"ACTIVE", "PAUSED", "UPGRADING"}
    BY DEF Transition
  <1>6. chain \subseteq Calls /\ version \in Nat /\ state \in {"ACTIVE", "PAUSED", "UPGRADING"}
    BY DEF TypeInv
  <1>7. DOMAIN Transition = {"pause", "begin", "unpause", "complete"}
    BY DEF Transition
  <1> HIDE DEF c
  <1>8. CASE Accepts(c)
    <2>1. Apply(c)
      BY <1>2, <1>8
    <2>2. /\ chain' = CASE c[1] = "unseat" -> chain \ {<<"relayer", c[2]>>}
                        [] c[1] \in DOMAIN Transition \cup {"versions"} -> chain
                        [] OTHER -> chain \cup {c}
          /\ state' = IF c[1] \in DOMAIN Transition THEN Transition[c[1]] ELSE state
          /\ version' = IF c[1] = "versions" THEN c[2] ELSE version
      BY <2>1 DEF Apply
    <2>3. CASE c[1] = "unseat"
      <3>1. c[2] = FirstRelayer /\ chain' = chain \ {<<"relayer", c[2]>>}
        <4>1. c = <<"unseat", FirstRelayer>>
          BY <1>3, <2>3
        <4>2. c[2] = FirstRelayer
          BY <4>1
        <4>3. chain' = chain \ {<<"relayer", c[2]>>}
          BY <1>7, <2>2, <2>3
        <4> QED
          BY <4>2, <4>3
      <3> QED
        BY <1>3, <1>6, <1>7, <2>2, <2>3, <3>1 DEF c
    <2>4. CASE c[1] # "unseat"
      <3>1. CASE c[1] \in DOMAIN Transition \cup {"versions"}
        <4>1. chain' = chain
          BY <1>7, <2>2, <2>4, <3>1
        <4> QED
          BY <1>4, <1>5, <1>6, <2>2, <2>4, <3>1, <4>1 DEF c
      <3>2. CASE c[1] \notin DOMAIN Transition \cup {"versions"}
        <4>1. chain' = chain \cup {c}
          BY <1>7, <2>2, <2>4, <3>2
        <4> QED
          BY <1>1, <1>6, <2>2, <2>4, <3>2, <4>1 DEF c
      <3> QED
        BY <3>1, <3>2
    <2> QED
      BY <2>3, <2>4
  <1>9. CASE ~Accepts(c)
    BY <1>2, <1>3, <1>6, <1>9 DEF chainVars, c
  <1> QED
    BY <1>8, <1>9

LEMMA EndsEffect ==
  ASSUME NEW status \in {"complete", "failed"}, Ends(status)
  PROVE  /\ UNCHANGED <<script, env>> /\ answer' = "none" /\ pc' = 1 /\ pc' \in Nat \ {0}
         /\ running' = FALSE /\ running' \in BOOLEAN
         /\ exit' = status /\ exit' \in {"none", "complete", "failed"}
  <1>1. UNCHANGED <<script, env>> /\ answer' = "none" /\ running' = FALSE /\ exit' = status /\ pc' = 1
    BY DEF Ends
  <1>2. running' \in BOOLEAN
    BY <1>1
  <1>3. exit' \in {"none", "complete", "failed"} /\ pc' \in Nat \ {0}
    BY <1>1
  <1> QED
    BY <1>1, <1>2, <1>3

LEMMA ThrowsEffect ==
  ASSUME TypeInv, Throws
  PROVE  /\ UNCHANGED <<script, env>> /\ answer' = "none"
         /\ running' \in BOOLEAN /\ pc' \in Nat \ {0} /\ exit' \in {"none", "complete", "failed"}
         /\ running' => Swallows(Current) /\ pc' = pc + 1
  <1>1. CASE Swallows(Current)
    <2>1. Goes(pc + 1)
      BY <1>1 DEF Throws
    <2> QED
      BY <1>1, <2>1 DEF Goes, TypeInv
  <1>2. CASE ~Swallows(Current)
    <2>1. Ends("failed")
      BY <1>2 DEF Throws
    <2> QED
      BY <2>1, EndsEffect
  <1> QED
    BY <1>1, <1>2

LEMMA FaultEffect ==
  ASSUME TypeInv, Fault
  PROVE  clean' = FALSE /\ clean' \in BOOLEAN /\ quiet' \in BOOLEAN /\ faults' \in Nat
  <1>1. clean' = FALSE /\ quiet' = quiet /\ faults' = faults + 1 /\ faults \in Nat /\ quiet \in BOOLEAN
    BY DEF TypeInv, Fault
  <1>2. clean' \in BOOLEAN /\ quiet' \in BOOLEAN
    BY <1>1
  <1>3. faults' \in Nat
    BY <1>1
  <1> QED
    BY <1>1, <1>2, <1>3

LEMMA EnvChange ==
  ASSUME NEW e \in Environments, NEW k \in Keys, NEW n \in Nat
  PROVE  [e EXCEPT !.key = k, !.next = n] \in Environments
  BY DEF Environments

LEMMA MempoolTypes ==
  ASSUME TypeInv
  PROVE  LET T == [call : Calls, awaited : BOOLEAN]
         IN  /\ Forget => /\ mempool' \in Seq(T) /\ DOMAIN mempool' = DOMAIN mempool
                          /\ \A i \in DOMAIN mempool :
                               mempool'[i].call = mempool[i].call /\ ~mempool'[i].awaited
             /\ \A i \in DOMAIN mempool :
                  LET s == SubSeq(mempool, 1, i - 1)
                  IN  s \in Seq(T) /\ \A j \in DOMAIN s : j \in DOMAIN mempool /\ s[j] = mempool[j]
             /\ MoreToDo /\ Broadcasts =>
                  /\ mempool' \in Seq(T)
                  /\ DOMAIN mempool' = 1..(Len(mempool) + 1)
                  /\ DOMAIN mempool = 1..Len(mempool) /\ Len(mempool) \in Nat
                  /\ \A i \in DOMAIN mempool : mempool'[i] = mempool[i]
                  /\ mempool'[Len(mempool) + 1] = [call |-> Current, awaited |-> TRUE]
  <1> DEFINE T == [call : Calls, awaited : BOOLEAN]
  <1>1. mempool \in Seq(T) /\ \A i \in DOMAIN mempool : mempool[i] \in T
    <2>1. mempool \in Seq(T)
      BY DEF TypeInv
    <2> HIDE DEF T
    <2> QED
      BY <2>1
  <1>2. ASSUME Forget
        PROVE  /\ mempool' \in Seq(T) /\ DOMAIN mempool' = DOMAIN mempool
               /\ \A i \in DOMAIN mempool :
                    mempool'[i].call = mempool[i].call /\ ~mempool'[i].awaited
    <2>1. /\ DOMAIN mempool' = DOMAIN mempool
          /\ \A i \in DOMAIN mempool : mempool'[i] = [mempool[i] EXCEPT !.awaited = FALSE]
      BY <1>2 DEF Forget
    <2>2. \A i \in DOMAIN mempool :
            /\ mempool'[i] \in T
            /\ mempool'[i].call = mempool[i].call /\ ~mempool'[i].awaited
      BY <1>1, <2>1
    <2>3. mempool' = [i \in DOMAIN mempool |-> mempool'[i]]
      BY <1>2 DEF Forget
    <2> HIDE DEF T
    <2>4. mempool' \in [1..Len(mempool) -> T] /\ Len(mempool) \in Nat
      BY <1>1, <2>2, <2>3
    <2> QED
      BY <2>1, <2>2, <2>4, FunctionIsSequence
  <1>3. ASSUME MoreToDo, Broadcasts
        PROVE  /\ mempool' \in Seq(T)
               /\ DOMAIN mempool' = 1..(Len(mempool) + 1)
               /\ DOMAIN mempool = 1..Len(mempool) /\ Len(mempool) \in Nat
               /\ \A i \in DOMAIN mempool : mempool'[i] = mempool[i]
               /\ mempool'[Len(mempool) + 1] = [call |-> Current, awaited |-> TRUE]
    <2> DEFINE tx == [call |-> Current, awaited |-> TRUE]
    <2>1. tx \in T
      BY <1>3, CurrentCall
    <2>2. mempool' = Append(mempool, tx)
      BY <1>3 DEF Broadcasts
    <2> HIDE DEF T, tx
    <2>3. /\ mempool' \in Seq(T)
          /\ DOMAIN mempool' = 1..(Len(mempool) + 1)
          /\ DOMAIN mempool = 1..Len(mempool) /\ Len(mempool) \in Nat
          /\ \A i \in DOMAIN mempool : mempool'[i] = mempool[i]
          /\ mempool'[Len(mempool) + 1] = tx
      BY <1>1, <2>1, <2>2
    <2> USE DEF tx
    <2> QED
      BY <2>3
  <1>4. ASSUME NEW i \in DOMAIN mempool
        PROVE  LET s == SubSeq(mempool, 1, i - 1)
               IN  s \in Seq(T) /\ \A j \in DOMAIN s : j \in DOMAIN mempool /\ s[j] = mempool[j]
    <2> HIDE DEF T
    <2>1. i \in 1..Len(mempool) /\ Len(mempool) \in Nat /\ DOMAIN mempool = 1..Len(mempool)
      BY <1>1
    <2>2. /\ SubSeq(mempool, 1, i - 1) \in Seq(T) /\ Len(SubSeq(mempool, 1, i - 1)) = i - 1
          /\ \A j \in 1..(i - 1) : SubSeq(mempool, 1, i - 1)[j] = mempool[j]
      BY <1>1, <2>1
    <2> QED
      BY <2>1, <2>2
  <1> QED
    BY <1>2, <1>3, <1>4

LEMMA TypeStep ==
  ASSUME TypeInv, [Next]_vars
  PROVE  TypeInv'
  <1> USE DEF TypeInv, chainVars, historyVars
  <1>0. CASE UNCHANGED vars
    BY <1>0 DEF vars
  <1>1. CASE Redeploy
    BY <1>1 DEF Redeploy, RunDeploy, Start, ScriptNames
  <1>2. CASE Administer
    <2>1. CASE RunUpgrade
      <3>1. PICK k \in Keys : env' = [env EXCEPT !.key = k, !.next = version + 1]
        BY <2>1 DEF RunUpgrade
      <3>2. env' \in Environments
        <4>1. env \in Environments /\ version + 1 \in Nat
          OBVIOUS
        <4> HIDE DEF TypeInv
        <4> QED
          BY <3>1, <4>1, EnvChange
      <3> QED
        BY <2>1, <3>2 DEF RunUpgrade, Start, ScriptNames
    <2>2. CASE RunSetRelayers
      BY <2>2 DEF RunSetRelayers, Start, ScriptNames
    <2> QED
      BY <1>2, <2>1, <2>2 DEF Administer
  <1>3. CASE Skip
    BY <1>3 DEF Skip, Goes
  <1>4. CASE Broadcast
    <2>1. MoreToDo /\ Broadcasts /\ UNCHANGED historyVars
      BY <1>4 DEF Broadcast
    <2>2. mempool' \in Seq([call : Calls, awaited : BOOLEAN])
      BY <2>1, MempoolTypes
    <2> QED
      BY <2>1, <2>2 DEF Broadcasts
  <1>5. CASE Confirmed
    BY <1>5 DEF Confirmed, Goes
  <1>6. CASE Aborted
    BY <1>6, ThrowsEffect DEF Aborted
  <1>7. CASE WaitsInVain \/ Refused
    BY <1>7, ThrowsEffect DEF WaitsInVain, Refused
  <1>8. CASE Finish
    <2>1. PICK status \in {"complete", "failed"} : Ends(status)
      BY <1>8 DEF Finish
    <2> QED
      BY <1>8, <2>1, EndsEffect DEF Finish
  <1>9. CASE ReadFails
    <2>1. CASE Current[1] = "unseat"
      <3>1. Goes(pc + 1) /\ UNCHANGED <<chainVars, mempool>> /\ Fault
        BY <1>9, <2>1 DEF ReadFails
      <3>2. pc' \in Nat \ {0} /\ answer' = "none" /\ UNCHANGED <<script, running, env, exit>>
        BY <3>1 DEF Goes
      <3>3. clean' \in BOOLEAN /\ quiet' \in BOOLEAN /\ faults' \in Nat
        BY <3>1, FaultEffect
      <3> QED
        BY <3>1, <3>2, <3>3
    <2>2. CASE Current[1] # "unseat"
      <3>1. MoreToDo /\ Broadcasts /\ Fault
        BY <1>9, <2>2 DEF ReadFails
      <3>2. mempool' \in Seq([call : Calls, awaited : BOOLEAN])
        BY <3>1, MempoolTypes
      <3> QED
        BY <3>1, <3>2, FaultEffect DEF Broadcasts
    <2> QED
      BY <2>1, <2>2
  <1>10. CASE BroadcastFails
    BY <1>10, ThrowsEffect, FaultEffect DEF BroadcastFails
  <1>11. CASE GivesUp
    BY <1>11, ThrowsEffect, FaultEffect, MempoolTypes DEF GivesUp
  <1>12. CASE Crash
    BY <1>12, EndsEffect, FaultEffect, MempoolTypes DEF Crash
  <1>13. CASE Drop
    <2>1. PICK i \in DOMAIN mempool : mempool' = SubSeq(mempool, 1, i - 1)
      BY <1>13 DEF Drop
    <2>2. mempool' \in Seq([call : Calls, awaited : BOOLEAN])
      BY <2>1, MempoolTypes
    <2> QED
      BY <1>13, <2>2, FaultEffect DEF Drop
  <1>14. CASE Mine
    <2>1. mempool' \in Seq([call : Calls, awaited : BOOLEAN])
      BY <1>14, MinedCall DEF Mine
    <2>2. chain' \subseteq Calls /\ version' \in Nat /\ state' \in {"ACTIVE", "PAUSED", "UPGRADING"}
      BY <1>14, MinedEffect
    <2>3. answer' \in {"none", "pending", "success", "abort"}
      BY <1>14 DEF Mine
    <2> QED
      BY <1>14, <2>1, <2>2, <2>3 DEF Mine
  <1>15. CASE Reopen
    <2>1. {<<"unpause">>, <<"complete">>} \subseteq Calls
      BY DEF Calls, OtherCalls
    <2>2. PICK c \in Calls : mempool' = <<[call |-> c, awaited |-> FALSE]>>
      BY <1>15, <2>1 DEF Reopen
    <2>3. [call |-> c, awaited |-> FALSE] \in [call : Calls, awaited : BOOLEAN]
      OBVIOUS
    <2>4. mempool' \in Seq([call : Calls, awaited : BOOLEAN])
      BY <2>2, <2>3
    <2> QED
      BY <1>15, <2>4 DEF Reopen
  <1> QED
    BY <1>0, <1>1, <1>2, <1>3, <1>4, <1>5, <1>6, <1>7, <1>8, <1>9, <1>10, <1>11, <1>12, <1>13,
       <1>14, <1>15 DEF Next, ScriptStep

-----------------------------------------------------------------------------
(***************************************************************************)
(* What a script waits for.                                                *)
(***************************************************************************)
\* What is in the mempool when nothing is added to it.
LEMMA WaitingKept ==
  ASSUME Waiting, UNCHANGED <<script, env>>,
         running' /\ answer' # "none" => pc' \in DOMAIN Plan,
         ~running' => answer' = "none",
         \/ /\ \A i \in DOMAIN mempool' : ~mempool'[i].awaited
         \/ /\ running' = running /\ answer' = answer /\ pc' = pc
            /\ \A i \in DOMAIN mempool' : i \in DOMAIN mempool /\ mempool'[i] = mempool[i]
  PROVE  Waiting'
  BY PlanSame DEF Waiting, Current

LEMMA WaitingAdded ==
  ASSUME TypeInv, Waiting, MoreToDo, answer = "none", Broadcasts
  PROVE  Waiting'
  <1>1. /\ DOMAIN mempool' = 1..(Len(mempool) + 1)
        /\ DOMAIN mempool = 1..Len(mempool) /\ Len(mempool) \in Nat
        /\ \A i \in DOMAIN mempool : mempool'[i] = mempool[i]
        /\ mempool'[Len(mempool) + 1] = [call |-> Current, awaited |-> TRUE]
    BY MempoolTypes
  <1>2. \A i \in DOMAIN mempool : ~mempool'[i].awaited
    BY <1>1 DEF Waiting
  <1>3. Plan' = Plan /\ running' = running /\ running /\ pc' = pc /\ answer' = "pending"
    BY PlanSame DEF Broadcasts, MoreToDo
  <1>4. pc \in DOMAIN Plan
    BY CurrentCall
  <1>5. Current' = Current
    BY <1>3 DEF Current
  <1>6. mempool'[Len(mempool) + 1].call = Current /\ mempool'[Len(mempool) + 1].awaited
    BY <1>1
  <1>7. \A i \in DOMAIN mempool' : i \in DOMAIN mempool \/ i = Len(mempool) + 1
    BY <1>1
  <1> QED
    BY <1>2, <1>3, <1>4, <1>5, <1>6, <1>7 DEF Waiting

LEMMA WaitingStep ==
  ASSUME TypeInv, Waiting, [Next]_vars
  PROVE  Waiting'
  <1>0. CASE UNCHANGED vars
    BY <1>0, WaitingKept DEF vars, Waiting
  <1>1. CASE Redeploy \/ Administer
    <2>1. ~running /\ answer' = "none" /\ mempool' = mempool /\ running' = TRUE
      BY <1>1 DEF Redeploy, RunDeploy, Administer, RunUpgrade, RunSetRelayers, Start
    <2> QED
      BY <2>1 DEF Waiting
  <1>2. CASE Skip
    <2>1. answer = "none" /\ answer' = "none" /\ mempool' = mempool /\ running /\ running' = running
          /\ UNCHANGED <<script, env>>
      BY <1>2 DEF Skip, Goes, MoreToDo
    <2>2. \A i \in DOMAIN mempool' : ~mempool'[i].awaited
      BY <2>1 DEF Waiting
    <2> QED
      BY <2>1, <2>2, WaitingKept
  <1>3. CASE Broadcast
    BY <1>3, WaitingAdded DEF Broadcast
  <1>4. CASE Confirmed \/ Aborted \/ WaitsInVain
    <2>1. running /\ mempool' = mempool /\ answer' = "none" /\ UNCHANGED <<script, env>>
      BY <1>4, ThrowsEffect DEF Confirmed, Aborted, WaitsInVain, Goes
    <2>2. \A i \in DOMAIN mempool' : ~mempool'[i].awaited
      BY <1>4, <2>1 DEF Confirmed, Aborted, WaitsInVain, Waiting
    <2> QED
      BY <2>1, <2>2, WaitingKept
  <1>5. CASE Finish
    <2>1. mempool' = mempool /\ answer' = "none" /\ UNCHANGED <<script, env>> /\ running /\ pc > Len(Plan)
      BY <1>5 DEF Finish, Ends
    <2>2. Plan \in Seq(Calls) /\ pc \in Nat
      BY PlanType DEF TypeInv
    <2>3. pc \notin DOMAIN Plan
      BY <2>1, <2>2
    <2>4. \A i \in DOMAIN mempool' : ~mempool'[i].awaited
      BY <2>1, <2>3 DEF Waiting
    <2> QED
      BY <2>1, <2>4, WaitingKept
  <1>6. CASE ReadFails
    <2>1. MoreToDo /\ answer = "none"
      BY <1>6 DEF ReadFails
    <2>2. CASE Broadcasts
      BY <2>1, <2>2, WaitingAdded
    <2>3. CASE Goes(pc + 1) /\ UNCHANGED <<chainVars, mempool>>
      <3>1. \A i \in DOMAIN mempool' : ~mempool'[i].awaited
        BY <2>1, <2>3 DEF Waiting
      <3> QED
        BY <2>1, <2>3, <3>1, WaitingKept DEF Goes
    <2> QED
      BY <1>6, <2>2, <2>3 DEF ReadFails
  <1>7. CASE BroadcastFails \/ Refused
    <2>1. answer = "none" /\ mempool' = mempool /\ answer' = "none" /\ UNCHANGED <<script, env>>
      BY <1>7, ThrowsEffect DEF BroadcastFails, Refused
    <2>2. \A i \in DOMAIN mempool' : ~mempool'[i].awaited
      BY <2>1 DEF Waiting
    <2> QED
      BY <2>1, <2>2, WaitingKept
  <1>8. CASE GivesUp \/ Crash
    <2>1. Forget /\ answer' = "none" /\ UNCHANGED <<script, env>>
      BY <1>8, ThrowsEffect DEF GivesUp, Crash, Ends
    <2>2. \A i \in DOMAIN mempool' : ~mempool'[i].awaited
      BY <2>1, MempoolTypes
    <2> QED
      BY <2>1, <2>2, WaitingKept
  <1>9. CASE Drop
    <2>1. PICK i \in DOMAIN mempool : mempool' = SubSeq(mempool, 1, i - 1)
      BY <1>9 DEF Drop
    <2>2. \A j \in DOMAIN mempool' : j \in DOMAIN mempool /\ mempool'[j] = mempool[j]
      BY <2>1, MempoolTypes
    <2>3. UNCHANGED <<script, env, running, pc, answer>>
      BY <1>9 DEF Drop
    <2>4. running' /\ answer' # "none" => pc' \in DOMAIN Plan
      BY <2>3 DEF Waiting
    <2>5. ~running' => answer' = "none"
      BY <2>3 DEF Waiting
    <2> QED
      BY <2>2, <2>3, <2>4, <2>5, WaitingKept
  <1>10. CASE Mine
    <2>1. /\ 1 \in DOMAIN mempool /\ Head(mempool) = mempool[1] /\ mempool' = Tail(mempool)
          /\ \A i \in DOMAIN mempool' : i + 1 \in DOMAIN mempool /\ mempool'[i] = mempool[i + 1]
      BY <1>10, MinedCall DEF Mine
    <2>2. UNCHANGED <<script, env, running, pc>>
      BY <1>10 DEF Mine
    <2>3. \A i \in DOMAIN mempool' : i \in Nat /\ i # 0
      <3>1. mempool' \in Seq([call : Calls, awaited : BOOLEAN])
        BY <2>1, <1>10, MinedCall
      <3> QED
        BY <3>1
    <2>4. CASE mempool[1].awaited
      <3>1. running /\ answer = "pending" /\ \A i \in DOMAIN mempool' : ~mempool'[i].awaited
        <4>1. ASSUME NEW i \in DOMAIN mempool', mempool'[i].awaited
              PROVE  FALSE
          <5>1. i + 1 = 1
            BY <2>1, <2>4, <4>1 DEF Waiting
          <5> QED
            BY <2>3, <5>1
        <4> QED
          BY <2>1, <2>4, <4>1 DEF Waiting
      <3>2. running' /\ pc' \in DOMAIN Plan
        BY <2>2, <3>1 DEF Waiting
      <3> QED
        BY <2>2, <3>1, <3>2, WaitingKept
    <2>5. CASE ~mempool[1].awaited
      <3>1. answer' = answer
        BY <1>10, <2>1, <2>5 DEF Mine
      <3>2. Plan' = Plan /\ Current' = Current
        BY <2>2, PlanSame DEF Current
      <3>3. \A i, j \in DOMAIN mempool' : mempool'[i].awaited /\ mempool'[j].awaited => i = j
        <4>1. ASSUME NEW i \in DOMAIN mempool', NEW j \in DOMAIN mempool',
                     mempool'[i].awaited, mempool'[j].awaited
              PROVE  i = j
          <5>1. i + 1 = j + 1
            BY <2>1, <4>1 DEF Waiting
          <5> QED
            BY <2>3, <5>1
        <4> QED
          BY <4>1
      <3> QED
        BY <2>1, <2>2, <3>1, <3>2, <3>3 DEF Waiting
    <2> QED
      BY <2>4, <2>5
  <1>11. CASE Reopen
    <2>1. ~running /\ UNCHANGED <<script, env, running, pc, answer>>
      BY <1>11 DEF Reopen
    <2>2. \A i \in DOMAIN mempool' : ~mempool'[i].awaited
      BY <1>11 DEF Reopen
    <2>3. ~running' => answer' = "none"
      BY <2>1 DEF Waiting
    <2> QED
      BY <2>1, <2>2, <2>3, WaitingKept
  <1> QED
    BY <1>0, <1>1, <1>2, <1>3, <1>4, <1>5, <1>6, <1>7, <1>8, <1>9, <1>10, <1>11 DEF Next, ScriptStep

-----------------------------------------------------------------------------
(***************************************************************************)
(* set-relayers.                                                           *)
(***************************************************************************)
\* A relayer's call is refused only when he is seated already.
LEMMA MinedSeat ==
  ASSUME TypeInv, Mine, NEW r, mempool[1].call = <<"relayer", r>>
  PROVE  <<"relayer", r>> \in chain'
  <1> DEFINE c == mempool[1].call
  <1>1. c[1] = "relayer"
    OBVIOUS
  <1>2. c[1] \notin DOMAIN Transition \cup {"unseat", "versions"}
    BY <1>1 DEF Transition
  <1>3. Accepts(c) <=> c \notin chain
    BY <1>1 DEF Accepts
  <1> HIDE DEF c
  <1>4. CASE Accepts(c)
    <2>1. c \in chain'
      BY <1>2, <1>4, MinedEffect DEF c
    <2> QED
      BY <2>1 DEF c
  <1>5. CASE ~Accepts(c)
    <2>1. chain \subseteq chain'
      BY <1>2, MinedEffect DEF c
    <2> QED
      BY <1>3, <1>5, <2>1 DEF c
  <1> QED
    BY <1>4, <1>5

\* When the deployer is dropped, the others are seated and stay.
LEMMA OthersStay ==
  ASSUME RelayerInv, Mine
  PROVE  \A r \in Elements(Relayers) :
           <<"relayer", r>> \in chain => <<"relayer", r>> \in chain'
  <1> SUFFICES ASSUME NEW r \in Elements(Relayers), <<"relayer", r>> \in chain
               PROVE  <<"relayer", r>> \in chain'
    OBVIOUS
  <1>1. r # FirstRelayer
    BY DeploymentAssumption
  <1>2. <<"relayer", r>> # <<"relayer", FirstRelayer>>
    BY <1>1
  <1>3. \/ chain \subseteq chain'
        \/ chain \ {<<"relayer", FirstRelayer>>} \subseteq chain'
    BY MinedEffect DEF RelayerInv
  <1> QED
    BY <1>2, <1>3

LEMMA SeatingCurrent ==
  ASSUME script = "relayers", TypeInv
  PROVE  /\ Plan = Seating
         /\ pc \in 1..Len(Relayers) => /\ pc \in DOMAIN Relayers /\ Relayers[pc] \in Elements(Relayers)
                                       /\ Current = <<"relayer", Relayers[pc]>>
         /\ pc \in DOMAIN Plan => pc <= Len(Relayers) + 1
         /\ pc = Len(Relayers) + 1 => Current = <<"unseat", FirstRelayer>>
         /\ \A c \in Calls : ~Swallows(c)
  BY SeatingPlan DEF Plan, Current, Elements, Swallows, TypeInv

\* The list up to the call the script is at.
SeatedUpTo(n) == \A i \in 1..(n - 1) : i <= Len(Relayers) => <<"relayer", Relayers[i]>> \in chain

LEMMA SeatedMore ==
  ASSUME TypeInv, SeatedUpTo(pc), pc <= Len(Relayers) => <<"relayer", Relayers[pc]>> \in chain
  PROVE  SeatedUpTo(pc + 1)
  <1> SUFFICES ASSUME NEW i \in 1..pc, i <= Len(Relayers)
               PROVE  <<"relayer", Relayers[i]>> \in chain
    BY DEF SeatedUpTo, TypeInv
  <1> QED
    BY SMTT(30) DEF SeatedUpTo, TypeInv

\* No other script drops a relayer.
LEMMA CurrentUnseats ==
  ASSUME TypeInv, MoreToDo, Current[1] = "unseat"
  PROVE  script = "relayers"
  <1>1. pc \in DOMAIN Plan
    BY CurrentCall
  <1>2. CASE script = "deploy"
    <2>1. Plan \in Seq(DeployCalls(env))
      <3>1. env \in Environments
        BY DEF TypeInv
      <3> QED
        BY <1>2, <3>1, DeployPlanIs, DeployPlanOrder
    <2>2. Current \in DeployCalls(env)
      BY <1>1, <2>1 DEF Current
    <2> QED
      BY <2>2 DEF DeployCalls
  <1>3. CASE script = "upgrade"
    <2> DEFINE s == Each(Circuits, LAMBDA c : <<"key", c, env.next, env.key>>)
               t == << <<"pause">>, <<"begin">>, <<"versions", env.next>>, <<"complete">> >>
               S == {x \in Calls : x[1] # "unseat"}
    <2>0. env.next \in Nat /\ env.key \in Keys
      BY DEF TypeInv, Environments
    <2>1. s \in Seq(S)
      <3>1. \A i \in DOMAIN Circuits : s[i] \in S
        BY <2>0 DEF Each, Elements, Calls, OtherCalls
      <3> HIDE DEF S
      <3> QED
        BY <3>1, EachIsSequence, DeploymentAssumption DEF Each
    <2>2. t \in Seq(S)
      <3>1. {<<"pause">>, <<"begin">>, <<"versions", env.next>>, <<"complete">>} \subseteq S
        BY <2>0 DEF Calls, OtherCalls
      <3> HIDE DEF S
      <3> QED
        BY <3>1
    <2>3. Plan = s \o t
      BY <1>3 DEF Plan, Upgrading
    <2> HIDE DEF s, t, S
    <2>4. Plan \in Seq(S)
      BY <2>1, <2>2, <2>3, ConcatProperties
    <2>5. Current \in S
      BY <1>1, <2>4 DEF Current
    <2> QED
      BY <2>5 DEF S
  <1> QED
    BY <1>2, <1>3 DEF TypeInv, ScriptNames

LEMMA SeatedStep ==
  ASSUME RelayerInv, [Next]_vars
  PROVE  SeatedInOrder'
  <1>t. TypeInv /\ Waiting /\ SeatedInOrder /\ TypeInv'
    BY TypeStep DEF RelayerInv
  \* Every action but Mine leaves the chain alone.
  <1>1. ASSUME UNCHANGED chain,
               \/ ~running' \/ script' # "relayers" \/ (pc' = 1 /\ answer' = "none")
               \/ /\ running /\ UNCHANGED <<script, pc>> /\ answer' \in {answer, "none", "pending"}
               \/ /\ running /\ UNCHANGED script /\ pc' = pc + 1 /\ answer' = "none"
                  /\ script = "relayers" /\ pc <= Len(Relayers) =>
                       <<"relayer", Relayers[pc]>> \in chain,
               \A i \in DOMAIN mempool' : mempool'[i].call[1] = "unseat" => AllSeated
        PROVE  SeatedInOrder'
    <2>1. AllSeated' <=> AllSeated
      BY <1>1 DEF AllSeated
    <2>2. \A i \in DOMAIN mempool' : mempool'[i].call[1] = "unseat" => AllSeated'
      BY <1>1, <2>1
    <2>3. ASSUME script' = "relayers", running'
          PROVE  /\ \A i \in 1..(pc' - 1) : i <= Len(Relayers) => <<"relayer", Relayers[i]>> \in chain'
                 /\ answer' = "success" /\ pc' <= Len(Relayers) => <<"relayer", Relayers[pc']>> \in chain'
      <3>1. CASE pc' = 1 /\ answer' = "none"
        BY <3>1
      <3>2. CASE running /\ UNCHANGED <<script, pc>> /\ answer' \in {answer, "none", "pending"}
        BY <1>t, <1>1, <2>3, <3>2 DEF SeatedInOrder
      <3>3. CASE /\ running /\ UNCHANGED script /\ pc' = pc + 1 /\ answer' = "none"
                 /\ script = "relayers" /\ pc <= Len(Relayers) =>
                      <<"relayer", Relayers[pc]>> \in chain
        <4>1. SeatedUpTo(pc)
          BY <1>t, <2>3, <3>3 DEF SeatedInOrder, SeatedUpTo
        <4>2. SeatedUpTo(pc + 1)
          BY <1>t, <2>3, <3>3, <4>1, SeatedMore
        <4> QED
          BY <1>1, <3>3, <4>2 DEF SeatedUpTo
      <3> QED
        BY <1>1, <2>3, <3>1, <3>2, <3>3
    <2> QED
      BY <2>2, <2>3 DEF SeatedInOrder
  <1>0. ASSUME UNCHANGED chain, ~running' \/ script' # "relayers",
               \A i \in DOMAIN mempool' : mempool'[i].call[1] = "unseat" => AllSeated
        PROVE  SeatedInOrder'
    <2>1. AllSeated' <=> AllSeated
      BY <1>0 DEF AllSeated
    <2>2. \A i \in DOMAIN mempool' : mempool'[i].call[1] = "unseat" => AllSeated'
      BY <1>0, <2>1
    <2> QED
      BY <1>0, <2>2 DEF SeatedInOrder
  <1>2. mempool' = mempool => \A i \in DOMAIN mempool' : mempool'[i].call[1] = "unseat" => AllSeated
    BY <1>t DEF SeatedInOrder
  <1>3. Forget => \A i \in DOMAIN mempool' : mempool'[i].call[1] = "unseat" => AllSeated
    BY <1>t, MempoolTypes DEF SeatedInOrder
  \* The call that drops the deployer goes out after the others are seated.
  <1>4. ASSUME MoreToDo, Broadcasts
        PROVE  \A i \in DOMAIN mempool' : mempool'[i].call[1] = "unseat" => AllSeated
    <2>1. /\ DOMAIN mempool' = 1..(Len(mempool) + 1)
          /\ DOMAIN mempool = 1..Len(mempool) /\ Len(mempool) \in Nat
          /\ \A i \in DOMAIN mempool : mempool'[i] = mempool[i]
          /\ mempool'[Len(mempool) + 1] = [call |-> Current, awaited |-> TRUE]
      BY <1>t, <1>4, MempoolTypes
    <2>2. mempool'[Len(mempool) + 1].call = Current
      BY <2>1
    <2>3. ASSUME Current[1] = "unseat"
          PROVE  AllSeated
      <3>1. script = "relayers"
        BY <1>t, <1>4, <2>3, CurrentUnseats
      <3>2. pc = Len(Relayers) + 1 /\ Len(Relayers) \in Nat
        <4>1. pc \in DOMAIN Plan /\ pc \in Nat \ {0}
          BY <1>t, <1>4, CurrentCall DEF TypeInv
        <4>2. pc \notin 1..Len(Relayers)
          BY <1>t, <2>3, <3>1, SeatingCurrent
        <4> QED
          BY <1>t, <3>1, <4>1, <4>2, SeatingCurrent, SeatingPlan
      <3>3. \A i \in 1..Len(Relayers) : <<"relayer", Relayers[i]>> \in chain
        BY <1>t, <1>4, <3>1, <3>2 DEF SeatedInOrder, MoreToDo
      <3> QED
        BY <3>3, SeatingPlan DEF AllSeated, Elements
    <2>4. ASSUME NEW i \in DOMAIN mempool', mempool'[i].call[1] = "unseat"
          PROVE  AllSeated
      <3>1. i \in DOMAIN mempool \/ i = Len(mempool) + 1
        BY <2>1
      <3> QED
        BY <1>t, <2>1, <2>2, <2>3, <2>4, <3>1 DEF SeatedInOrder
    <2> QED
      BY <2>4
  <1>5. CASE UNCHANGED vars
    <2>1. SeatedInOrder' <=> SeatedInOrder
      BY <1>5 DEF SeatedInOrder, AllSeated, vars
    <2> QED
      BY <1>t, <2>1
  <1>6. CASE Redeploy \/ Administer
    BY <1>1, <1>2, <1>6
       DEF Redeploy, RunDeploy, Administer, RunUpgrade, RunSetRelayers, Start, chainVars
  <1>7. CASE Skip
    <2>1. /\ running /\ UNCHANGED <<chain, script, mempool>> /\ pc' = pc + 1 /\ answer' = "none"
      BY <1>7 DEF Skip, Goes, MoreToDo, chainVars
    <2>2. ASSUME script = "relayers", pc <= Len(Relayers)
          PROVE  <<"relayer", Relayers[pc]>> \in chain
      <3>1. pc \in 1..Len(Relayers)
        BY <1>t, <2>2, SeatingPlan DEF TypeInv
      <3>2. Current = <<"relayer", Relayers[pc]>>
        BY <1>t, <2>2, <3>1, SeatingCurrent
      <3>3. AlreadyDone(Current)
        BY <1>7 DEF Skip
      <3> QED
        BY <3>2, <3>3 DEF AlreadyDone
    <2> QED
      BY <1>1, <1>2, <2>1, <2>2
  <1>8. CASE Broadcast
    <2>1. MoreToDo /\ Broadcasts
      BY <1>8 DEF Broadcast
    <2> QED
      BY <1>1, <1>4, <2>1 DEF MoreToDo, Broadcasts, chainVars
  <1>9. CASE Confirmed
    <2>1. /\ running /\ UNCHANGED <<chain, script, mempool>> /\ pc' = pc + 1 /\ answer' = "none"
          /\ answer = "success"
      BY <1>9 DEF Confirmed, Goes, chainVars
    <2>2. script = "relayers" /\ pc <= Len(Relayers) => <<"relayer", Relayers[pc]>> \in chain
      BY <1>t, <2>1 DEF SeatedInOrder
    <2> QED
      BY <1>1, <1>2, <2>1, <2>2
  \* set-relayers swallows nothing: an exception ends it.
  <1>10. ASSUME Throws, UNCHANGED chain, MoreToDo \/ (running /\ answer # "none"),
                \A i \in DOMAIN mempool' : mempool'[i].call[1] = "unseat" => AllSeated
         PROVE  SeatedInOrder'
    <2>1. CASE script = "relayers"
      <3>1. pc \in DOMAIN Plan /\ Plan \in Seq(Calls)
        BY <1>t, <1>10, CurrentCall, PlanType DEF Waiting, TypeInv
      <3>2. ~Swallows(Current)
        BY <1>t, <2>1, <3>1, SeatingCurrent DEF Current
      <3>3. ~running'
        BY <1>t, <1>10, <3>2, ThrowsEffect
      <3> QED
        BY <1>0, <1>10, <3>3
    <2>2. CASE script # "relayers"
      <3>1. script' = script
        BY <1>t, <1>10, ThrowsEffect
      <3> QED
        BY <1>0, <1>10, <2>2, <3>1
    <2> QED
      BY <2>1, <2>2
  <1>11. CASE Aborted \/ WaitsInVain
    BY <1>2, <1>10, <1>11 DEF Aborted, WaitsInVain, chainVars
  <1>12. CASE Finish
    BY <1>1, <1>2, <1>12, EndsEffect DEF Finish, Ends, chainVars
  <1>13. CASE ReadFails
    <2>1. CASE Current[1] = "unseat"
      <3>1. /\ MoreToDo /\ running /\ pc' = pc + 1 /\ answer' = "none"
            /\ UNCHANGED <<chain, script, mempool>>
        BY <1>13, <2>1 DEF ReadFails, Goes, MoreToDo, chainVars
      <3>2. ASSUME script = "relayers", pc <= Len(Relayers)
            PROVE  FALSE
        <4>1. pc \in 1..Len(Relayers)
          BY <1>t, <3>2, SeatingPlan DEF TypeInv
        <4>2. Current = <<"relayer", Relayers[pc]>>
          BY <1>t, <3>2, <4>1, SeatingCurrent
        <4> QED
          BY <2>1, <4>2
      <3> QED
        BY <1>1, <1>2, <3>1, <3>2
    <2>2. CASE Current[1] # "unseat"
      <3>1. MoreToDo /\ Broadcasts
        BY <1>13, <2>2 DEF ReadFails
      <3> QED
        BY <1>1, <1>4, <3>1 DEF MoreToDo, Broadcasts, chainVars
    <2> QED
      BY <2>1, <2>2
  <1>14. CASE BroadcastFails \/ Refused
    <2>1. MoreToDo /\ Throws /\ UNCHANGED chain /\ mempool' = mempool
      BY <1>14 DEF BroadcastFails, Refused, chainVars
    <2> QED
      <3>1. \A i \in DOMAIN mempool' : mempool'[i].call[1] = "unseat" => AllSeated
        BY <1>2, <2>1
      <3>2. MoreToDo \/ (running /\ answer # "none")
        BY <2>1
      <3> QED
        BY <1>10, <2>1, <3>1, <3>2
  <1>15. CASE GivesUp
    BY <1>3, <1>10, <1>15 DEF GivesUp, chainVars
  <1>16. CASE Crash
    BY <1>1, <1>3, <1>16 DEF Crash, Ends, chainVars
  <1>17. CASE Drop
    <2>1. PICK i \in DOMAIN mempool : mempool' = SubSeq(mempool, 1, i - 1)
      BY <1>17 DEF Drop
    <2>2. \A j \in DOMAIN mempool' : j \in DOMAIN mempool /\ mempool'[j] = mempool[j]
      BY <1>t, <2>1, MempoolTypes
    <2>3. \A j \in DOMAIN mempool' : mempool'[j].call[1] = "unseat" => AllSeated
      BY <1>t, <2>2 DEF SeatedInOrder
    <2>4. UNCHANGED <<chain, script, running, pc, answer>>
      BY <1>17 DEF Drop, chainVars
    <2> QED
      <3>1. CASE running
        BY <1>1, <2>3, <2>4, <3>1
      <3>2. CASE ~running
        BY <1>0, <2>3, <2>4, <3>2
      <3> QED
        BY <3>1, <3>2
  <1>18. CASE Mine
    <2>1. /\ 1 \in DOMAIN mempool /\ Head(mempool) = mempool[1] /\ mempool' = Tail(mempool)
          /\ \A i \in DOMAIN mempool' : i + 1 \in DOMAIN mempool /\ mempool'[i] = mempool[i + 1]
      BY <1>t, <1>18, MinedCall DEF Mine
    <2>2. UNCHANGED <<script, env, running, pc>>
      BY <1>18 DEF Mine
    <2>3. \A r \in Elements(Relayers) : <<"relayer", r>> \in chain => <<"relayer", r>> \in chain'
      BY <1>18, OthersStay
    <2>4. AllSeated => AllSeated'
      BY <2>3 DEF AllSeated
    <2>5. \A i \in DOMAIN mempool' : mempool'[i].call[1] = "unseat" => AllSeated'
      BY <1>t, <2>1, <2>4 DEF SeatedInOrder
    <2>6. ASSUME script = "relayers", running
          PROVE  /\ \A i \in 1..(pc - 1) : i <= Len(Relayers) => <<"relayer", Relayers[i]>> \in chain'
                 /\ answer' = "success" /\ pc <= Len(Relayers) => <<"relayer", Relayers[pc]>> \in chain'
      <3>1. ASSUME NEW i \in 1..(pc - 1), i <= Len(Relayers)
            PROVE  <<"relayer", Relayers[i]>> \in chain'
        <4>1. <<"relayer", Relayers[i]>> \in chain
          BY <1>t, <2>6, <3>1 DEF SeatedInOrder
        <4>2. Relayers[i] \in Elements(Relayers)
          BY <1>t, <3>1, SeatingPlan DEF Elements, TypeInv
        <4> QED
          BY <2>3, <4>1, <4>2
      <3>2. ASSUME answer' = "success", pc <= Len(Relayers)
            PROVE  <<"relayer", Relayers[pc]>> \in chain'
        <4>0. pc \in 1..Len(Relayers)
          BY <1>t, <3>2, SeatingPlan DEF TypeInv
        <4>1. Current = <<"relayer", Relayers[pc]>> /\ Relayers[pc] \in Elements(Relayers)
          BY <1>t, <2>6, <4>0, SeatingCurrent
        <4>2. CASE mempool[1].awaited
          <5>1. mempool[1].call = Current
            BY <1>t, <2>1, <4>2 DEF Waiting
          <5> QED
            BY <1>t, <1>18, <4>1, <5>1, MinedSeat
        <4>3. CASE ~mempool[1].awaited
          <5>1. answer = "success"
            BY <1>18, <2>1, <3>2, <4>3 DEF Mine
          <5>2. <<"relayer", Relayers[pc]>> \in chain
            BY <1>t, <2>6, <3>2, <5>1 DEF SeatedInOrder
          <5> QED
            BY <2>3, <4>1, <5>2
        <4> QED
          BY <4>2, <4>3
      <3> QED
        BY <3>1, <3>2
    <2> QED
      BY <2>2, <2>5, <2>6 DEF SeatedInOrder
  <1>19. CASE Reopen
    <2>1. \A i \in DOMAIN mempool' : mempool'[i].call[1] # "unseat"
      BY <1>19 DEF Reopen
    <2>2. ~running' /\ UNCHANGED chain
      BY <1>19 DEF Reopen, chainVars
    <2> QED
      BY <1>0, <2>1, <2>2
  <1> QED
    BY <1>5, <1>6, <1>7, <1>8, <1>9, <1>11, <1>12, <1>13, <1>14, <1>15, <1>16, <1>17, <1>18, <1>19
       DEF Next, ScriptStep

LEMMA RelayerInit ==
  ASSUME Init
  PROVE  RelayerInv
  <1>1. TypeInv
    <2>1. mempool \in Seq([call : Calls, awaited : BOOLEAN])
      BY DEF Init
    <2>2. env \in Environments
      BY DeploymentAssumption DEF Init, Environments
    <2>3. chain \subseteq Calls /\ state = "ACTIVE" /\ version \in Nat /\ script \in ScriptNames
      BY DeploymentAssumption DEF Init, ScriptNames
    <2>4. running = FALSE /\ pc = 1 /\ answer = "none" /\ exit = "none" /\ clean = FALSE /\ quiet = FALSE
          /\ faults = 0
      BY DEF Init
    <2>5. running \in BOOLEAN /\ clean \in BOOLEAN /\ quiet \in BOOLEAN
      BY <2>4
    <2> QED
      BY <2>1, <2>2, <2>3, <2>4, <2>5 DEF TypeInv
  <1>2. DOMAIN mempool = {}
    BY DEF Init
  <1>3. Waiting
    BY <1>2 DEF Init, Waiting
  <1>4. SeatedInOrder
    BY <1>2 DEF Init, SeatedInOrder
  <1> QED
    BY <1>1, <1>3, <1>4 DEF RelayerInv

LEMMA RelayerStep ==
  ASSUME RelayerInv, [Next]_vars
  PROVE  RelayerInv'
  BY TypeStep, WaitingStep, SeatedStep DEF RelayerInv

(***************************************************************************)
(* At any moment: a script waits for one transaction at most and it is the *)
(* call it is at; set-relayers has seated the relayers of its list up to   *)
(* that call; and if the call that drops the deployer is pending, whoever  *)
(* sent it and however long ago, every relayer of the list is seated.      *)
(***************************************************************************)
THEOREM RelayerInvariant == Spec => []RelayerInv
  <1>1. Init => RelayerInv
    BY RelayerInit
  <1>2. RelayerInv /\ [Next]_vars => RelayerInv'
    BY RelayerStep
  <1> QED
    BY <1>1, <1>2, PTL DEF Spec

LEMMA SeatedKept ==
  ASSUME RelayerInv, [Next]_vars, Seated # {}
  PROVE  Seated' # {}
  <1>1. CASE UNCHANGED chain
    <2>1. Seated' = Seated
      BY <1>1 DEF Seated
    <2> QED
      BY <2>1
  <1>2. CASE Mine
    <2>1. CASE mempool[1].call[1] = "unseat"
      <3>1. 1 \in DOMAIN mempool
        BY <1>2, MinedCall DEF RelayerInv
      <3>2. AllSeated
        BY <2>1, <3>1 DEF RelayerInv, SeatedInOrder
      <3>3. PICK r \in Elements(Relayers) : TRUE
        <4>1. Relayers \in Seq(Elements(Relayers)) /\ Relayers # <<>>
          BY DeploymentAssumption
        <4>2. 1 \in DOMAIN Relayers
          BY <4>1
        <4> QED
          BY <4>2 DEF Elements
      <3>4. <<"relayer", r>> \in chain'
        BY <1>2, <3>2, OthersStay DEF AllSeated
      <3> QED
        BY <3>4 DEF Seated
    <2>2. CASE mempool[1].call[1] # "unseat"
      <3>1. chain \subseteq chain'
        BY <1>2, <2>2, MinedEffect DEF RelayerInv
      <3> QED
        BY <3>1 DEF Seated
    <2> QED
      BY <2>1, <2>2
  <1>3. Next => Mine \/ UNCHANGED chain
    BY DEF Next, ScriptStep, Redeploy, RunDeploy, Administer, RunUpgrade, RunSetRelayers, Start,
           Skip, Broadcast, Broadcasts, Refused, Confirmed, Aborted, WaitsInVain, Finish, ReadFails,
           BroadcastFails, GivesUp, Crash, Drop, Reopen, chainVars
  <1> QED
    BY <1>1, <1>2, <1>3 DEF vars

(***************************************************************************)
(* Replacing the relayers never leaves the verifier without one: the call  *)
(* that drops the deployer, even one of an abandoned run that is mined     *)
(* later, finds the relayers of the list seated, and nothing unseats them. *)
(***************************************************************************)
THEOREM VerifierKeepsARelayer == Spec => RelayersNeverEmpty
  <1>1. RelayerInv /\ [Next]_vars => (Seated # {} => Seated' # {})
    BY SeatedKept
  <1>2. RelayerInv /\ [Next]_vars => [Seated # {} => Seated' # {}]_vars
    BY <1>1
  <1> QED
    BY <1>2, RelayerInvariant, PTL DEF Spec, RelayersNeverEmpty

-----------------------------------------------------------------------------
(***************************************************************************)
(* deploy-fresh.                                                           *)
(***************************************************************************)
LEMMA PlanOfDeployCalls ==
  ASSUME TypeInv, script = "deploy"
  PROVE  /\ env \in Environments /\ Plan = DeployPlan(env) /\ Plan \in Seq(DeployCalls(env))
         /\ Len(Plan) \in Nat /\ DOMAIN Plan = 1..Len(Plan)
         /\ \A i \in DOMAIN Plan : Plan[i] \in DeployCalls(env)
         /\ Elements(Deploys \o Wiring) = Elements(Plan)
  <1>1. env \in Environments
    BY DEF TypeInv
  <1>2. Plan = DeployPlan(env) /\ Deploys \o Wiring = Plan
    BY DeployPlanIs
  <1>3. Plan \in Seq(DeployCalls(env))
    BY <1>1, <1>2, DeployPlanOrder
  <1> QED
    BY <1>1, <1>2, <1>3

LEMMA PlanParts ==
  ASSUME NEW e \in Environments
  PROVE  Elements(Deploys \o WiringOf(e)) = Elements(Deploys) \cup Elements(WiringOf(e))
  <1> DEFINE S == DeployCalls(e)
  <1>1. Deploys \in Seq(S)
    BY WiringParts
  <1>2. WiringOf(e) \in Seq(S)
    BY WiringType
  <1> HIDE DEF S
  <1> QED
    BY <1>1, <1>2, ConcatElements

LEMMA DeployCallsAre ==
  ASSUME NEW e, NEW c \in DeployCalls(e)
  PROVE  c[1] \notin DOMAIN Transition \cup {"unseat", "versions"}
  BY DEF DeployCalls, Transition

\* In order, a call is refused only when what it does is in force or cannot be,
\* and then the refusal is swallowed, unless a contract is deployed again.
LEMMA RefusedIsInForce ==
  ASSUME TypeInv, script = "deploy", state = "ACTIVE",
         chain \subseteq DeployCalls(env), pc \in DOMAIN Plan, InForceBefore(pc),
         HasFunction(Current), ~Accepts(Current)
  PROVE  /\ Feasible(Current) => Current \in chain
         /\ Swallows(Current) \/ (Current[1] = "deploy" /\ Current \in chain)
  <1> DEFINE e == env
  <1>1. /\ e \in Environments /\ e.key \in Keys
        /\ Plan = DeployPlan(e) /\ Current \in DeployCalls(e)
    BY PlanOfDeployCalls DEF Current, Environments
  <1>2. ASSUME NEW x, Precedes(Plan, x, Current), Feasible(x)
        PROVE  x \in chain
    <2>1. PICK i \in 1..(pc - 1) : Plan[i] = x
      BY <1>2 DEF Precedes, Current
    <2>2. i \in DOMAIN Plan
      BY <2>1, PlanOfDeployCalls
    <2> QED
      BY <1>2, <2>1, <2>2 DEF InForceBefore
  <1>3. CASE Current[1] = "deploy"
    <2>1. PICK c \in Elements(ContractOrder) : Current = <<"deploy", c>>
      BY <1>1, <1>3 DEF DeployCalls
    <2>2. ASSUME NEW d \in Refers[c]
          PROVE  <<"deploy", d>> \in chain
      <3>1. Precedes(Plan, <<"deploy", d>>, <<"deploy", c>>) /\ Feasible(<<"deploy", d>>)
        BY <1>1, DeployPlanOrder DEF Feasible, HasFunction
      <3> QED
        BY <1>2, <2>1, <3>1
    <2>3. Current[2] = c
      BY <2>1
    <2>4. Current \in chain
      BY <1>3, <2>2, <2>3 DEF Accepts
    <2> QED
      BY <1>3, <2>4
  <1>4. CASE Current[1] = "authorize" \/ Current[1] = "relayer"
    BY <1>4 DEF Accepts, Swallows
  <1>5. CASE Current[1] = "root"
    <2>1. Current = <<"root", e.root>>
      BY <1>1, <1>5 DEF DeployCalls
    <2>2. Feasible(Current) => Current[2] # ZeroRoot
      BY <2>1 DEF Feasible
    <2>3. Feasible(Current) => Current \in chain
      BY <1>5, <2>2 DEF Accepts
    <2> QED
      BY <1>5, <2>3 DEF Swallows
  <1>6. CASE Current[1] = "key"
    <2>1. PICK c \in Elements(Circuits) : Current = <<"key", c, FirstVersion, e.key>>
      BY <1>1, <1>6 DEF DeployCalls
    <2>2. Current[2] = c /\ Current[3] = FirstVersion
      BY <2>1
    <2>3. KeyAt(c, FirstVersion) # {}
      BY <1>6, <2>2 DEF Accepts
    <2>4. PICK j \in Keys : <<"key", c, FirstVersion, j>> \in chain
      BY <2>3 DEF KeyAt
    <2>5. <<"key", c, FirstVersion, j>> \in DeployCalls(e)
      BY <2>4
    <2>6. j = e.key
      BY <2>5 DEF DeployCalls
    <2> QED
      BY <1>6, <2>1, <2>4, <2>6 DEF Swallows
  <1>7. CASE Current[1] = "bind"
    <2>1. PICK c \in Elements(Circuits) : Current = <<"bind", c, FirstVersion>>
      BY <1>1, <1>7 DEF DeployCalls
    <2>2. <<"key", c, FirstVersion, e.key>> \in chain
      <3>1. /\ Precedes(Plan, <<"key", c, FirstVersion, e.key>>, <<"bind", c, FirstVersion>>)
            /\ Feasible(<<"key", c, FirstVersion, e.key>>)
        BY <1>1, DeployPlanOrder DEF Feasible, HasFunction
      <3> QED
        BY <1>2, <2>1, <3>1
    <2>3. e.key \in KeyAt(c, FirstVersion)
      BY <1>1, <2>2 DEF KeyAt
    <2>4. Current[2] = c /\ Current[3] = FirstVersion
      BY <2>1
    <2>5. Accepts(Current)
      BY <1>7, <2>3, <2>4 DEF Accepts
    <2> QED
      BY <2>5
  <1>8. CASE Current[1] \in {"context", "fee"}
    <2>1. Accepts(Current)
      BY <1>8 DEF Accepts
    <2> QED
      BY <2>1
  <1>9. Current[1] \in {"deploy", "authorize", "relayer", "root", "key", "bind", "context", "fee"}
    BY <1>1 DEF DeployCalls, HasFunction
  <1> QED
    BY <1>3, <1>4, <1>5, <1>6, <1>7, <1>8, <1>9

\* What the node mines for a run that met no fault: earlier transactions of the
\* account, or the one it waits for.
LEMMA CleanMine ==
  ASSUME TypeInv, Waiting, script = "deploy", state = "ACTIVE",
         chain \subseteq DeployCalls(env), running, CleanRun, Mine,
         chain \subseteq chain'
  PROVE  CleanRun' /\ (QuietRun => QuietRun')
  <1>1. /\ 1 \in DOMAIN mempool /\ mempool # <<>> /\ Head(mempool) = mempool[1]
        /\ mempool' = Tail(mempool) /\ UNCHANGED <<script, env, running, pc>>
        /\ mempool \in Seq([call : Calls, awaited : BOOLEAN])
    BY MinedCall DEF Mine, TypeInv
  <1>2. Plan' = Plan /\ Current' = Current /\ (Swallows(Current))' = Swallows(Current)
    <2>1. Plan' = Plan
      BY <1>1, PlanSame
    <2>2. Current' = Current
      BY <1>1, <2>1 DEF Current
    <2> QED
      BY <1>1, <2>1, <2>2 DEF Swallows
  <1>3. InForceBefore(pc)'
    <2>1. InForceBefore(pc) /\ pc' = pc
      BY <1>1 DEF CleanRun
    <2> QED
      BY <1>2, <2>1 DEF InForceBefore
  <1>4. CASE ~mempool[1].awaited
    <2>1. answer' = answer
      BY <1>1, <1>4 DEF Mine
    <2>2. ASSUME answer = "pending"
          PROVE  /\ mempool' # <<>> /\ mempool'[Len(mempool')].awaited /\ HasFunction(Current)'
                 /\ Len(mempool) # 1
      <3> DEFINE n == Len(mempool)
      <3>1. mempool[n].awaited /\ HasFunction(Current)
        BY <2>2 DEF CleanRun
      <3>2. n \in Nat /\ n # 0 /\ n # 1
        BY <1>1, <1>4, <3>1
      <3>3. Len(Tail(mempool)) = n - 1 /\ Tail(mempool)[n - 1] = mempool[n]
        <4>1. /\ Len(Tail(mempool)) = n - 1
              /\ \A i \in 1..Len(Tail(mempool)) : Tail(mempool)[i] = mempool[i + 1]
          BY <1>1, HeadTailProperties
        <4>2. n - 1 \in 1..Len(Tail(mempool)) /\ (n - 1) + 1 = n
          BY <3>2, <4>1
        <4> QED
          BY <4>1, <4>2
      <3>4. HasFunction(Current)' = HasFunction(Current)
        BY <1>2 DEF HasFunction
      <3>5. mempool' # <<>> /\ Len(mempool') = n - 1
        <4>1. Len(mempool') = n - 1 /\ n - 1 # 0
          BY <1>1, <3>2, <3>3
        <4> QED
          BY <4>1
      <3> QED
        BY <1>1, <3>1, <3>2, <3>3, <3>4, <3>5 DEF n
    <2>3. CleanRun'
      <3>1. answer' = "success" => Current' \in chain'
        BY <1>2, <2>1 DEF CleanRun
      <3>2. answer' = "abort" /\ Swallows(Current)' /\ Feasible(Current)' => Current' \in chain'
        BY <1>2, <2>1 DEF CleanRun, Feasible, HasFunction
      <3> QED
        BY <1>3, <2>1, <2>2, <3>1, <3>2 DEF CleanRun
    <2>4. ~QuietRun
      BY <1>1, <2>2 DEF QuietRun
    <2> QED
      BY <2>3, <2>4
  <1>5. CASE mempool[1].awaited
    <2>1. answer = "pending" /\ mempool[1].call = Current
      BY <1>1, <1>5 DEF Waiting
    <2>2. mempool[Len(mempool)].awaited /\ HasFunction(Current) /\ InForceBefore(pc)
      BY <2>1 DEF CleanRun
    <2>3. Len(mempool) \in DOMAIN mempool
      BY <1>1
    <2>4. Len(mempool) = 1
      BY <1>1, <1>5, <2>2, <2>3 DEF Waiting
    <2>5. mempool' = <<>>
      BY <1>1, <2>4
    <2>6. pc \in DOMAIN Plan
      BY <2>1 DEF Waiting
    <2>7. Current \in DeployCalls(env)
      BY <2>6, PlanOfDeployCalls DEF Current
    <2>8. Current[1] \notin DOMAIN Transition \cup {"unseat", "versions"}
      BY <2>7, DeployCallsAre
    <2>9. Accepts(Current) => Current \in chain'
      BY <2>1, <2>8, MinedEffect
    <2>10. answer' = IF Accepts(Current) THEN "success" ELSE "abort"
      BY <1>1, <1>5, <2>1 DEF Mine
    <2>11. ~Accepts(Current) => /\ Feasible(Current) => Current \in chain
                                /\ Swallows(Current) \/ (Current[1] = "deploy" /\ Current \in chain)
      BY <2>2, <2>6, RefusedIsInForce
    <2>12. Feasible(Current)' = Feasible(Current)
      BY <1>2 DEF Feasible, HasFunction
    <2>13. answer' = "success" => Current' \in chain'
      BY <1>2, <2>9, <2>10
    <2>14. answer' = "abort" /\ Feasible(Current)' => Current' \in chain'
      BY <1>2, <2>10, <2>11, <2>12
    <2>15. CleanRun'
      BY <1>3, <2>10, <2>13, <2>14 DEF CleanRun
    <2>16. ASSUME QuietRun
           PROVE  QuietRun'
      <3>1. Current[1] = "deploy" => Current \notin chain
        BY <2>1, <2>16 DEF QuietRun
      <3>2. answer' = "abort" => Swallows(Current)'
        BY <1>2, <2>10, <2>11, <3>1
      <3> QED
        BY <2>5, <2>10, <3>2 DEF QuietRun
    <2> QED
      BY <2>15, <2>16
  <1> QED
    BY <1>4, <1>5

LEMMA InForceMore ==
  ASSUME pc \in Nat, InForceBefore(pc),
         pc \in DOMAIN Plan /\ Feasible(Current) => Current \in chain
  PROVE  InForceBefore(pc + 1)
  <1> SUFFICES ASSUME NEW i \in 1..pc, i \in DOMAIN Plan, Feasible(Plan[i])
               PROVE  Plan[i] \in chain
    BY DEF InForceBefore
  <1>1. CASE i = pc
    BY <1>1 DEF Current
  <1>2. CASE i # pc
    BY <1>2 DEF InForceBefore
  <1> QED
    BY <1>1, <1>2

\* The next call of a run that met no fault.
LEMMA CleanGoes ==
  ASSUME TypeInv, CleanRun, Goes(pc + 1), UNCHANGED <<chain, mempool>>,
         pc \in DOMAIN Plan /\ Feasible(Current) => Current \in chain
  PROVE  CleanRun' /\ (QuietRun /\ mempool = <<>> => QuietRun')
  <1>1. Plan' = Plan /\ pc' = pc + 1 /\ answer' = "none"
    BY PlanSame DEF Goes
  <1>2. InForceBefore(pc)
    BY DEF CleanRun
  <1>3. InForceBefore(pc + 1)
    BY <1>2, InForceMore DEF TypeInv
  <1>4. InForceBefore(pc)'
    BY <1>1, <1>3 DEF InForceBefore
  <1> QED
    BY <1>1, <1>4 DEF CleanRun, QuietRun

\* What a run that met no fault has done when it ends.
LEMMA CleanFinish ==
  ASSUME TypeInv, script = "deploy", CleanRun, Finish
  PROVE  exit' = "complete" /\ Configured /\ UNCHANGED <<chain, script, env>>
  <1>1. \A i \in DOMAIN Plan : Feasible(Plan[i]) => Plan[i] \in chain
    <2>1. pc \in Nat /\ pc > Len(Plan) /\ Len(Plan) \in Nat /\ DOMAIN Plan = 1..Len(Plan)
      BY PlanOfDeployCalls DEF Finish, TypeInv
    <2> QED
      BY <2>1 DEF CleanRun, InForceBefore
  <1>2. Configured
    BY <1>1, PlanOfDeployCalls DEF Configured, Elements
  <1>3. \A c \in Elements(ContractOrder) : <<"deploy", c>> \in chain
    <2> SUFFICES ASSUME NEW i \in DOMAIN ContractOrder
                 PROVE  <<"deploy", ContractOrder[i]>> \in chain
      BY DEF Elements
    <2>1. i \in DOMAIN Deploys /\ Deploys[i] = <<"deploy", ContractOrder[i]>>
      BY DEF Deploys, Each
    <2>2. Elements(Deploys \o WiringOf(env)) = Elements(Deploys) \cup Elements(WiringOf(env))
      BY PlanOfDeployCalls, PlanParts
    <2>3. Elements(Deploys) \subseteq Elements(Deploys \o Wiring)
      BY <2>2 DEF Wiring, WiringOf, TreasuryOf
    <2>4. Feasible(<<"deploy", ContractOrder[i]>>)
      BY DEF Feasible, HasFunction
    <2> QED
      BY <1>2, <2>1, <2>3, <2>4 DEF Configured, Elements
  <1>4. Verified
    BY <1>3 DEF Verified
  <1>5. Ends("complete")
    BY <1>4 DEF Finish
  <1> QED
    BY <1>2, <1>5 DEF Finish, Ends, chainVars

LEMMA ConfiguredKept ==
  ASSUME Configured, UNCHANGED <<script, env>>, chain \subseteq chain'
  PROVE  Configured'
  <1>1. (Deploys \o Wiring)' = Deploys \o Wiring
    BY DEF Wiring, Deploys, Each
  <1> QED
    BY <1>1 DEF Configured, Elements

DeployInv == TypeInv /\ Waiting /\ FreshDeployment

LEMMA FreshStep ==
  ASSUME DeployInv, [Next]_vars
  PROVE  FreshDeployment'
  <1> SUFFICES ASSUME script' = "deploy"
               PROVE  /\ state' = "ACTIVE" /\ chain' \subseteq DeployCalls(env)'
                      /\ \A i \in DOMAIN mempool' : mempool'[i].call \in DeployCalls(env)'
                      /\ clean' /\ running' => CleanRun' /\ (quiet' => QuietRun')
                      /\ clean' /\ ~running' => /\ exit' = "complete" => Configured'
                                                /\ quiet' => exit' = "complete"
    BY DEF FreshDeployment
  <1>t. TypeInv /\ Waiting
    BY DEF DeployInv
  <1>1. script = "deploy" /\ UNCHANGED env /\ ~Administer
    <2>1. ~Administer
      BY DEF Administer, RunUpgrade, RunSetRelayers, Start
    <2> QED
      BY <1>t, <2>1, ThrowsEffect
         DEF Next, ScriptStep, Redeploy, RunDeploy, Start, Skip, Broadcast, Broadcasts, Refused, Confirmed,
             Aborted, WaitsInVain, Finish, Ends, ReadFails, BroadcastFails, GivesUp, Crash, Drop,
             Mine, Reopen, Goes, vars
  <1>2. /\ state = "ACTIVE" /\ chain \subseteq DeployCalls(env)
        /\ \A i \in DOMAIN mempool : mempool[i].call \in DeployCalls(env)
        /\ clean /\ running => CleanRun /\ (quiet => QuietRun)
        /\ clean /\ ~running => (exit = "complete" => Configured) /\ (quiet => exit = "complete")
    BY <1>1 DEF DeployInv, FreshDeployment
  <1>3. DeployCalls(env)' = DeployCalls(env)
    BY <1>1 DEF DeployCalls
  \* What holds of the mempool.
  <1>4. Forget => \A i \in DOMAIN mempool' : mempool'[i].call \in DeployCalls(env)'
    BY <1>t, <1>2, <1>3, MempoolTypes
  <1>5. ASSUME MoreToDo, Broadcasts
        PROVE  \A i \in DOMAIN mempool' : mempool'[i].call \in DeployCalls(env)'
    <2>1. /\ DOMAIN mempool' = 1..(Len(mempool) + 1)
          /\ DOMAIN mempool = 1..Len(mempool) /\ Len(mempool) \in Nat
          /\ \A i \in DOMAIN mempool : mempool'[i] = mempool[i]
          /\ mempool'[Len(mempool) + 1] = [call |-> Current, awaited |-> TRUE]
      BY <1>t, <1>5, MempoolTypes
    <2>2. mempool'[Len(mempool) + 1].call = Current
      BY <2>1
    <2>3. Current \in DeployCalls(env)
      BY <1>t, <1>1, <1>5, CurrentCall, PlanOfDeployCalls DEF Current
    <2>4. \A i \in DOMAIN mempool' : i \in DOMAIN mempool \/ i = Len(mempool) + 1
      BY <2>1
    <2> QED
      BY <1>2, <1>3, <2>1, <2>2, <2>3, <2>4
  \* Steps that leave the chain alone and meet a fault.
  <1>6. ASSUME UNCHANGED <<chain, state>>, Fault,
               \A i \in DOMAIN mempool' : mempool'[i].call \in DeployCalls(env)'
        PROVE  /\ state' = "ACTIVE" /\ chain' \subseteq DeployCalls(env)'
               /\ \A i \in DOMAIN mempool' : mempool'[i].call \in DeployCalls(env)'
               /\ clean' /\ running' => CleanRun' /\ (quiet' => QuietRun')
               /\ clean' /\ ~running' => /\ exit' = "complete" => Configured'
                                         /\ quiet' => exit' = "complete"
    <2>1. ~clean'
      BY <1>6 DEF Fault
    <2> QED
      BY <1>2, <1>3, <1>6, <2>1
  \* Steps of a script that leave the chain and the mempool alone.
  <1>7. ASSUME UNCHANGED <<chain, state, mempool, clean, quiet>>, running, running',
               clean => CleanRun' /\ (quiet => QuietRun')
        PROVE  /\ state' = "ACTIVE" /\ chain' \subseteq DeployCalls(env)'
               /\ \A i \in DOMAIN mempool' : mempool'[i].call \in DeployCalls(env)'
               /\ clean' /\ running' => CleanRun' /\ (quiet' => QuietRun')
               /\ clean' /\ ~running' => /\ exit' = "complete" => Configured'
                                         /\ quiet' => exit' = "complete"
    BY <1>2, <1>3, <1>7
  <1>8. CASE UNCHANGED vars
    <2>1. UNCHANGED <<chain, state, mempool, clean, quiet, running, exit, script, env, pc, answer>>
      BY <1>8 DEF vars
    <2>2. Plan' = Plan /\ Configured' = Configured
      BY <2>1, PlanSame DEF Configured, Wiring, Deploys, Each, Elements
    <2>3. CleanRun' = CleanRun /\ QuietRun' = QuietRun
      BY <2>1, <2>2 DEF CleanRun, QuietRun, Current, Swallows, InForceBefore
    <2> QED
      BY <1>2, <1>3, <2>1, <2>2, <2>3
  <1>9. CASE Redeploy
    <2>1. /\ UNCHANGED <<chain, state, mempool>> /\ running' /\ pc' = 1 /\ answer' = "none"
          /\ quiet' => mempool = <<>>
      BY <1>9 DEF Redeploy, RunDeploy, Start, chainVars
    <2>2. CleanRun' /\ (quiet' => QuietRun')
      BY <2>1 DEF CleanRun, QuietRun, InForceBefore
    <2> QED
      BY <1>2, <1>3, <2>1, <2>2
  <1>10. CASE Skip
    <2>1. /\ UNCHANGED <<chain, state, mempool, clean, quiet>> /\ running /\ running' /\ Goes(pc + 1)
          /\ answer = "none"
      BY <1>10 DEF Skip, MoreToDo, Goes, chainVars, historyVars
    <2>2. Current \in chain
      <3>1. Current \in DeployCalls(env)
        BY <1>t, <1>1, <1>10, CurrentCall, PlanOfDeployCalls DEF Current, Skip
      <3>2. Current[1] # "unseat"
        BY <3>1, DeployCallsAre
      <3> QED
        BY <1>10, <3>2 DEF Skip, AlreadyDone
    <2>3. clean => CleanRun' /\ (quiet => QuietRun')
      BY <1>t, <1>2, <2>1, <2>2, CleanGoes DEF QuietRun
    <2> QED
      BY <1>7, <2>1, <2>3
  <1>11. CASE Broadcast
    <2>1. /\ UNCHANGED <<chain, state, script, env, pc, running, clean, quiet>> /\ running
          /\ MoreToDo /\ Broadcasts /\ answer = "none" /\ answer' = "pending"
          /\ HasFunction(Current)
      BY <1>11 DEF Broadcast, Broadcasts, MoreToDo, chainVars, historyVars
    <2>2. Plan' = Plan /\ Current' = Current
      <3>1. Plan' = Plan
        BY <2>1, PlanSame
      <3> QED
        BY <2>1, <3>1 DEF Current
    <2>3. Current[1] = "deploy" => Current \notin chain
      BY <1>11 DEF Broadcast, ReadsBack, AlreadyDone
    <2>4. /\ mempool' \in Seq([call : Calls, awaited : BOOLEAN])
          /\ DOMAIN mempool' = 1..(Len(mempool) + 1) /\ Len(mempool) \in Nat
          /\ mempool'[Len(mempool) + 1] = [call |-> Current, awaited |-> TRUE]
      BY <1>t, <2>1, MempoolTypes
    <2>5. Len(mempool') = Len(mempool) + 1
      BY <2>4
    <2>6. mempool' # <<>> /\ mempool'[Len(mempool')].awaited
      BY <2>4, <2>5
    <2>7. ASSUME clean
          PROVE  CleanRun' /\ (quiet => QuietRun')
      <3>1. InForceBefore(pc)'
        <4>1. InForceBefore(pc)
          BY <1>2, <2>1, <2>7 DEF CleanRun
        <4> QED
          BY <2>1, <2>2, <4>1 DEF InForceBefore
      <3>2. CleanRun'
        BY <2>1, <2>2, <2>6, <3>1 DEF CleanRun, HasFunction
      <3>3. ASSUME quiet
            PROVE  QuietRun'
        <4>1. mempool = <<>>
          BY <1>2, <2>1, <2>7, <3>3 DEF QuietRun
        <4>2. Len(mempool') = 1
          BY <2>5, <4>1
        <4> QED
          BY <2>1, <2>2, <2>3, <4>2 DEF QuietRun
      <3> QED
        BY <3>2, <3>3
    <2> QED
      BY <1>2, <1>3, <1>5, <2>1, <2>7
  \* A call of no function: swallowed, and never in force.
  <1>r. CASE Refused
    <2>1. /\ UNCHANGED <<chain, state, mempool, clean, quiet>> /\ running /\ Throws /\ answer = "none"
          /\ MoreToDo /\ Current[1] = "treasury"
      BY <1>r DEF Refused, HasFunction, MoreToDo, chainVars, historyVars
    <2>2. Swallows(Current) /\ ~Feasible(Current)
      BY <1>1, <2>1 DEF Swallows, Feasible, HasFunction
    <2>3. Goes(pc + 1) /\ running'
      BY <2>1, <2>2 DEF Throws, Goes
    <2>4. clean => CleanRun' /\ (quiet => QuietRun')
      BY <1>t, <1>2, <2>1, <2>2, <2>3, CleanGoes DEF QuietRun
    <2> QED
      BY <1>7, <2>1, <2>3, <2>4
  <1>12. CASE Confirmed
    <2>1. /\ UNCHANGED <<chain, state, mempool, clean, quiet>> /\ running /\ running' /\ Goes(pc + 1)
          /\ answer = "success"
      BY <1>12 DEF Confirmed, Goes, chainVars, historyVars
    <2>2. clean => CleanRun /\ Current \in chain /\ (quiet => QuietRun /\ mempool = <<>>)
      BY <1>2, <2>1 DEF CleanRun, QuietRun
    <2>3. clean => CleanRun' /\ (quiet => QuietRun')
      BY <1>t, <2>1, <2>2, CleanGoes
    <2> QED
      BY <1>7, <2>1, <2>3
  <1>13. CASE Aborted
    <2>1. /\ UNCHANGED <<chain, state, mempool, clean, quiet>> /\ running /\ Throws /\ answer = "abort"
      BY <1>13 DEF Aborted, chainVars, historyVars
    <2>2. CASE Swallows(Current)
      <3>1. Goes(pc + 1) /\ running'
        BY <2>1, <2>2 DEF Throws, Goes
      <3>2. clean => /\ CleanRun /\ (Feasible(Current) => Current \in chain)
                     /\ quiet => QuietRun /\ mempool = <<>>
        BY <1>2, <2>1, <2>2 DEF CleanRun, QuietRun
      <3>3. clean => CleanRun' /\ (quiet => QuietRun')
        BY <1>t, <2>1, <3>1, <3>2, CleanGoes
      <3> QED
        BY <1>7, <2>1, <3>1, <3>3
    <2>3. CASE ~Swallows(Current)
      <3>1. exit' = "failed" /\ ~running'
        BY <2>1, <2>3, EndsEffect DEF Throws
      <3>2. ~(clean /\ quiet)
        BY <1>2, <2>1, <2>3 DEF QuietRun
      <3> QED
        BY <1>2, <1>3, <2>1, <3>1, <3>2
    <2> QED
      BY <2>2, <2>3
  <1>14. CASE WaitsInVain
    <2>1. /\ UNCHANGED <<chain, state, mempool, clean, quiet>> /\ running /\ answer = "pending"
          /\ \A i \in DOMAIN mempool : ~mempool[i].awaited
      BY <1>14 DEF WaitsInVain, chainVars, historyVars
    <2>2. ASSUME clean
          PROVE  FALSE
      <3>1. mempool # <<>> /\ mempool[Len(mempool)].awaited
        BY <1>2, <2>1, <2>2 DEF CleanRun
      <3>2. mempool \in Seq([call : Calls, awaited : BOOLEAN])
        BY <1>t DEF TypeInv
      <3>3. Len(mempool) \in DOMAIN mempool
        BY <3>1, <3>2
      <3> QED
        BY <2>1, <3>1, <3>3
    <2> QED
      BY <1>2, <1>3, <2>1, <2>2
  <1>15. CASE Finish
    <2>1. UNCHANGED <<chain, state, mempool, clean, quiet, script, env>> /\ running /\ ~running'
      BY <1>15 DEF Finish, Ends, chainVars, historyVars
    <2>2. clean => exit' = "complete" /\ Configured
      BY <1>t, <1>1, <1>2, <1>15, <2>1, CleanFinish
    <2>3. Configured => Configured'
      BY <2>1, ConfiguredKept
    <2> QED
      BY <1>2, <1>3, <2>1, <2>2, <2>3
  <1>16. CASE ReadFails
    <2>1. CASE Current[1] = "unseat"
      BY <1>2, <1>3, <1>6, <1>16, <2>1 DEF ReadFails, chainVars
    <2>2. CASE Current[1] # "unseat"
      <3>1. MoreToDo /\ Broadcasts /\ Fault
        BY <1>16, <2>2 DEF ReadFails
      <3>2. UNCHANGED <<chain, state>>
        BY <3>1 DEF Broadcasts, chainVars
      <3> QED
        BY <1>5, <1>6, <3>1, <3>2
    <2> QED
      BY <2>1, <2>2
  <1>17. CASE BroadcastFails
    BY <1>2, <1>3, <1>6, <1>17 DEF BroadcastFails, chainVars
  <1>18. CASE GivesUp
    BY <1>4, <1>6, <1>18 DEF GivesUp, chainVars
  <1>19. CASE Crash
    BY <1>4, <1>6, <1>19 DEF Crash, chainVars
  <1>20. CASE Drop
    <2>1. PICK i \in DOMAIN mempool : mempool' = SubSeq(mempool, 1, i - 1)
      BY <1>20 DEF Drop
    <2>2. \A j \in DOMAIN mempool' : j \in DOMAIN mempool /\ mempool'[j] = mempool[j]
      BY <1>t, <2>1, MempoolTypes
    <2>3. \A j \in DOMAIN mempool' : mempool'[j].call \in DeployCalls(env)'
      BY <1>2, <1>3, <2>2
    <2> QED
      BY <1>6, <1>20, <2>3 DEF Drop, chainVars
  <1>21. CASE Mine
    <2>1. /\ 1 \in DOMAIN mempool /\ mempool' = Tail(mempool)
          /\ \A i \in DOMAIN mempool' : i + 1 \in DOMAIN mempool /\ mempool'[i] = mempool[i + 1]
      BY <1>t, <1>21, MinedCall DEF Mine
    <2>2. mempool[1].call \in DeployCalls(env)
      BY <1>2, <2>1
    <2>3. mempool[1].call[1] \notin DOMAIN Transition \cup {"unseat", "versions"}
      BY <2>2, DeployCallsAre
    <2>4. chain \subseteq chain' /\ chain' \subseteq chain \cup {mempool[1].call} /\ state' = state
      BY <1>t, <1>21, <2>3, MinedEffect
    <2>5. UNCHANGED <<script, env, running, exit, clean, quiet>>
      BY <1>21 DEF Mine, historyVars
    <2>6. clean /\ running => CleanRun' /\ (quiet => QuietRun')
      BY <1>t, <1>1, <1>2, <1>21, <2>4, CleanMine
    <2>7. clean /\ ~running => (exit = "complete" => Configured')
      BY <1>2, <2>4, <2>5, ConfiguredKept
    <2>8. \A i \in DOMAIN mempool' : mempool'[i].call \in DeployCalls(env)'
      BY <1>2, <1>3, <2>1
    <2>9. chain' \subseteq DeployCalls(env)' /\ state' = "ACTIVE"
      BY <1>2, <1>3, <2>2, <2>4
    <2> QED
      BY <1>2, <2>5, <2>6, <2>7, <2>8, <2>9
  <1>22. CASE Reopen
    BY <1>2, <1>22 DEF Reopen
  <1> QED
    BY <1>1, <1>8, <1>9, <1>10, <1>11, <1>r, <1>12, <1>13, <1>14, <1>15, <1>16, <1>17, <1>18, <1>19,
       <1>20, <1>21, <1>22 DEF Next, ScriptStep

(***************************************************************************)
(* Before the first deployment passes, the chain and the mempool hold only *)
(* calls of deploy-fresh under its one environment, and a run that has met *)
(* no fault has in force every call before the one it is at, except for a  *)
(* treasury and a placeholder root, which no call can set; what it waits   *)
(* for is the account's last transaction, and its only one if nothing was  *)
(* pending when it began.                                                  *)
(***************************************************************************)
THEOREM DeployInvariant == Spec => []DeployInv
  <1>1. Init => DeployInv
    <2> SUFFICES ASSUME Init
                 PROVE  DeployInv
      OBVIOUS
    <2>1. TypeInv /\ Waiting
      BY RelayerInit DEF RelayerInv
    <2>2. state = "ACTIVE" /\ chain = {} /\ DOMAIN mempool = {} /\ clean = FALSE
      BY DEF Init
    <2>3. FreshDeployment
      BY <2>2 DEF FreshDeployment
    <2> QED
      BY <2>1, <2>3 DEF DeployInv
  <1>2. DeployInv /\ [Next]_vars => DeployInv'
    <2> SUFFICES ASSUME DeployInv, [Next]_vars
                 PROVE  DeployInv'
      OBVIOUS
    <2>1. TypeInv' /\ Waiting'
      BY TypeStep, WaitingStep DEF DeployInv
    <2>2. FreshDeployment'
      BY FreshStep
    <2> QED
      BY <2>1, <2>2 DEF DeployInv
  <1> QED
    BY <1>1, <1>2, PTL DEF Spec

(***************************************************************************)
(* Every step of deploy-fresh is idempotent: whatever earlier runs left on *)
(* chain or pending, under whatever GENESIS_ROOT and with or without a     *)
(* TREASURY_ADDRESS, a run that meets no fault and passes leaves in force  *)
(* every call of its plan but the treasury and an all-zero genesis root;   *)
(* and it passes if nothing was pending when it began.                     *)
(***************************************************************************)
THEOREM CleanRunsConfigure == Spec => []CleanRunConfigures
  <1>1. DeployInv => CleanRunConfigures
    BY DEF DeployInv, FreshDeployment, CleanRunConfigures
  <1> QED
    BY <1>1, DeployInvariant, PTL

-----------------------------------------------------------------------------
(***************************************************************************)
(* The plans of the drivers.                                               *)
(***************************************************************************)
PlanNotes == Nat \X Nat
Fns == {"shield", "transfer", "split", "merge", "withdraw"}
Steps == [fn : Fns, ins : Seq(PlanNotes), outs : Seq(PlanNotes),
          proof : Nat, forged : BOOLEAN, refusal : BOOLEAN]

\* What a genuine call consumes is worth what it creates, a shield and a withdrawal
\* apart; the worth of a note is its component j.
Shape(fn, ins, outs, j) ==
  \/ fn = "shield" /\ Len(ins) = 0 /\ Len(outs) = 1
  \/ fn = "transfer" /\ Len(ins) = 1 /\ Len(outs) = 1 /\ ins[1][j] = outs[1][j]
  \/ /\ fn = "split" /\ Len(ins) = 1 /\ Len(outs) = 2 /\ outs[1] # outs[2]
     /\ ins[1][j] = outs[1][j] + outs[2][j]
  \/ /\ fn = "merge" /\ Len(ins) = 2 /\ Len(outs) = 1 /\ ins[1] # ins[2]
     /\ outs[1][j] = ins[1][j] + ins[2][j]
  \/ fn = "withdraw" /\ Len(ins) = 1 /\ Len(outs) = 0

SoundStep(s) ==
  /\ s \in Steps
  /\ s.forged => s.refusal
  /\ s.fn = "shield" => ~s.refusal /\ s.proof = 0
  /\ ~s.forged => Shape(s.fn, s.ins, s.outs, 2)

PlainStep(s, fn) == SoundStep(s) /\ s.fn = fn /\ ~s.refusal

LEMMA PlainSteps ==
  ASSUME NEW a \in PlanNotes, NEW b \in PlanNotes, NEW c \in PlanNotes
  PROVE  /\ PlainStep(Shield(a), "shield")
         /\ PlainStep(Withdraw(a), "withdraw")
         /\ a[2] = b[2] => PlainStep(Transfer(a, b), "transfer")
         /\ a[2] = b[2] + c[2] /\ b # c => PlainStep(Split(a, b, c), "split")
         /\ a[2] + b[2] = c[2] /\ a # b => PlainStep(Merge(a, b, c), "merge")
         /\ SoundStep(Forged(Split(a, b, c))) /\ Forged(Split(a, b, c)).fn = "split"
<1>1. <<>> \in Seq(PlanNotes) /\ <<a>> \in Seq(PlanNotes) /\ <<b>> \in Seq(PlanNotes)
      /\ <<c>> \in Seq(PlanNotes) /\ <<a, b>> \in Seq(PlanNotes) /\ <<b, c>> \in Seq(PlanNotes)
  OBVIOUS
<1>2. ASSUME NEW fn \in Fns, NEW ins \in Seq(PlanNotes), NEW outs \in Seq(PlanNotes),
             Shape(fn, ins, outs, 2)
      PROVE  PlainStep(Operation(fn, ins, outs), fn)
  <2> DEFINE s == Operation(fn, ins, outs)
  <2>1. /\ s \in Steps /\ s.fn = fn /\ s.ins = ins /\ s.outs = outs
        /\ s.proof = 0 /\ s.forged = FALSE /\ s.refusal = FALSE
    BY DEF Operation, Steps
  <2> HIDE DEF s
  <2>2. PlainStep(s, fn)
    BY <1>2, <2>1 DEF PlainStep, SoundStep
  <2> QED
    BY <2>2 DEF s
<1>3. PlainStep(Shield(a), "shield")
  <2>1. Shape("shield", <<>>, <<a>>, 2)
    BY DEF Shape
  <2> QED
    BY <1>1, <1>2, <2>1 DEF Shield, Fns
<1>4. PlainStep(Withdraw(a), "withdraw")
  <2>1. Shape("withdraw", <<a>>, <<>>, 2)
    BY DEF Shape
  <2> QED
    BY <1>1, <1>2, <2>1 DEF Withdraw, Fns
<1>5. ASSUME a[2] = b[2] PROVE PlainStep(Transfer(a, b), "transfer")
  <2>1. Shape("transfer", <<a>>, <<b>>, 2)
    BY <1>5 DEF Shape
  <2> QED
    BY <1>1, <1>2, <2>1 DEF Transfer, Fns
<1>6. ASSUME a[2] = b[2] + c[2], b # c PROVE PlainStep(Split(a, b, c), "split")
  <2>1. Shape("split", <<a>>, <<b, c>>, 2)
    BY <1>6 DEF Shape
  <2> QED
    BY <1>1, <1>2, <2>1 DEF Split, Fns
<1>7. ASSUME a[2] + b[2] = c[2], a # b PROVE PlainStep(Merge(a, b, c), "merge")
  <2>1. Shape("merge", <<a, b>>, <<c>>, 2)
    BY <1>7 DEF Shape
  <2> QED
    BY <1>1, <1>2, <2>1 DEF Merge, Fns
<1>8. SoundStep(Forged(Split(a, b, c))) /\ Forged(Split(a, b, c)).fn = "split"
  <2> DEFINE s == Split(a, b, c)
             t == [s EXCEPT !.forged = TRUE]
  <2>1. s \in Steps /\ s.fn = "split"
    BY <1>1 DEF Split, Operation, Steps, Fns
  <2> HIDE DEF s
  <2>2. t \in Steps /\ t.fn = "split" /\ t.forged = TRUE
    BY <2>1 DEF Steps
  <2> HIDE DEF t
  <2>3. LET u == MustFail(t) IN u \in Steps /\ u.fn = "split" /\ u.forged = TRUE /\ u.refusal = TRUE
    BY <2>2 DEF MustFail, Steps
  <2>4. Forged(s) = MustFail(t)
    BY DEF Forged, t
  <2> QED
    BY <2>3, <2>4 DEF SoundStep, s
<1> QED
  BY <1>3, <1>4, <1>5, <1>6, <1>7, <1>8

\* The steps that use an earlier proof, and those that must fail.
LEMMA MarkedSteps ==
  ASSUME NEW s, SoundStep(s), s.fn # "shield", NEW k \in Nat
  PROVE  /\ SoundStep(WithProofOf(k, s)) /\ WithProofOf(k, s).fn = s.fn
         /\ WithProofOf(k, s).refusal = s.refusal
         /\ SoundStep(MustFail(s)) /\ MustFail(s).fn = s.fn
         /\ SoundStep(Forged(s)) /\ Forged(s).fn = s.fn
<1>1. s \in Steps
  BY DEF SoundStep
<1>2. LET t == WithProofOf(k, s) IN
      /\ t \in Steps /\ t.fn = s.fn /\ t.ins = s.ins /\ t.outs = s.outs
      /\ t.forged = s.forged /\ t.refusal = s.refusal
  BY <1>1 DEF WithProofOf, Steps
<1>3. LET t == MustFail(s) IN
      /\ t \in Steps /\ t.fn = s.fn /\ t.ins = s.ins /\ t.outs = s.outs
      /\ t.forged = s.forged /\ t.refusal = TRUE
  BY <1>1 DEF MustFail, Steps
<1>4. LET t == Forged(s) IN
      /\ t \in Steps /\ t.fn = s.fn /\ t.forged = TRUE /\ t.refusal = TRUE
  <2> DEFINE u == [s EXCEPT !.forged = TRUE]
  <2>1. u \in Steps /\ u.fn = s.fn /\ u.forged = TRUE
    BY <1>1 DEF Steps
  <2> HIDE DEF u
  <2>2. LET t == MustFail(u) IN
        t \in Steps /\ t.fn = s.fn /\ t.forged = TRUE /\ t.refusal = TRUE
    BY <2>1 DEF MustFail, Steps
  <2> QED
    BY <2>2 DEF Forged, u
<1>5. SoundStep(WithProofOf(k, s)) /\ SoundStep(MustFail(s))
  BY <1>2, <1>3 DEF SoundStep
<1>6. SoundStep(Forged(s))
  BY <1>4 DEF SoundStep
<1> QED
  BY <1>2, <1>3, <1>4, <1>5, <1>6

\* A plan opens with a shield unless it is e2e-withdraw's.
IsPlan(plan) == plan \in Seq(Steps) /\ \A k \in 1..Len(plan) : SoundStep(plan[k])
Opens(plan) == Len(plan) >= 1 /\ plan[1].fn = "shield"
NeverFails(plan) == \A k \in 1..Len(plan) : ~plan[k].refusal

LEMMA PlansJoined ==
  ASSUME NEW p, IsPlan(p), NEW q, IsPlan(q)
  PROVE  IsPlan(p \o q) /\ (Opens(p) => Opens(p \o q))
<1>1. p \o q \in Seq(Steps) /\ Len(p \o q) = Len(p) + Len(q)
      /\ \A k \in 1..Len(p \o q) : (p \o q)[k] = IF k <= Len(p) THEN p[k] ELSE q[k - Len(p)]
  BY DEF IsPlan
<1>2. Len(p) \in Nat /\ Len(q) \in Nat
  BY DEF IsPlan
<1>3. ASSUME NEW k \in 1..Len(p \o q) PROVE SoundStep((p \o q)[k])
  <2>1. CASE k <= Len(p)
    BY <1>1, <1>2, <2>1 DEF IsPlan
  <2>2. CASE k > Len(p)
    <3>1. k - Len(p) \in 1..Len(q) /\ (p \o q)[k] = q[k - Len(p)]
      BY <1>1, <1>2, <2>2
    <3> QED
      BY <3>1 DEF IsPlan
  <2> QED
    BY <2>1, <2>2, <1>2
<1>4. ASSUME Opens(p) PROVE Opens(p \o q)
  <2>1. 1 \in 1..Len(p \o q) /\ 1 <= Len(p)
    BY <1>1, <1>2, <1>4 DEF Opens
  <2>2. (p \o q)[1] = p[1]
    BY <1>1, <2>1
  <2> QED
    BY <2>1, <2>2, <1>4, <1>1, <1>2 DEF Opens
<1> QED
  BY <1>1, <1>3, <1>4 DEF IsPlan

\* A plan written step by step.
LEMMA Listed1 ==
  ASSUME NEW s1,
         SoundStep(s1)
  PROVE  IsPlan(<<s1>>)
<1>1. <<s1>> \in Seq(Steps) /\ Len(<<s1>>) = 1
  BY DEF SoundStep
<1>2. ASSUME NEW k \in 1..1 PROVE SoundStep(<<s1>>[k])
  <2>1. k = 1
    OBVIOUS
  <2> QED
    BY <2>1
<1> QED
  BY <1>1, <1>2 DEF IsPlan

LEMMA Listed2 ==
  ASSUME NEW s1, NEW s2,
         SoundStep(s1), SoundStep(s2)
  PROVE  IsPlan(<<s1, s2>>)
<1>1. <<s1, s2>> \in Seq(Steps) /\ Len(<<s1, s2>>) = 2
  BY DEF SoundStep
<1>2. ASSUME NEW k \in 1..2 PROVE SoundStep(<<s1, s2>>[k])
  <2>1. k = 1 \/ k = 2
    OBVIOUS
  <2> QED
    BY <2>1
<1> QED
  BY <1>1, <1>2 DEF IsPlan

LEMMA Listed3 ==
  ASSUME NEW s1, NEW s2, NEW s3,
         SoundStep(s1), SoundStep(s2), SoundStep(s3)
  PROVE  IsPlan(<<s1, s2, s3>>)
<1>1. <<s1, s2, s3>> \in Seq(Steps) /\ Len(<<s1, s2, s3>>) = 3
  BY DEF SoundStep
<1>2. ASSUME NEW k \in 1..3 PROVE SoundStep(<<s1, s2, s3>>[k])
  <2>1. k = 1 \/ k = 2 \/ k = 3
    OBVIOUS
  <2> QED
    BY <2>1
<1> QED
  BY <1>1, <1>2 DEF IsPlan

LEMMA Listed4 ==
  ASSUME NEW s1, NEW s2, NEW s3, NEW s4,
         SoundStep(s1), SoundStep(s2), SoundStep(s3), SoundStep(s4)
  PROVE  IsPlan(<<s1, s2, s3, s4>>)
<1>1. <<s1, s2, s3, s4>> \in Seq(Steps) /\ Len(<<s1, s2, s3, s4>>) = 4
  BY DEF SoundStep
<1>2. ASSUME NEW k \in 1..4 PROVE SoundStep(<<s1, s2, s3, s4>>[k])
  <2>1. k = 1 \/ k = 2 \/ k = 3 \/ k = 4
    OBVIOUS
  <2> QED
    BY <2>1
<1> QED
  BY <1>1, <1>2 DEF IsPlan

LEMMA Listed6 ==
  ASSUME NEW s1, NEW s2, NEW s3, NEW s4, NEW s5, NEW s6,
         SoundStep(s1), SoundStep(s2), SoundStep(s3), SoundStep(s4), SoundStep(s5), SoundStep(s6)
  PROVE  IsPlan(<<s1, s2, s3, s4, s5, s6>>)
<1>1. <<s1, s2, s3, s4, s5, s6>> \in Seq(Steps) /\ Len(<<s1, s2, s3, s4, s5, s6>>) = 6
  BY DEF SoundStep
<1>2. ASSUME NEW k \in 1..6 PROVE SoundStep(<<s1, s2, s3, s4, s5, s6>>[k])
  <2>1. k = 1 \/ k = 2 \/ k = 3 \/ k = 4 \/ k = 5 \/ k = 6
    OBVIOUS
  <2> QED
    BY <2>1
<1> QED
  BY <1>1, <1>2 DEF IsPlan

LEMMA Listed7 ==
  ASSUME NEW s1, NEW s2, NEW s3, NEW s4, NEW s5, NEW s6, NEW s7,
         SoundStep(s1), SoundStep(s2), SoundStep(s3), SoundStep(s4), SoundStep(s5), SoundStep(s6), SoundStep(s7)
  PROVE  IsPlan(<<s1, s2, s3, s4, s5, s6, s7>>)
<1>1. <<s1, s2, s3, s4, s5, s6, s7>> \in Seq(Steps) /\ Len(<<s1, s2, s3, s4, s5, s6, s7>>) = 7
  BY DEF SoundStep
<1>2. ASSUME NEW k \in 1..7 PROVE SoundStep(<<s1, s2, s3, s4, s5, s6, s7>>[k])
  <2>1. k = 1 \/ k = 2 \/ k = 3 \/ k = 4 \/ k = 5 \/ k = 6 \/ k = 7
    OBVIOUS
  <2> QED
    BY <2>1
<1> QED
  BY <1>1, <1>2 DEF IsPlan

LEMMA Listed11 ==
  ASSUME NEW s1, NEW s2, NEW s3, NEW s4, NEW s5, NEW s6, NEW s7, NEW s8, NEW s9, NEW s10, NEW s11,
         SoundStep(s1), SoundStep(s2), SoundStep(s3), SoundStep(s4), SoundStep(s5), SoundStep(s6), SoundStep(s7), SoundStep(s8), SoundStep(s9), SoundStep(s10), SoundStep(s11)
  PROVE  IsPlan(<<s1, s2, s3, s4, s5, s6, s7, s8, s9, s10, s11>>)
<1>1. <<s1, s2, s3, s4, s5, s6, s7, s8, s9, s10, s11>> \in Seq(Steps) /\ Len(<<s1, s2, s3, s4, s5, s6, s7, s8, s9, s10, s11>>) = 11
  BY DEF SoundStep
<1>2. ASSUME NEW k \in 1..11 PROVE SoundStep(<<s1, s2, s3, s4, s5, s6, s7, s8, s9, s10, s11>>[k])
  <2>1. k = 1 \/ k = 2 \/ k = 3 \/ k = 4 \/ k = 5 \/ k = 6 \/ k = 7 \/ k = 8 \/ k = 9 \/ k = 10 \/ k = 11
    OBVIOUS
  <2> QED
    BY <2>1
<1> QED
  BY <1>1, <1>2 DEF IsPlan

LEMMA Numbers == \A a \in Nat, b \in Nat : <<a, b>> \in PlanNotes
BY DEF PlanNotes

LEMMA MergePlanSound == IsPlan(MergePlan) /\ Opens(MergePlan)
<1> DEFINE s1 == Shield(<<5, 10>>)
           s2 == Split(<<5, 10>>, <<6, 3>>, <<7, 7>>)
           s3 == Merge(<<6, 3>>, <<7, 7>>, <<8, 10>>)
           w == Withdraw(<<8, 10>>)
<1>1. /\ PlainStep(s1, "shield") /\ PlainStep(s2, "split")
      /\ PlainStep(s3, "merge") /\ PlainStep(w, "withdraw")
  BY Numbers, PlainSteps
<1>2. MergePlan = <<s1, s2, s3, Forged(w), WithProofOf(4, w),
                    MustFail(WithProofOf(3, s3)), MustFail(WithProofOf(4, w))>>
  BY DEF MergePlan
<1> HIDE DEF s1, s2, s3, w
<1>3. /\ SoundStep(s1) /\ s1.fn = "shield" /\ SoundStep(s2) /\ SoundStep(s3) /\ s3.fn = "merge"
      /\ SoundStep(w) /\ w.fn = "withdraw"
  BY <1>1 DEF PlainStep
<1>4. /\ SoundStep(Forged(w))
      /\ SoundStep(WithProofOf(3, s3)) /\ WithProofOf(3, s3).fn = "merge"
      /\ SoundStep(WithProofOf(4, w)) /\ WithProofOf(4, w).fn = "withdraw"
  BY <1>3, MarkedSteps
<1>5. SoundStep(MustFail(WithProofOf(3, s3))) /\ SoundStep(MustFail(WithProofOf(4, w)))
  BY <1>4, MarkedSteps
<1>6. IsPlan(MergePlan)
  BY <1>2, <1>3, <1>4, <1>5, Listed7
<1>7. Opens(MergePlan)
  BY <1>2, <1>3 DEF Opens
<1> QED
  BY <1>6, <1>7

LEMMA SplitMergePlanSound == IsPlan(SplitMergePlan) /\ Opens(SplitMergePlan)
<1>1. IsPlan(SplitTest) /\ Opens(SplitTest)
  <2> DEFINE s1 == Shield(<<0, 50>>)
             s2 == Transfer(<<0, 50>>, <<1, 50>>)
             s3 == Split(<<1, 50>>, <<2, 20>>, <<3, 30>>)
             s4 == Split(<<3, 30>>, <<4, 20>>, <<5, 10>>)
  <2>1. /\ PlainStep(s1, "shield") /\ PlainStep(s2, "transfer")
        /\ PlainStep(s3, "split") /\ PlainStep(s4, "split")
    <3>1. PlainStep(s1, "shield") /\ PlainStep(s2, "transfer")
      BY Numbers, PlainSteps
    <3>2. PlainStep(s3, "split")
      BY Numbers, PlainSteps
    <3>3. PlainStep(s4, "split")
      BY Numbers, PlainSteps
    <3> HIDE DEF s1, s2, s3, s4
    <3> QED
      BY <3>1, <3>2, <3>3
  <2>2. SplitTest = <<s1, s2, s3, s4>>
    BY DEF SplitTest
  <2> HIDE DEF s1, s2, s3, s4
  <2> QED
    BY <2>1, <2>2, Listed4 DEF PlainStep, Opens
<1>2. IsPlan(SplitWithdrawTest)
  <2> DEFINE s1 == Withdraw(<<2, 20>>)
             s2 == Withdraw(<<4, 20>>)
             s3 == Withdraw(<<5, 10>>)
  <2>1. PlainStep(s1, "withdraw") /\ PlainStep(s2, "withdraw") /\ PlainStep(s3, "withdraw")
    BY Numbers, PlainSteps
  <2>2. SplitWithdrawTest = <<s1, s2, s3>>
    BY DEF SplitWithdrawTest
  <2> HIDE DEF s1, s2, s3
  <2> QED
    BY <2>1, <2>2, Listed3 DEF PlainStep
<1>3. IsPlan(MergeTest)
  <2> DEFINE s1 == Shield(<<6, 3>>)
             s2 == Shield(<<7, 7>>)
             s3 == Merge(<<6, 3>>, <<7, 7>>, <<8, 10>>)
  <2>1. PlainStep(s1, "shield") /\ PlainStep(s2, "shield") /\ PlainStep(s3, "merge")
    BY Numbers, PlainSteps
  <2>2. MergeTest = <<s1, s2, s3>>
    BY DEF MergeTest
  <2> HIDE DEF s1, s2, s3
  <2> QED
    BY <2>1, <2>2, Listed3 DEF PlainStep
<1>4. IsPlan(MergeWithdrawTest)
  <2> DEFINE w == Withdraw(<<8, 10>>)
  <2>1. SoundStep(w) /\ w.fn = "withdraw"
    BY Numbers, PlainSteps DEF PlainStep
  <2>2. MergeWithdrawTest = <<Forged(w), WithProofOf(11, w)>>
    BY DEF MergeWithdrawTest
  <2> HIDE DEF w
  <2>3. SoundStep(Forged(w)) /\ SoundStep(WithProofOf(11, w))
    BY <2>1, MarkedSteps
  <2> QED
    BY <2>2, <2>3, Listed2
<1>5. IsPlan(AttackTest)
  <2> DEFINE w == Withdraw(<<2, 20>>)
             m == Merge(<<6, 3>>, <<7, 7>>, <<8, 10>>)
             v == Withdraw(<<99, 10>>)
             f == Forged(Split(<<88, 40>>, <<2, 20>>, <<2, 20>>))
  <2>1. /\ SoundStep(w) /\ w.fn = "withdraw" /\ SoundStep(m) /\ m.fn = "merge"
        /\ SoundStep(v) /\ v.fn = "withdraw" /\ SoundStep(f) /\ f.fn = "split"
    <3>1. PlainStep(w, "withdraw") /\ PlainStep(v, "withdraw")
      BY Numbers, PlainSteps
    <3>2. PlainStep(m, "merge")
      BY Numbers, PlainSteps
    <3>3. SoundStep(f) /\ f.fn = "split"
      BY Numbers, PlainSteps
    <3> HIDE DEF w, v, m, f
    <3> QED
      BY <3>1, <3>2, <3>3 DEF PlainStep
  <2>2. AttackTest = <<MustFail(WithProofOf(5, w)), MustFail(WithProofOf(10, m)),
                       WithProofOf(5, Forged(v)), WithProofOf(11, f)>>
    BY DEF AttackTest
  <2> HIDE DEF w, m, v, f
  <2>3. /\ SoundStep(WithProofOf(5, w)) /\ WithProofOf(5, w).fn = "withdraw"
        /\ SoundStep(WithProofOf(10, m)) /\ WithProofOf(10, m).fn = "merge"
        /\ SoundStep(Forged(v)) /\ Forged(v).fn = "withdraw"
        /\ SoundStep(WithProofOf(11, f))
    BY <2>1, MarkedSteps
  <2>4. /\ SoundStep(MustFail(WithProofOf(5, w))) /\ SoundStep(MustFail(WithProofOf(10, m)))
        /\ SoundStep(WithProofOf(5, Forged(v)))
    BY <2>3, MarkedSteps
  <2> QED
    BY <2>2, <2>3, <2>4, Listed4
<1>6. IsPlan(SplitTest \o SplitWithdrawTest) /\ Opens(SplitTest \o SplitWithdrawTest)
  BY <1>1, <1>2, PlansJoined
<1>7. /\ IsPlan(SplitTest \o SplitWithdrawTest \o MergeTest)
      /\ Opens(SplitTest \o SplitWithdrawTest \o MergeTest)
  BY <1>3, <1>6, PlansJoined
<1>8. /\ IsPlan(SplitTest \o SplitWithdrawTest \o MergeTest \o MergeWithdrawTest)
      /\ Opens(SplitTest \o SplitWithdrawTest \o MergeTest \o MergeWithdrawTest)
  BY <1>4, <1>7, PlansJoined
<1> QED
  BY <1>5, <1>8, PlansJoined DEF SplitMergePlan

LEMMA ApiPlanSound == IsPlan(ApiPlan) /\ Opens(ApiPlan)
<1>1. IsPlan(ApiTest1) /\ Opens(ApiTest1)
  <2> DEFINE s1 == Shield(<<0, 1000>>)
             s2 == Transfer(<<0, 1000>>, <<1, 1000>>)
             s3 == Split(<<1, 1000>>, <<2, 400>>, <<3, 600>>)
             s4 == Split(<<3, 600>>, <<4, 350>>, <<5, 250>>)
             s5 == Withdraw(<<2, 400>>)
             s6 == Withdraw(<<4, 350>>)
             s7 == Withdraw(<<5, 250>>)
  <2>1. /\ PlainStep(s1, "shield") /\ PlainStep(s2, "transfer")
        /\ PlainStep(s3, "split") /\ PlainStep(s4, "split")
        /\ PlainStep(s5, "withdraw") /\ PlainStep(s6, "withdraw") /\ PlainStep(s7, "withdraw")
    BY Numbers, PlainSteps
  <2>2. ApiTest1 = <<s1, s2, s3, s4, s5, s6, s7>>
    BY DEF ApiTest1
  <2> HIDE DEF s1, s2, s3, s4, s5, s6, s7
  <2> QED
    BY <2>1, <2>2, Listed7 DEF PlainStep, Opens
<1>2. IsPlan(ApiTest2)
  <2> DEFINE s1 == Shield(<<6, 1000>>)
             s2 == Transfer(<<6, 1000>>, <<7, 1000>>)
             s3 == Split(<<7, 1000>>, <<8, 500>>, <<9, 500>>)
             s4 == Transfer(<<9, 500>>, <<10, 500>>)
             s5 == Split(<<10, 500>>, <<11, 250>>, <<12, 250>>)
             s6 == Withdraw(<<11, 250>>)
             s7 == Withdraw(<<12, 250>>)
             s9 == Split(<<8, 500>>, <<13, 250>>, <<14, 250>>)
             s10 == Merge(<<13, 250>>, <<14, 250>>, <<15, 500>>)
             s11 == Withdraw(<<15, 500>>)
  <2>1. PlainStep(s1, "shield") /\ PlainStep(s2, "transfer") /\ PlainStep(s4, "transfer")
    <3>1. PlainStep(s1, "shield")
      BY Numbers, PlainSteps
    <3>2. PlainStep(s2, "transfer")
      BY Numbers, PlainSteps
    <3>3. PlainStep(s4, "transfer")
      BY Numbers, PlainSteps
    <3> QED
      BY <3>1, <3>2, <3>3
  <2>6. PlainStep(s3, "split") /\ PlainStep(s5, "split")
    BY Numbers, PlainSteps
  <2>2. /\ PlainStep(s6, "withdraw") /\ PlainStep(s7, "withdraw") /\ PlainStep(s9, "split")
        /\ PlainStep(s10, "merge") /\ PlainStep(s11, "withdraw")
    <3>1. PlainStep(s6, "withdraw") /\ PlainStep(s7, "withdraw") /\ PlainStep(s11, "withdraw")
      BY Numbers, PlainSteps
    <3>2. PlainStep(s9, "split")
      BY Numbers, PlainSteps
    <3>3. PlainStep(s10, "merge")
      BY Numbers, PlainSteps
    <3> QED
      BY <3>1, <3>2, <3>3
  <2>3. ApiTest2 = <<s1, s2, s3, s4, s5, s6, s7, MustFail(WithProofOf(13, s6)), s9, s10, s11>>
    BY DEF ApiTest2
  <2> HIDE DEF s1, s2, s3, s4, s5, s6, s7, s9, s10, s11
  <2>4. SoundStep(WithProofOf(13, s6)) /\ WithProofOf(13, s6).fn = "withdraw"
    BY <2>2, MarkedSteps DEF PlainStep
  <2>5. SoundStep(MustFail(WithProofOf(13, s6)))
    BY <2>4, MarkedSteps
  <2> QED
    BY <2>1, <2>2, <2>3, <2>5, <2>6, Listed11 DEF PlainStep
<1> QED
  BY <1>1, <1>2, PlansJoined DEF ApiPlan

LEMMA LifecyclePlanSound == IsPlan(LifecyclePlan) /\ Opens(LifecyclePlan)
<1> DEFINE s1 == Shield(<<0, 10>>)
           s2 == Transfer(<<0, 10>>, <<10, 10>>)
           s3 == Split(<<10, 10>>, <<20, 4>>, <<21, 6>>)
           s4 == Merge(<<20, 4>>, <<21, 6>>, <<30, 10>>)
           s5 == Withdraw(<<30, 10>>)
<1>1. /\ PlainStep(s1, "shield") /\ PlainStep(s2, "transfer")
      /\ PlainStep(s3, "split") /\ PlainStep(s4, "merge") /\ PlainStep(s5, "withdraw")
  BY Numbers, PlainSteps
<1>2. LifecyclePlan = <<s1, s2, s3, s4, s5, MustFail(WithProofOf(5, s5))>>
  BY DEF LifecyclePlan
<1> HIDE DEF s1, s2, s3, s4, s5
<1>3. SoundStep(WithProofOf(5, s5)) /\ WithProofOf(5, s5).fn = "withdraw"
  BY <1>1, MarkedSteps DEF PlainStep
<1>4. SoundStep(MustFail(WithProofOf(5, s5)))
  BY <1>3, MarkedSteps
<1> QED
  BY <1>1, <1>2, <1>4, Listed6 DEF PlainStep, Opens

\* The plans in which nothing must fail.
LEMMA PlainOne ==
  ASSUME NEW s1, NEW f1, PlainStep(s1, f1)
  PROVE  IsPlan(<<s1>>) /\ NeverFails(<<s1>>) /\ Len(<<s1>>) = 1 /\ <<s1>>[1].fn = f1
BY Listed1 DEF PlainStep, NeverFails

LEMMA PlainTwo ==
  ASSUME NEW s1, NEW f1, PlainStep(s1, f1), NEW s2, NEW f2, PlainStep(s2, f2)
  PROVE  IsPlan(<<s1, s2>>) /\ NeverFails(<<s1, s2>>) /\ Len(<<s1, s2>>) = 2 /\ <<s1, s2>>[1].fn = f1
<1>1. ~s1.refusal /\ ~s2.refusal /\ s1.fn = f1
  BY DEF PlainStep
<1>2. ASSUME NEW k \in 1..2 PROVE ~<<s1, s2>>[k].refusal
  BY <1>1
<1> QED
  BY <1>1, <1>2, Listed2 DEF PlainStep, NeverFails

LEMMA PlainThree ==
  ASSUME NEW s1, NEW f1, PlainStep(s1, f1), NEW s2, NEW f2, PlainStep(s2, f2),
         NEW s3, NEW f3, PlainStep(s3, f3)
  PROVE  /\ IsPlan(<<s1, s2, s3>>) /\ NeverFails(<<s1, s2, s3>>)
         /\ Len(<<s1, s2, s3>>) = 3 /\ <<s1, s2, s3>>[1].fn = f1
<1>1. ~s1.refusal /\ ~s2.refusal /\ ~s3.refusal /\ s1.fn = f1
  BY DEF PlainStep
<1>2. ASSUME NEW k \in 1..3 PROVE ~<<s1, s2, s3>>[k].refusal
  BY <1>1
<1> QED
  BY <1>1, <1>2, Listed3 DEF PlainStep, NeverFails

\* The scripts that try what must be refused.
Replaying == {"merge", "split-merge", "api", "op-lifecycle"}

\* What the proofs need of a script's plan.
SoundPlan(kind, plan) ==
  /\ IsPlan(plan)
  /\ kind # "withdraw" => Opens(plan)
  /\ kind = "withdraw" => Len(plan) = 1 /\ plan[1].fn = "withdraw"
  /\ kind = "shield" => Len(plan) = 1
  /\ kind \notin Replaying => NeverFails(plan)

LEMMA PlansSound ==
  ASSUME NEW kind \in Scripts, NEW amount \in Nat
  PROVE  SoundPlan(kind, PlanOf(kind, amount))
<1>1. CASE kind = "shield"
  <2> DEFINE s == Shield(<<1, amount>>)
  <2>1. PlanOf(kind, amount) = <<s>>
    BY <1>1 DEF PlanOf, OpScripts, ShieldPlan
  <2>2. PlainStep(s, "shield")
    BY Numbers, PlainSteps
  <2> HIDE DEF s
  <2>3. /\ IsPlan(<<s>>) /\ NeverFails(<<s>>) /\ Len(<<s>>) = 1 /\ <<s>>[1].fn = "shield"
    BY <2>2, PlainOne
  <2> QED
    BY <1>1, <2>1, <2>3 DEF SoundPlan, Opens
<1>2. CASE kind = "transfer"
  <2> DEFINE s == Shield(<<1, amount>>)
             t == Transfer(<<1, amount>>, <<2, amount>>)
  <2>1. PlanOf(kind, amount) = <<s, t>>
    BY <1>2 DEF PlanOf, OpScripts, TransferPlan
  <2>2. PlainStep(s, "shield") /\ PlainStep(t, "transfer")
    BY Numbers, PlainSteps
  <2> HIDE DEF s, t
  <2>3. /\ IsPlan(<<s, t>>) /\ NeverFails(<<s, t>>)
        /\ Len(<<s, t>>) = 2 /\ <<s, t>>[1].fn = "shield"
    BY <2>2, PlainTwo
  <2> QED
    BY <1>2, <2>1, <2>3 DEF SoundPlan, Opens
<1>3. CASE kind = "withdraw"
  <2> DEFINE w == Withdraw(<<2, 10>>)
  <2>1. PlanOf(kind, amount) = <<w>>
    BY <1>3 DEF PlanOf, OpScripts, WithdrawPlan
  <2>2. PlainStep(w, "withdraw")
    BY Numbers, PlainSteps
  <2> HIDE DEF w
  <2>3. IsPlan(<<w>>) /\ NeverFails(<<w>>) /\ Len(<<w>>) = 1 /\ <<w>>[1].fn = "withdraw"
    BY <2>2, PlainOne
  <2> QED
    BY <1>3, <2>1, <2>3 DEF SoundPlan
<1>4. CASE kind = "merge"
  <2>1. PlanOf(kind, amount) = MergePlan
    BY <1>4 DEF PlanOf, OpScripts
  <2> QED
    BY <1>4, <2>1, MergePlanSound DEF SoundPlan, Replaying
<1>5. CASE kind = "split-merge"
  <2>1. PlanOf(kind, amount) = SplitMergePlan
    BY <1>5 DEF PlanOf, OpScripts
  <2> QED
    BY <1>5, <2>1, SplitMergePlanSound DEF SoundPlan, Replaying
<1>6. CASE kind = "api"
  <2>1. PlanOf(kind, amount) = ApiPlan
    BY <1>6 DEF PlanOf, OpScripts
  <2> QED
    BY <1>6, <2>1, ApiPlanSound DEF SoundPlan, Replaying
<1>7. CASE kind \in OpScripts
  <2>1. PlanOf(kind, amount) = OpPlan(kind)
    BY <1>7 DEF PlanOf, OpScripts
  <2> DEFINE s == Shield(<<0, 10>>)
             t == Transfer(<<0, 10>>, <<10, 10>>)
             p == Split(<<0, 10>>, <<10, 4>>, <<11, 6>>)
             a == Shield(<<0, 4>>)
             b == Shield(<<1, 6>>)
             m == Merge(<<0, 4>>, <<1, 6>>, <<10, 10>>)
             w == Withdraw(<<0, 10>>)
  <2>2. PlainStep(s, "shield") /\ PlainStep(t, "transfer") /\ PlainStep(p, "split")
    BY Numbers, PlainSteps
  <2>3. /\ PlainStep(a, "shield") /\ PlainStep(b, "shield") /\ PlainStep(m, "merge")
        /\ PlainStep(w, "withdraw")
    BY Numbers, PlainSteps
  <2>4. /\ kind = "op-shield" => OpPlan(kind) = <<s>>
        /\ kind = "op-transfer" => OpPlan(kind) = <<s, t>>
        /\ kind = "op-split" => OpPlan(kind) = <<s, p>>
        /\ kind = "op-merge" => OpPlan(kind) = <<a, b, m>>
        /\ kind = "op-withdraw" => OpPlan(kind) = <<s, w>>
        /\ kind = "op-lifecycle" => OpPlan(kind) = LifecyclePlan
    BY DEF OpPlan
  <2> HIDE DEF s, t, p, a, b, m, w
  <2>5. kind \notin {"shield", "withdraw"}
    BY <1>7 DEF OpScripts
  <2>6. ASSUME NEW plan, IsPlan(plan), NeverFails(plan), plan[1].fn = "shield", Len(plan) \in 1..3
        PROVE  SoundPlan(kind, plan)
    BY <2>5, <2>6 DEF SoundPlan, Opens
  <2>7. /\ IsPlan(<<s>>) /\ NeverFails(<<s>>) /\ Len(<<s>>) = 1 /\ <<s>>[1].fn = "shield"
    BY <2>2, PlainOne
  <2>8. ASSUME NEW z, NEW f, PlainStep(z, f)
        PROVE  /\ IsPlan(<<s, z>>) /\ NeverFails(<<s, z>>)
               /\ Len(<<s, z>>) = 2 /\ <<s, z>>[1].fn = "shield"
    BY <2>2, <2>8, PlainTwo
  <2>9. /\ IsPlan(<<a, b, m>>) /\ NeverFails(<<a, b, m>>)
        /\ Len(<<a, b, m>>) = 3 /\ <<a, b, m>>[1].fn = "shield"
    BY <2>3, PlainThree
  <2>10. CASE kind = "op-lifecycle"
    BY <2>1, <2>4, <2>10, LifecyclePlanSound DEF SoundPlan, Replaying
  <2>11. SoundPlan(kind, <<s>>) /\ SoundPlan(kind, <<a, b, m>>)
    BY <2>6, <2>7, <2>9
  <2>12. SoundPlan(kind, <<s, t>>) /\ SoundPlan(kind, <<s, p>>) /\ SoundPlan(kind, <<s, w>>)
    BY <2>2, <2>3, <2>6, <2>8
  <2> QED
    BY <1>7, <2>1, <2>4, <2>10, <2>11, <2>12 DEF OpScripts
<1> QED
  BY <1>1, <1>2, <1>3, <1>4, <1>5, <1>6, <1>7 DEF Scripts
-----------------------------------------------------------------------------
(***************************************************************************)
(* What notes are worth.                                                   *)
(***************************************************************************)
RegisteredNotes ==
  {"shield", "transfer", "merge", "api", "op", "client"} \X (Seeds \cup {0}) \X Nat \X Nat
ValueOf == [n \in RegisteredNotes |-> n[4]]

LEMMA WorthIs ==
  ASSUME NEW S, S \subseteq RegisteredNotes, IsFiniteSet(S)
  PROVE  Worth(S) = SumOf(ValueOf, S)
<1> DEFINE A(f) == f = [s \in SUBSET S |-> IF s = {} THEN 0 ELSE Pick(s)[4] + f[s \ {Pick(s)}]]
           g == CHOOSE f : A(f)
           h == CHOOSE f : Recurs(ValueOf, f, SUBSET S)
<1>1. Worth(S) = g[S]
  BY DEF Worth, MapThenSumSet, MapThenFoldSet, Pick
<1>2. SumOf(ValueOf, S) = h[S]
  BY SumIsFold
<1>3. ASSUME NEW s \in SUBSET S, s # {} PROVE ValueOf[Pick(s)] = Pick(s)[4]
  BY <1>3, PickIn DEF ValueOf
<1>4. ASSUME NEW f PROVE A(f) <=> Recurs(ValueOf, f, SUBSET S)
  BY <1>3 DEF Recurs
<1>5. PICK e : Recurs(ValueOf, e, SUBSET S)
  BY FoldExists
<1>6. Recurs(ValueOf, h, SUBSET S)
  BY <1>5
<1>7. A(e)
  BY <1>4, <1>5
<1>8. A(g)
  <2> HIDE DEF A
  <2> QED
    BY <1>7
<1>9. Recurs(ValueOf, g, SUBSET S)
  BY <1>4, <1>8
<1> HIDE DEF g, h
<1>10. g[S] = h[S]
  BY <1>6, <1>9, FoldUnique
<1> QED
  BY <1>1, <1>2, <1>10

LEMMA WorthChange ==
  ASSUME NEW S, S \subseteq RegisteredNotes, IsFiniteSet(S), NEW n \in RegisteredNotes
  PROVE  /\ Worth(S) \in Nat
         /\ n \in S => Worth(S \ {n}) = Worth(S) - n[4]
         /\ n \notin S => Worth(S \cup {n}) = Worth(S) + n[4]
<1>1. \A m \in RegisteredNotes : ValueOf[m] = m[4] /\ m[4] \in Nat
  BY DEF ValueOf, RegisteredNotes
<1>2. IsFiniteSet(S \ {n}) /\ IsFiniteSet(S \cup {n})
  BY FS_AddElement, FS_RemoveElement
<1>3. /\ Worth(S) = SumOf(ValueOf, S) /\ Worth(S \ {n}) = SumOf(ValueOf, S \ {n})
      /\ Worth(S \cup {n}) = SumOf(ValueOf, S \cup {n})
  BY <1>2, WorthIs
<1>4. SumOf(ValueOf, S) \in Nat /\ SumOf(ValueOf, S \ {n}) \in Nat
  BY <1>1, <1>2, SumType
<1>5. ASSUME n \in S PROVE SumOf(ValueOf, S) = n[4] + SumOf(ValueOf, S \ {n})
  BY <1>1, <1>5, SumRemove
<1>6. ASSUME n \notin S PROVE SumOf(ValueOf, S \cup {n}) = SumOf(ValueOf, S) + n[4]
  BY <1>1, <1>6, SumInsert
<1> QED
  BY <1>1, <1>3, <1>4, <1>5, <1>6

-----------------------------------------------------------------------------
(***************************************************************************)
(* The types.                                                              *)
(***************************************************************************)
RootSet == [merkle : BOOLEAN, leaves : Seq(RegisteredNotes)]
PoolCalls ==
  [fn : Fns, ins : Seq(RegisteredNotes), outs : Seq(RegisteredNotes), forged : BOOLEAN,
   asset : {"stx", "ft"}, proved : RootSet, current : RootSet, new : RootSet]
PostCall == [fn |-> "submit-aggregation"]
SeenTotals == [nullifiers : Nat, pool : Int, carol : Int]

RunStates ==
  [script : Scripts \cup {"none"}, seed : Seeds \cup {0}, amount : Nat,
   stage : {"ready", "waiting", "aggregated", "posting", "posted", "calling"}, pc : Nat,
   tree : Seq(RegisteredNotes), root : RootSet, proved : RootSet,
   batch : SUBSET Runs, posted : BOOLEAN,
   call : PoolCalls \cup {NoCall, PostCall}, answer : {"none", "pending", "success", "abort"},
   refused : BOOLEAN, seen : SeenTotals, joined : BOOLEAN, doomed : BOOLEAN,
   verdict : {"idle", "running", "passed", "failed", "threw"}]

ChainTotals ==
  /\ commitments \in Seq(RegisteredNotes)
  /\ spent \subseteq ToSet(commitments)
  /\ liveRoot \in RootSet
  /\ shielded \in [{"stx", "ft"} -> Int]
  /\ carol \in Int
  /\ minShield \in Nat
  /\ clientOps \in Nat
DriverTypes == ChainTotals /\ run \in [Runs -> RunStates]

LEMMA RegisteredFinite ==
  ASSUME ChainTotals
  PROVE  IsFiniteSet(ToSet(commitments)) /\ IsFiniteSet(spent)
<1> DEFINE T == ToSet(commitments)
<1>1. Len(commitments) \in Nat /\ DOMAIN commitments = 1..Len(commitments)
  BY DEF ChainTotals
<1>2. T = {commitments[i] : i \in 1..Len(commitments)}
  BY <1>1 DEF ToSet
<1> DEFINE f == [i \in 1..Len(commitments) |-> commitments[i]]
<1>3. f \in Surjection(1..Len(commitments), T)
  BY <1>2 DEF Surjection
<1>4. IsFiniteSet(1..Len(commitments))
  BY <1>1, FS_Interval
<1> HIDE DEF f, T
<1>5. IsFiniteSet(T)
  BY <1>3, <1>4, FS_Surjection
<1>6. IsFiniteSet(ToSet(commitments))
  BY <1>5 DEF T
<1> QED
  BY <1>6, FS_Subset DEF ChainTotals

LEMMA ReadingsType ==
  ASSUME ChainTotals, NEW asset \in {"stx", "ft"}
  PROVE  Readings(asset) \in SeenTotals
<1>1. Cardinality(spent) \in Nat
  BY RegisteredFinite, FS_CardinalityType
<1> QED
  BY <1>1 DEF Readings, SeenTotals, ChainTotals

-----------------------------------------------------------------------------
(***************************************************************************)
(* The step a run is at.                                                   *)
(***************************************************************************)
\* The run of a script that exists, with an amount it may be given.
Started(d) == run[d].script \in Scripts /\ run[d].seed \in Seeds /\ run[d].amount \in Amounts

LEMMA PlanFacts ==
  ASSUME NEW d \in Runs, Started(d)
  PROVE  /\ SoundPlan(run[d].script, PlanFor(d))
         /\ Len(PlanFor(d)) \in Nat /\ DOMAIN PlanFor(d) = 1..Len(PlanFor(d))
         /\ \A k \in 1..Len(PlanFor(d)) : SoundStep(PlanFor(d)[k])
<1>1. run[d].amount \in Nat
  BY DriversAssumption DEF Started
<1>2. SoundPlan(run[d].script, PlanFor(d))
  BY <1>1, PlansSound DEF Started, PlanFor
<1> QED
  BY <1>2 DEF SoundPlan, IsPlan

\* A script derives its keys in its own way, and only the SIP-10 scripts in theirs.
LEMMA DerivationIs ==
  ASSUME NEW kind \in Scripts
  PROVE  /\ Derivation(kind) \in {"shield", "transfer", "merge", "api", "op"}
         /\ Derivation(kind) = "op" <=> kind \in OpScripts
         /\ Derivation(kind) = "op" <=> Asset(kind) = "ft"
         /\ kind = "shield" => Derivation(kind) = "shield"
         /\ Asset(kind) \in {"stx", "ft"}
BY DEF Scripts, OpScripts, Derivation, Asset

LEMMA NotesOfStep ==
  ASSUME NEW d \in Runs, Started(d), NEW k \in 1..Len(PlanFor(d)), NEW field \in {"ins", "outs"}
  PROVE  LET step == PlanFor(d)[k]
             notes == IF field = "ins" THEN step.ins ELSE step.outs
             made == NotesAt(d, k, field) IN
         /\ made \in Seq(RegisteredNotes) /\ Len(made) = Len(notes) /\ notes \in Seq(PlanNotes)
         /\ \A i \in 1..Len(made) :
              /\ made[i] = <<Derivation(run[d].script), run[d].seed, notes[i][1], notes[i][2]>>
              /\ notes[i] \in PlanNotes
<1> DEFINE step == PlanFor(d)[k]
           notes == IF field = "ins" THEN step.ins ELSE step.outs
           made == NotesAt(d, k, field)
<1>1. step \in Steps
  BY PlanFacts DEF SoundStep
<1>2. notes \in Seq(PlanNotes)
  BY <1>1 DEF Steps
<1>3. made = [i \in DOMAIN notes |-> Note(d, notes[i])]
  BY DEF NotesAt, PlanFor
<1> HIDE DEF notes
<1>4. DOMAIN notes = 1..Len(notes) /\ Len(notes) \in Nat /\ \A i \in 1..Len(notes) : notes[i] \in PlanNotes
  BY <1>2
<1>5. \A i \in 1..Len(notes) :
        Note(d, notes[i]) = <<Derivation(run[d].script), run[d].seed, notes[i][1], notes[i][2]>>
  BY DEF Note
<1>6. \A i \in 1..Len(notes) : Note(d, notes[i]) \in RegisteredNotes
  BY <1>4, <1>5, DerivationIs DEF Started, RegisteredNotes, PlanNotes
<1>7. made \in Seq(RegisteredNotes) /\ Len(made) = Len(notes)
  BY <1>3, <1>4, <1>6
<1>8. \A i \in 1..Len(made) :
        /\ made[i] = <<Derivation(run[d].script), run[d].seed, notes[i][1], notes[i][2]>>
        /\ notes[i] \in PlanNotes
  BY <1>3, <1>4, <1>5, <1>7
<1> QED
  BY <1>2, <1>7, <1>8 DEF notes

LEMMA StepFacts ==
  ASSUME NEW d \in Runs, Started(d), run[d].pc \in 1..Len(PlanFor(d))
  PROVE  /\ SoundStep(Now(d)) /\ Now(d) \in Steps
         /\ Ins(d) \in Seq(RegisteredNotes) /\ Outs(d) \in Seq(RegisteredNotes)
         /\ ~Now(d).forged => Shape(Now(d).fn, Ins(d), Outs(d), 4)
         /\ \A n \in ToSet(Ins(d)) \cup ToSet(Outs(d)) : n[1] = Derivation(run[d].script)
         /\ run[d].script = "withdraw" => Now(d).fn = "withdraw"
         /\ run[d].script # "withdraw" /\ run[d].pc = 1 => Now(d).fn = "shield"
         /\ run[d].script = "shield" => Now(d).fn = "shield"
         /\ run[d].script \notin Replaying => ~Now(d).refusal
<1>1. SoundStep(Now(d)) /\ Now(d) \in Steps
  BY PlanFacts DEF Now, SoundStep
<1>2. /\ Ins(d) \in Seq(RegisteredNotes) /\ Len(Ins(d)) = Len(Now(d).ins)
      /\ \A i \in 1..Len(Ins(d)) :
           /\ Ins(d)[i] = <<Derivation(run[d].script), run[d].seed, Now(d).ins[i][1], Now(d).ins[i][2]>>
           /\ Now(d).ins[i] \in PlanNotes
  BY NotesOfStep DEF Ins, Now
<1>3. /\ Outs(d) \in Seq(RegisteredNotes) /\ Len(Outs(d)) = Len(Now(d).outs)
      /\ \A i \in 1..Len(Outs(d)) :
           /\ Outs(d)[i] = <<Derivation(run[d].script), run[d].seed, Now(d).outs[i][1], Now(d).outs[i][2]>>
           /\ Now(d).outs[i] \in PlanNotes
  BY NotesOfStep DEF Outs, Now
<1>4. ASSUME ~Now(d).forged PROVE Shape(Now(d).fn, Ins(d), Outs(d), 4)
  <2>1. Shape(Now(d).fn, Now(d).ins, Now(d).outs, 2)
    BY <1>1, <1>4 DEF SoundStep
  <2>2. \A n \in PlanNotes, m \in PlanNotes : n[1] = m[1] /\ n[2] = m[2] => n = m
    BY DEF PlanNotes
  <2> QED
    BY <1>2, <1>3, <2>1, <2>2 DEF Shape
<1>5. \A n \in ToSet(Ins(d)) \cup ToSet(Outs(d)) : n[1] = Derivation(run[d].script)
  <2>1. DOMAIN Ins(d) = 1..Len(Ins(d)) /\ DOMAIN Outs(d) = 1..Len(Outs(d))
    BY <1>2, <1>3
  <2>2. \A i \in 1..Len(Ins(d)) : Ins(d)[i][1] = Derivation(run[d].script)
    BY <1>2
  <2>3. \A i \in 1..Len(Outs(d)) : Outs(d)[i][1] = Derivation(run[d].script)
    BY <1>3
  <2> QED
    BY <2>1, <2>2, <2>3 DEF ToSet
<1>6. SoundPlan(run[d].script, PlanFor(d)) /\ Len(PlanFor(d)) \in Nat
  BY PlanFacts
<1>7. run[d].script = "withdraw" => Now(d).fn = "withdraw"
  <2> SUFFICES ASSUME run[d].script = "withdraw" PROVE Now(d).fn = "withdraw"
    OBVIOUS
  <2>1. Len(PlanFor(d)) = 1 /\ PlanFor(d)[1].fn = "withdraw"
    BY <1>6 DEF SoundPlan
  <2>2. run[d].pc = 1
    BY <2>1
  <2> QED
    BY <2>1, <2>2 DEF Now
<1>8. run[d].script # "withdraw" /\ run[d].pc = 1 => Now(d).fn = "shield"
  BY <1>6 DEF SoundPlan, Opens, Now
<1>9. run[d].script = "shield" => Now(d).fn = "shield"
  <2> SUFFICES ASSUME run[d].script = "shield" PROVE Now(d).fn = "shield"
    OBVIOUS
  <2>1. Len(PlanFor(d)) = 1 /\ PlanFor(d)[1].fn = "shield"
    BY <1>6 DEF SoundPlan, Opens
  <2>2. run[d].pc = 1
    BY <2>1
  <2> QED
    BY <2>1, <2>2 DEF Now
<1>10. run[d].script \notin Replaying => ~Now(d).refusal
  BY <1>6 DEF SoundPlan, NeverFails, Now
<1> QED
  BY <1>1, <1>2, <1>3, <1>4, <1>5, <1>7, <1>8, <1>9, <1>10

-----------------------------------------------------------------------------
(***************************************************************************)
(* The inductive invariant.                                                *)
(***************************************************************************)
\* Not the live root, or the root of every registered note.
Kept(root) == root \in knownRoots /\ (liveRoot = root => root = Tree(commitments))

\* The call a run has sent is that of the step it is at.
OwnRoots(d) == run[d].script \notin {"shield", "withdraw"}
SentCall(d) ==
  LET call == run[d].call IN
  /\ call \in PoolCalls
  /\ call.fn = Now(d).fn /\ call.ins = Ins(d) /\ call.outs = Outs(d)
  /\ OwnRoots(d) /\ call.fn # "withdraw" => call.new = Tree(run[d].tree)

Position(d) ==
  /\ run[d].verdict = "idle" => run[d] = NotStarted
  /\ run[d].verdict # "idle" => Started(d)
  /\ InProgress(d) =>
       /\ run[d].pc \in 1..(Len(PlanFor(d)) + 1)
       /\ run[d].stage # "ready" => run[d].pc <= Len(PlanFor(d))
       /\ run[d].stage \notin {"posting", "calling"} => run[d].answer = "none"
       /\ run[d].stage = "posting" => run[d].call = PostCall
       /\ run[d].stage = "calling" => SentCall(d)

\* The steps a run has taken took effect.
TookEffect(d, k) ==
  /\ ToSet(NotesAt(d, k, "ins")) \subseteq spent
  /\ ToSet(NotesAt(d, k, "outs")) \subseteq ToSet(commitments)

Progress(d) ==
  /\ InProgress(d) =>
       /\ \A k \in 1..(run[d].pc - 1) : ~PlanFor(d)[k].refusal => TookEffect(d, k)
       /\ run[d].refused \/ run[d].script \in Replaying
       /\ run[d].stage = "calling" /\ run[d].answer = "success" => TookEffect(d, run[d].pc)
  /\ run[d].verdict = "passed" =>
       /\ run[d].refused
       /\ \A k \in 1..Len(PlanFor(d)) : ~PlanFor(d)[k].refusal => TookEffect(d, k)

\* The tree of a run is one call ahead of its root from the moment a shield is proved,
\* or any other call is sent, until it is confirmed.
Ahead(d) ==
  \/ run[d].stage = "calling" /\ ~Now(d).refusal
  \/ run[d].stage # "ready" /\ Now(d).fn = "shield"

Tracking(d) ==
  InProgress(d) /\ OwnRoots(d) =>
    /\ run[d].root \in knownRoots
    /\ ~run[d].joined \/ run[d].pc > 1 =>
         /\ run[d].root = Tree(run[d].root.leaves)
         /\ run[d].tree =
              IF Ahead(d) THEN run[d].root.leaves \o Outs(d) ELSE run[d].root.leaves
    /\ Ahead(d) => ToSet(Outs(d)) \subseteq ToSet(run[d].tree)
    /\ ~run[d].joined => Kept(run[d].root)
    /\ /\ run[d].stage = "calling" /\ run[d].answer = "success"
       /\ Now(d).fn # "withdraw" /\ ~Now(d).refusal
       => /\ run[d].call.new \in knownRoots
          /\ ~run[d].joined => Kept(run[d].call.new)

\* A call that may still be mined, whether or not its run has ended.
Declares(d, call) ==
  /\ \/ \A n \in ToSet(call.outs) : n[1] = "shield"
     \/ call.new \in knownRoots
     \/ call.new.merkle /\ ToSet(call.outs) \subseteq ToSet(call.new.leaves)
  /\ ~run[d].joined /\ run[d].script # "shield" =>
       \/ call.new \in knownRoots
       \/ /\ call.current = Tree(call.current.leaves) /\ Kept(call.current)
          /\ call.new = Tree(call.current.leaves \o call.outs)

Mineable(d, call) ==
  /\ call \in PoolCalls
  /\ \A n \in ToSet(call.ins) \cup ToSet(call.outs) :
       n[1] # "client" /\ (n[1] = "op" <=> call.asset = "ft")
  /\ ~call.forged => Shape(call.fn, call.ins, call.outs, 4)
  /\ ~call.forged /\ call.fn # "withdraw" => Declares(d, call)

Pending(d) ==
  run[d].answer = "pending" /\ run[d].call # PostCall => Mineable(d, run[d].call)

DriverInv(d) == Position(d) /\ Progress(d) /\ Tracking(d) /\ Pending(d)

\* The registry and the pools.
ChainInv ==
  /\ liveRoot \in knownRoots
  /\ commitments = <<>> => liveRoot = Genesis
  /\ liveRoot # Tree(commitments) =>
       \E d \in Runs : mover = d /\ (run[d].joined \/ run[d].script = "shield")
  /\ \A n \in ToSet(commitments) : n[1] = "client" => n[3] <= clientOps
  /\ \A n \in ToSet(commitments) \ spent :
       \/ n[1] = "shield"
       \/ \E root \in knownRoots : root.merkle /\ n \in ToSet(root.leaves)
  /\ \A asset \in {"stx", "ft"} : shielded[asset] = Worth(OnAsset(asset))

DriversInv == DriverTypes /\ ChainInv /\ \A d \in Runs : DriverInv(d)

-----------------------------------------------------------------------------
(***************************************************************************)
(* Runs that a step leaves alone, or only marks.                           *)
(***************************************************************************)
LEMMA SamePlan ==
  ASSUME NEW d \in Runs, run'[d].script = run[d].script, run'[d].seed = run[d].seed,
         run'[d].amount = run[d].amount
  PROVE  /\ PlanFor(d)' = PlanFor(d)
         /\ \A k : /\ NotesAt(d, k, "ins")' = NotesAt(d, k, "ins")
                   /\ NotesAt(d, k, "outs")' = NotesAt(d, k, "outs")
         /\ Started(d)' <=> Started(d)
         /\ OwnRoots(d)' <=> OwnRoots(d)
         /\ run'[d].pc = run[d].pc => Now(d)' = Now(d) /\ Ins(d)' = Ins(d) /\ Outs(d)' = Outs(d)
<1>1. PlanFor(d)' = PlanFor(d)
  BY DEF PlanFor
<1>2. \A n : Note(d, n)' = Note(d, n)
  BY DEF Note
<1>3. \A k : /\ NotesAt(d, k, "ins")' = NotesAt(d, k, "ins")
             /\ NotesAt(d, k, "outs")' = NotesAt(d, k, "outs")
  BY <1>2 DEF NotesAt
<1>4. run'[d].pc = run[d].pc => Now(d)' = Now(d) /\ Ins(d)' = Ins(d) /\ Outs(d)' = Outs(d)
  BY <1>1, <1>3 DEF Now, Ins, Outs
<1> QED
  BY <1>1, <1>3, <1>4 DEF Started, OwnRoots

\* The registry only grows, and a root that becomes live is new or commits to
\* every registered note.
ChainGrows ==
  /\ spent \subseteq spent' /\ ToSet(commitments) \subseteq ToSet(commitments')
  /\ knownRoots \subseteq knownRoots'
  /\ \/ liveRoot' = liveRoot /\ commitments' = commitments
     \/ liveRoot' \notin knownRoots
     \/ liveRoot' = Tree(commitments')

LEMMA StaysKept ==
  ASSUME ChainGrows, NEW root, Kept(root)
  PROVE  root \in knownRoots' /\ (liveRoot' = root => root = Tree(commitments'))
BY DEF ChainGrows, Kept

LEMMA KeptPrime ==
  ASSUME ChainGrows, NEW root, NEW other, Kept(root), other = root
  PROVE  other \in knownRoots' /\ (liveRoot' = other => other = Tree(commitments'))
BY StaysKept

LEMMA StaysEffective ==
  ASSUME ChainGrows, NEW d \in Runs, NEW k, TookEffect(d, k), run'[d].script = run[d].script,
         run'[d].seed = run[d].seed, run'[d].amount = run[d].amount
  PROVE  TookEffect(d, k)'
<1>1. /\ NotesAt(d, k, "ins")' = NotesAt(d, k, "ins")
      /\ NotesAt(d, k, "outs")' = NotesAt(d, k, "outs")
  BY SamePlan
<1> QED
  BY <1>1 DEF TookEffect, ChainGrows

\* A run of which a step changes no more than what was posted for it.
OnlyMarked(d) ==
  /\ run[d].verdict = "idle" => run'[d] = run[d]
  /\ run'[d].script = run[d].script /\ run'[d].seed = run[d].seed
  /\ run'[d].amount = run[d].amount /\ run'[d].joined = run[d].joined
  /\ run'[d].verdict = run[d].verdict /\ run'[d].pc = run[d].pc
  /\ run'[d].tree = run[d].tree /\ run'[d].root = run[d].root
  /\ run'[d].refused = run[d].refused /\ run'[d].call = run[d].call
  /\ run'[d].answer = run[d].answer
  /\ \/ run'[d].stage = run[d].stage
     \/ run[d].stage = "waiting" /\ run'[d].stage = "aggregated"

LEMMA PendingStays ==
  ASSUME ChainGrows, NEW d \in Runs, Pending(d),
         run'[d].answer = "pending" => run[d].answer = "pending" /\ run'[d].call = run[d].call,
         run'[d].script = run[d].script, run'[d].joined = run[d].joined
  PROVE  Pending(d)'
<1> SUFFICES ASSUME run'[d].answer = "pending", run'[d].call # PostCall
             PROVE  Mineable(d, run[d].call)'
  BY DEF Pending
<1> DEFINE call == run[d].call
<1>1. Mineable(d, call) /\ run'[d].call = call
  BY DEF Pending
<1>2. ASSUME Declares(d, call)
      PROVE  /\ \/ \A n \in ToSet(call.outs) : n[1] = "shield"
                \/ call.new \in knownRoots'
                \/ call.new.merkle /\ ToSet(call.outs) \subseteq ToSet(call.new.leaves)
             /\ ~run'[d].joined /\ run'[d].script # "shield" =>
                  \/ call.new \in knownRoots'
                  \/ /\ call.current = Tree(call.current.leaves)
                     /\ call.current \in knownRoots'
                     /\ liveRoot' = call.current => call.current = Tree(commitments')
                     /\ call.new = Tree(call.current.leaves \o call.outs)
  <2>1. Kept(call.current) =>
          call.current \in knownRoots' /\ (liveRoot' = call.current => call.current = Tree(commitments'))
    BY StaysKept
  <2>2. knownRoots \subseteq knownRoots'
    BY DEF ChainGrows
  <2> HIDE DEF call
  <2> QED
    BY <1>2, <2>1, <2>2 DEF Declares
<1> QED
  <2>1. /\ call \in PoolCalls
        /\ \A n \in ToSet(call.ins) \cup ToSet(call.outs) :
             n[1] # "client" /\ (n[1] = "op" <=> call.asset = "ft")
        /\ ~call.forged => Shape(call.fn, call.ins, call.outs, 4)
        /\ ~call.forged /\ call.fn # "withdraw" => Declares(d, call)
    BY <1>1 DEF Mineable
  <2>2. /\ ~run'[d].call.forged /\ run'[d].call.fn # "withdraw" => Declares(d, run[d].call)'
    BY <1>1, <1>2, <2>1 DEF Declares, Kept
  <2> QED
    BY <1>1, <2>1, <2>2 DEF Mineable

LEMMA MarkedKept ==
  ASSUME DriverTypes, ChainGrows, NEW d \in Runs, DriverInv(d), OnlyMarked(d)
  PROVE  DriverInv(d)'
<1>1. /\ PlanFor(d)' = PlanFor(d) /\ (Started(d)' <=> Started(d)) /\ (OwnRoots(d)' <=> OwnRoots(d))
      /\ Now(d)' = Now(d) /\ Ins(d)' = Ins(d) /\ Outs(d)' = Outs(d)
  BY SamePlan DEF OnlyMarked
<1>2. (InProgress(d)' <=> InProgress(d)) /\ (Ahead(d)' <=> Ahead(d))
  BY <1>1 DEF OnlyMarked, InProgress, Ahead
<1>3. Position(d)'
  <2>1. SentCall(d) => SentCall(d)'
    BY <1>1 DEF SentCall, OnlyMarked
  <2> QED
    BY <1>1, <1>2, <2>1 DEF DriverInv, Position, OnlyMarked
<1>4. Progress(d)'
  <2>1. \A k : TookEffect(d, k) => TookEffect(d, k)'
    BY StaysEffective DEF OnlyMarked
  <2>2. TookEffect(d, run[d].pc) => TookEffect(d, run[d].pc)'
    BY <2>1 DEF OnlyMarked, TookEffect
  <2> QED
    BY <1>1, <1>2, <2>1, <2>2 DEF DriverInv, Progress, OnlyMarked
<1>5. Tracking(d)'
  <2>1. /\ Kept(run[d].root) => Kept(run[d].root)'
        /\ Kept(run[d].call.new) => Kept(run[d].call.new)'
    BY KeptPrime DEF Kept, OnlyMarked
  <2>2. knownRoots \subseteq knownRoots'
    BY DEF ChainGrows
  <2> QED
    BY <1>1, <1>2, <2>1, <2>2 DEF DriverInv, Tracking, OnlyMarked
<1>6. Pending(d)'
  BY PendingStays DEF DriverInv, OnlyMarked
<1> QED
  BY <1>3, <1>4, <1>5, <1>6 DEF DriverInv

\* What a run that ends leaves behind.
LEMMA EndedIs ==
  ASSUME DriverTypes, NEW d \in Runs, NEW verdict,
         run' = [run EXCEPT ![d] = EndedAs(d, verdict)]
  PROVE  /\ run'[d].script = run[d].script /\ run'[d].seed = run[d].seed
         /\ run'[d].amount = run[d].amount /\ run'[d].joined = run[d].joined
         /\ run'[d].doomed = run[d].doomed
         /\ run'[d].verdict = verdict /\ run'[d].refused = run[d].refused
         /\ run'[d].answer = "pending" => run[d].answer = "pending" /\ run'[d].call = run[d].call
         /\ \A e \in Runs \ {d} : run'[e] = run[e]
BY DEF EndedAs, NotStarted, DriverTypes

LEMMA EndedKept ==
  ASSUME DriverTypes, ChainGrows, NEW d \in Runs, DriverInv(d), InProgress(d),
         NEW verdict \in {"passed", "failed", "threw"},
         run' = [run EXCEPT ![d] = EndedAs(d, verdict)],
         verdict = "passed" => run[d].refused /\ run[d].pc > Len(PlanFor(d))
  PROVE  DriverInv(d)'
<1>1. /\ PlanFor(d)' = PlanFor(d) /\ (Started(d)' <=> Started(d))
  BY EndedIs, SamePlan
<1>2. Started(d) /\ run[d].verdict = "running"
  BY DEF DriverInv, Position, InProgress
<1>3. ~InProgress(d)' /\ run'[d].verdict = verdict
  BY EndedIs DEF InProgress
<1>4. Position(d)'
  BY <1>1, <1>2, <1>3 DEF Position
<1>5. Progress(d)'
  <2> SUFFICES ASSUME verdict = "passed"
               PROVE  /\ run'[d].refused
                      /\ \A k \in 1..Len(PlanFor(d)) : ~PlanFor(d)[k].refusal => TookEffect(d, k)'
    BY <1>1, <1>3 DEF Progress
  <2>1. \A k : TookEffect(d, k) => TookEffect(d, k)'
    BY EndedIs, StaysEffective
  <2>2. run[d].pc = Len(PlanFor(d)) + 1 /\ Len(PlanFor(d)) \in Nat
    BY <1>2, PlanFacts DEF DriverInv, Position
  <2>3. \A k \in 1..Len(PlanFor(d)) : k \in 1..(run[d].pc - 1)
    BY <2>2
  <2> QED
    BY <2>1, <2>3, EndedIs DEF DriverInv, Progress
<1>6. Tracking(d)'
  BY <1>3 DEF Tracking
<1>7. Pending(d)'
  BY EndedIs, PendingStays DEF DriverInv
<1> QED
  BY <1>4, <1>5, <1>6, <1>7 DEF DriverInv

-----------------------------------------------------------------------------
(***************************************************************************)
(* The steps of a run of its own.                                          *)
(***************************************************************************)
LEMMA OneRun ==
  ASSUME DriverTypes, NEW d \in Runs, NEW r \in RunStates, run' = [run EXCEPT ![d] = r]
  PROVE  /\ run' \in [Runs -> RunStates] /\ run'[d] = r
         /\ \A e \in Runs \ {d} : run'[e] = run[e]
BY DEF DriverTypes

LEMMA NoteTypes ==
  ASSUME NEW kind \in Scripts, NEW seed \in Seeds, NEW a \in Nat, NEW b \in Nat
  PROVE  <<Derivation(kind), seed, a, b>> \in RegisteredNotes
BY DerivationIs DEF RegisteredNotes

LEMMA TreeType ==
  ASSUME NEW s \in Seq(RegisteredNotes)
  PROVE  Tree(s) \in RootSet /\ Tree(s).leaves = s /\ Tree(s).merkle = TRUE
BY DEF Tree, RootSet

LEMMA GenesisType == Genesis \in RootSet /\ NoReading \in SeenTotals /\ <<>> \in Seq(RegisteredNotes)
<1>1. <<>> \in Seq(RegisteredNotes)
  OBVIOUS
<1>2. Genesis \in RootSet
  BY <1>1, TreeType DEF Genesis
<1>3. NoReading \in SeenTotals
  BY DEF NoReading, SeenTotals
<1> QED
  BY <1>1, <1>2, <1>3

LEMMA EndedType ==
  ASSUME DriverTypes, NEW d \in Runs, NEW verdict \in {"passed", "failed", "threw"}
  PROVE  EndedAs(d, verdict) \in RunStates
<1>1. run[d] \in RunStates
  BY DEF DriverTypes
<1> DEFINE batch == IF run[d].answer = "pending" THEN run[d].batch ELSE {}
           posted == run[d].answer = "pending" /\ run[d].posted
           call == IF run[d].answer = "pending" THEN run[d].call ELSE NoCall
           reply == IF run[d].answer = "pending" THEN "pending" ELSE "none"
<1>2. /\ batch \in SUBSET Runs /\ posted \in BOOLEAN
      /\ call \in PoolCalls \cup {NoCall, PostCall} /\ reply \in {"none", "pending"}
  BY <1>1 DEF RunStates
<1> DEFINE r == [NotStarted EXCEPT !.script = run[d].script, !.seed = run[d].seed,
                   !.amount = run[d].amount, !.joined = run[d].joined, !.doomed = run[d].doomed]
           s == [r EXCEPT !.verdict = verdict, !.refused = run[d].refused, !.batch = batch]
           t == [s EXCEPT !.posted = posted, !.call = call, !.answer = reply]
<1>3. EndedAs(d, verdict) = t
  BY DEF EndedAs
<1> HIDE DEF batch, posted, call, reply
<1>4. NotStarted \in RunStates
  BY GenesisType DEF NotStarted, RunStates
<1>5. r \in RunStates
  BY <1>1, <1>4 DEF RunStates
<1> HIDE DEF r
<1>6. s \in RunStates
  <2>1. run[d].refused \in BOOLEAN
    BY <1>1 DEF RunStates
  <2>2. LET u == [r EXCEPT !.verdict = verdict, !.refused = run[d].refused] IN u \in RunStates
    BY <1>5, <2>1 DEF RunStates
  <2> QED
    BY <1>2, <2>2 DEF RunStates
<1> HIDE DEF s
<1>7. t \in RunStates
  BY <1>2, <1>6 DEF RunStates
<1> QED
  BY <1>3, <1>7

\* What holds of the others when a run goes on by itself.
Quiet == UNCHANGED <<poolVars, minShield, mover, clientOps>>

LEMMA QuietGrows ==
  ASSUME Quiet
  PROVE  ChainGrows
BY DEF Quiet, ChainGrows, poolVars

LEMMA OthersSame ==
  ASSUME DriverTypes, ChainGrows, NEW e \in Runs, DriverInv(e), run'[e] = run[e]
  PROVE  DriverInv(e)'
BY MarkedKept DEF OnlyMarked

LEMMA ThrowsInv ==
  ASSUME DriverTypes, NEW d \in Runs, DriverInv(d), InProgress(d), Quiet, DriverThrows(d)
  PROVE  DriverInv(d)' /\ run' \in [Runs -> RunStates] /\ \A e \in Runs \ {d} : run'[e] = run[e]
<1>1. run' = [run EXCEPT ![d] = EndedAs(d, "threw")]
  BY DEF DriverThrows
<1>2. EndedAs(d, "threw") \in RunStates
  BY EndedType
<1> QED
  BY <1>1, <1>2, OneRun, QuietGrows, EndedKept

LEMMA StartInv ==
  ASSUME DriversInv, NEW d \in Runs, NEW kind \in Scripts, NEW seed \in Seeds,
         NEW amount \in Amounts, StartRun(d, kind, seed, amount)
  PROVE  DriverInv(d)' /\ run' \in [Runs -> RunStates] /\ \A e \in Runs \ {d} : run'[e] = run[e]
<1> DEFINE rebuilt == <<(<<Derivation(kind), seed, 1, 10>>), (<<Derivation(kind), seed, 2, 10>>)>>
           tree == IF kind = "withdraw" THEN rebuilt ELSE <<>>
           root == IF kind = "withdraw" THEN Tree(rebuilt) ELSE liveRoot
           r == [NotStarted EXCEPT !.script = kind, !.seed = seed, !.amount = amount,
                   !.tree = tree, !.root = root, !.seen = Readings(Asset(kind)),
                   !.joined = commitments # <<>>, !.doomed = Doomed(kind, seed, amount),
                   !.verdict = "running"]
<1>1. run' = [run EXCEPT ![d] = r] /\ Quiet
  BY DEF StartRun, Quiet
<1>2. /\ tree \in Seq(RegisteredNotes) /\ root \in RootSet /\ amount \in Nat
      /\ Readings(Asset(kind)) \in SeenTotals
  <2>1. rebuilt \in Seq(RegisteredNotes)
    BY NoteTypes
  <2>2. Tree(rebuilt) \in RootSet /\ liveRoot \in RootSet
    BY <2>1, TreeType DEF DriversInv, DriverTypes, ChainTotals
  <2>3. Readings(Asset(kind)) \in SeenTotals
    BY DerivationIs, ReadingsType DEF DriversInv, DriverTypes
  <2> QED
    BY <2>1, <2>2, <2>3, DriversAssumption
<1>3. (commitments # <<>>) \in BOOLEAN /\ Doomed(kind, seed, amount) \in BOOLEAN
  BY DEF Doomed
<1>4. Genesis \in RootSet /\ NoReading \in SeenTotals /\ <<>> \in Seq(RegisteredNotes)
  BY GenesisType
<1> HIDE DEF tree, root
<1>5. /\ r \in RunStates
      /\ r.script = kind /\ r.seed = seed /\ r.amount = amount /\ r.stage = "ready" /\ r.pc = 1
      /\ r.tree = tree /\ r.root = root /\ r.answer = "none" /\ r.refused = TRUE
      /\ r.joined = (commitments # <<>>) /\ r.verdict = "running"
  BY <1>2, <1>3, <1>4 DEF NotStarted, RunStates
<1> HIDE DEF r
<1>6. run' \in [Runs -> RunStates] /\ run'[d] = r /\ \A e \in Runs \ {d} : run'[e] = run[e]
  BY <1>1, <1>5, OneRun DEF DriversInv
<1>7. Started(d)' /\ InProgress(d)'
  BY <1>5, <1>6 DEF Started, InProgress
<1>8. Len(PlanFor(d)') \in Nat
  <2>1. SoundPlan(kind, PlanOf(kind, amount))
    BY <1>2, PlansSound
  <2>2. PlanFor(d)' = PlanOf(kind, amount)
    BY <1>5, <1>6 DEF PlanFor
  <2> QED
    BY <2>1, <2>2 DEF SoundPlan, IsPlan
<1>9. Position(d)'
  BY <1>5, <1>6, <1>7, <1>8 DEF Position
<1>10. Progress(d)'
  BY <1>5, <1>6, <1>7 DEF Progress
<1>11. Tracking(d)'
  <2> SUFFICES ASSUME OwnRoots(d)' PROVE Tracking(d)'
    BY DEF Tracking
  <2>1. tree = <<>> /\ root = liveRoot
    BY <1>5, <1>6 DEF OwnRoots, tree, root
  <2>2. ~Ahead(d)'
    BY <1>5, <1>6 DEF Ahead
  <2>3. liveRoot' = liveRoot /\ knownRoots' = knownRoots /\ commitments' = commitments
    BY <1>1 DEF Quiet, poolVars
  <2>4. liveRoot \in knownRoots /\ (commitments = <<>> => liveRoot = Genesis)
    BY DEF DriversInv, ChainInv
  <2>5. Genesis = Tree(<<>>) /\ Genesis.leaves = <<>>
    BY DEF Genesis, Tree
  <2>6. /\ run'[d].root = liveRoot /\ run'[d].tree = <<>> /\ run'[d].pc = 1
        /\ run'[d].stage = "ready" /\ run'[d].joined = (commitments # <<>>)
    BY <1>5, <1>6, <2>1
  <2>7. ASSUME ~run'[d].joined
        PROVE  Kept(run[d].root)' /\ run'[d].root = Tree(run'[d].root.leaves) /\ run'[d].root.leaves = <<>>
    <3>1. commitments = <<>>
      BY <2>6, <2>7
    <3> QED
      BY <3>1, <2>3, <2>4, <2>5, <2>6 DEF Kept
  <2>8. run'[d].root \in knownRoots' /\ ~(run'[d].pc > 1) /\ run'[d].stage # "calling"
    BY <2>3, <2>4, <2>6
  <2> QED
    BY <2>2, <2>6, <2>7, <2>8 DEF Tracking
<1>12. Pending(d)'
  BY <1>5, <1>6 DEF Pending
<1> QED
  BY <1>6, <1>9, <1>10, <1>11, <1>12 DEF DriverInv

LEMMA JoinMembers ==
  ASSUME NEW T, NEW s \in Seq(T), NEW t \in Seq(T)
  PROVE  s \o t \in Seq(T) /\ ToSet(s \o t) = ToSet(s) \cup ToSet(t)
<1>1. s \o t \in Seq(T) /\ Len(s \o t) = Len(s) + Len(t) /\ Len(s) \in Nat /\ Len(t) \in Nat
  OBVIOUS
<1>2. DOMAIN s = 1..Len(s) /\ DOMAIN t = 1..Len(t) /\ DOMAIN (s \o t) = 1..(Len(s) + Len(t))
  BY <1>1
<1>3. \A i \in 1..Len(s) : i \in DOMAIN (s \o t) /\ (s \o t)[i] = s[i]
  BY <1>1, <1>2
<1>4. \A i \in 1..Len(t) : Len(s) + i \in DOMAIN (s \o t) /\ (s \o t)[Len(s) + i] = t[i]
  BY <1>1, <1>2
<1>5. \A k \in DOMAIN (s \o t) : \/ k \in 1..Len(s) /\ (s \o t)[k] = s[k]
                                 \/ k - Len(s) \in 1..Len(t) /\ (s \o t)[k] = t[k - Len(s)]
  BY <1>1, <1>2
<1>6. \A x \in ToSet(s) \cup ToSet(t) : x \in ToSet(s \o t)
  BY <1>2, <1>3, <1>4 DEF ToSet
<1>7. \A x \in ToSet(s \o t) : x \in ToSet(s) \cup ToSet(t)
  BY <1>2, <1>5 DEF ToSet
<1> QED
  BY <1>1, <1>6, <1>7

LEMMA RunFacts ==
  ASSUME DriversInv, NEW d \in Runs, InProgress(d)
  PROVE  /\ DriverTypes /\ DriverInv(d) /\ Position(d) /\ Progress(d) /\ Tracking(d) /\ Pending(d)
         /\ run[d] \in RunStates /\ Started(d) /\ run[d].verdict = "running"
         /\ Len(PlanFor(d)) \in Nat /\ run[d].pc \in 1..(Len(PlanFor(d)) + 1)
         /\ Busy(d) => run[d].pc \in 1..Len(PlanFor(d))
<1>1. DriverTypes /\ DriverInv(d) /\ Position(d) /\ Progress(d) /\ Tracking(d) /\ Pending(d)
  BY DEF DriversInv, DriverInv
<1>2. run[d] \in RunStates /\ run[d].verdict = "running"
  BY <1>1 DEF DriverTypes, InProgress
<1>3. Started(d) /\ run[d].pc \in 1..(Len(PlanFor(d)) + 1)
  BY <1>1, <1>2 DEF Position
<1>4. Len(PlanFor(d)) \in Nat
  BY <1>3, PlanFacts
<1> QED
  BY <1>1, <1>2, <1>3, <1>4 DEF Busy

\* A chain that stays the same.
LEMMA QuietSame ==
  ASSUME Quiet
  PROVE  /\ commitments' = commitments /\ spent' = spent /\ liveRoot' = liveRoot
         /\ knownRoots' = knownRoots
         /\ \A root : Kept(root)' <=> Kept(root)
BY DEF Quiet, poolVars, Kept

LEMMA ProveInv ==
  ASSUME DriversInv, NEW d \in Runs, Prove(d)
  PROVE  DriverInv(d)' /\ run' \in [Runs -> RunStates] /\ \A e \in Runs \ {d} : run'[e] = run[e]
<1> DEFINE tree == IF Now(d).fn = "shield" THEN run[d].tree \o Outs(d) ELSE run[d].tree
           proved == IF Now(d).fn = "withdraw" THEN run[d].root ELSE Tree(run[d].tree)
           r == [run[d] EXCEPT !.tree = tree, !.proved = proved, !.stage = "waiting"]
<1>1. Quiet /\ Busy(d) /\ InProgress(d) /\ run[d].stage = "ready"
  BY DEF Prove, Quiet, Busy
<1>2. /\ DriverTypes /\ DriverInv(d) /\ Position(d) /\ Progress(d) /\ Tracking(d)
      /\ run[d] \in RunStates /\ Started(d) /\ run[d].pc \in 1..Len(PlanFor(d))
  BY <1>1, RunFacts
<1>3. CASE DriverThrows(d)
  BY <1>1, <1>2, <1>3, ThrowsInv
<1>4. CASE run' = [run EXCEPT ![d] = r]
  <2>1. Outs(d) \in Seq(RegisteredNotes) /\ run[d].tree \in Seq(RegisteredNotes)
    BY <1>2, StepFacts DEF RunStates
  <2>2. /\ tree \in Seq(RegisteredNotes) /\ proved \in RootSet
        /\ Now(d).fn = "shield" => ToSet(Outs(d)) \subseteq ToSet(tree)
    <3>1. /\ run[d].tree \o Outs(d) \in Seq(RegisteredNotes)
          /\ ToSet(Outs(d)) \subseteq ToSet(run[d].tree \o Outs(d))
      BY <2>1, JoinMembers
    <3>2. Tree(run[d].tree) \in RootSet /\ run[d].root \in RootSet
      BY <1>2, <2>1, TreeType DEF RunStates
    <3> QED
      BY <2>1, <3>1, <3>2
  <2> HIDE DEF proved
  <2>3. tree = IF Now(d).fn = "shield" THEN run[d].tree \o Outs(d) ELSE run[d].tree
    OBVIOUS
  <2> HIDE DEF tree
  <2>4. /\ r \in RunStates
        /\ r.script = run[d].script /\ r.seed = run[d].seed /\ r.amount = run[d].amount
        /\ r.joined = run[d].joined /\ r.verdict = run[d].verdict /\ r.pc = run[d].pc
        /\ r.root = run[d].root /\ r.refused = run[d].refused /\ r.call = run[d].call
        /\ r.answer = run[d].answer /\ r.stage = "waiting" /\ r.tree = tree
    BY <1>2, <2>2 DEF RunStates
  <2> HIDE DEF r
  <2>5. run' \in [Runs -> RunStates] /\ run'[d] = r /\ \A e \in Runs \ {d} : run'[e] = run[e]
    BY <1>2, <1>4, <2>4, OneRun
  <2>6. /\ PlanFor(d)' = PlanFor(d) /\ (Started(d)' <=> Started(d)) /\ (OwnRoots(d)' <=> OwnRoots(d))
        /\ Now(d)' = Now(d) /\ Outs(d)' = Outs(d) /\ InProgress(d)'
    BY <1>1, <2>4, <2>5, SamePlan DEF InProgress
  <2>7. run[d].answer = "none"
    BY <1>1, <1>2 DEF Position
  <2>8. Position(d)'
    BY <1>2, <2>4, <2>5, <2>6, <2>7 DEF Position, InProgress
  <2>9. Progress(d)'
    <3>1. \A k : TookEffect(d, k) => TookEffect(d, k)'
      BY <1>1, <2>4, <2>5, QuietGrows, StaysEffective
    <3> QED
      BY <1>1, <1>2, <2>4, <2>5, <2>6, <3>1 DEF Progress, InProgress
  <2>10. Tracking(d)'
    <3>1. ~Ahead(d) /\ (Ahead(d)' <=> Now(d).fn = "shield")
      <4>1. SoundStep(Now(d))
        BY <1>2, StepFacts
      <4> QED
        BY <1>1, <2>4, <2>5, <2>6, <4>1 DEF Ahead
    <3>2. Kept(run[d].root) => Kept(run[d].root)'
      BY <1>1, <2>4, <2>5, QuietSame DEF Kept
    <3> QED
      BY <1>1, <1>2, <2>2, <2>3, <2>4, <2>5, <2>6, <3>1, <3>2, QuietSame DEF Tracking
  <2>11. Pending(d)'
    BY <2>4, <2>5, <2>7 DEF Pending
  <2> QED
    BY <2>5, <2>8, <2>9, <2>10, <2>11 DEF DriverInv
<1>5. DriverThrows(d) \/ run' = [run EXCEPT ![d] = r]
  BY DEF Prove
<1> QED
  BY <1>3, <1>4, <1>5

\* The aggregation is posted, and the answer to that comes.
LEMMA PostingInv ==
  ASSUME DriversInv, NEW d \in Runs, Busy(d), Quiet,
         run[d].stage \in {"aggregated", "posting"}, NEW r \in RunStates,
         r.stage \in {"posting", "posted"}, r.stage = "posting" => r.call = PostCall,
         r.stage = "posted" => r.answer = "none",
         r.script = run[d].script, r.seed = run[d].seed, r.amount = run[d].amount,
         r.joined = run[d].joined, r.verdict = run[d].verdict, r.pc = run[d].pc,
         r.tree = run[d].tree, r.root = run[d].root, r.refused = run[d].refused,
         run'[d] = r
  PROVE  DriverInv(d)'
<1>1. InProgress(d)
  BY DEF Busy
<1>2. /\ DriverTypes /\ DriverInv(d) /\ Position(d) /\ Progress(d) /\ Tracking(d)
      /\ run[d] \in RunStates /\ Started(d) /\ run[d].pc \in 1..Len(PlanFor(d))
  BY <1>1, RunFacts
<1>3. /\ PlanFor(d)' = PlanFor(d) /\ (Started(d)' <=> Started(d)) /\ (OwnRoots(d)' <=> OwnRoots(d))
      /\ Now(d)' = Now(d) /\ Outs(d)' = Outs(d) /\ InProgress(d)'
  BY <1>1, SamePlan DEF InProgress
<1>4. Position(d)'
  BY <1>2, <1>3 DEF Position, InProgress
<1>5. Progress(d)'
  <2>1. \A k : TookEffect(d, k) => TookEffect(d, k)'
    BY QuietGrows, StaysEffective
  <2> QED
    BY <1>1, <1>2, <1>3, <2>1 DEF Progress, InProgress
<1>6. Tracking(d)'
  <2>1. Ahead(d)' <=> Ahead(d)
    BY <1>3 DEF Ahead
  <2>2. Kept(run[d].root) => Kept(run[d].root)'
    BY QuietSame DEF Kept
  <2> QED
    BY <1>1, <1>2, <1>3, <2>1, <2>2, QuietSame DEF Tracking
<1>7. Pending(d)'
  BY DEF Pending
<1> QED
  BY <1>4, <1>5, <1>6, <1>7 DEF DriverInv

LEMMA PostInv ==
  ASSUME DriversInv, NEW d \in Runs, PostAggregation(d) \/ AggregationPosted(d)
  PROVE  DriverInv(d)' /\ run' \in [Runs -> RunStates] /\ \A e \in Runs \ {d} : run'[e] = run[e]
<1>1. DriverTypes /\ run[d] \in RunStates /\ Busy(d) /\ Quiet
  BY DEF DriversInv, DriverTypes, PostAggregation, AggregationPosted, Quiet
<1>2. CASE PostAggregation(d)
  <2> DEFINE r == [run[d] EXCEPT !.stage = "posting", !.answer = "pending", !.call = PostCall]
  <2>1. run' = [run EXCEPT ![d] = r] /\ run[d].stage = "aggregated"
    BY <1>2 DEF PostAggregation, PostCall
  <2>2. /\ r \in RunStates
        /\ r.script = run[d].script /\ r.seed = run[d].seed /\ r.amount = run[d].amount
        /\ r.joined = run[d].joined /\ r.verdict = run[d].verdict /\ r.pc = run[d].pc
        /\ r.tree = run[d].tree /\ r.root = run[d].root /\ r.refused = run[d].refused
        /\ r.stage = "posting" /\ r.call = PostCall
    BY <1>1 DEF RunStates
  <2> HIDE DEF r
  <2>3. run' \in [Runs -> RunStates] /\ run'[d] = r /\ \A e \in Runs \ {d} : run'[e] = run[e]
    BY <1>1, <2>1, <2>2, OneRun
  <2>4. DriverInv(d)'
    BY <1>1, <2>1, <2>2, <2>3, PostingInv
  <2> QED
    BY <2>3, <2>4
<1>3. CASE AggregationPosted(d)
  <2> DEFINE r == [run[d] EXCEPT !.stage = "posted", !.answer = "none", !.call = NoCall]
  <2>1. run' = [run EXCEPT ![d] = r] /\ run[d].stage = "posting"
    BY <1>3 DEF AggregationPosted
  <2>2. /\ r \in RunStates
        /\ r.script = run[d].script /\ r.seed = run[d].seed /\ r.amount = run[d].amount
        /\ r.joined = run[d].joined /\ r.verdict = run[d].verdict /\ r.pc = run[d].pc
        /\ r.tree = run[d].tree /\ r.root = run[d].root /\ r.refused = run[d].refused
        /\ r.stage = "posted" /\ r.answer = "none"
    BY <1>1 DEF RunStates
  <2> HIDE DEF r
  <2>3. run' \in [Runs -> RunStates] /\ run'[d] = r /\ \A e \in Runs \ {d} : run'[e] = run[e]
    BY <1>1, <2>1, <2>2, OneRun
  <2>4. DriverInv(d)'
    BY <1>1, <2>1, <2>2, <2>3, PostingInv
  <2> QED
    BY <2>3, <2>4
<1> QED
  BY <1>2, <1>3

\* On to the next step of the plan.
LEMMA NextStepIs ==
  ASSUME NEW d \in Runs, run[d] \in RunStates
  PROVE  LET n == NextStep(d) IN
         /\ n \in RunStates
         /\ n.script = run[d].script /\ n.seed = run[d].seed /\ n.amount = run[d].amount
         /\ n.joined = run[d].joined /\ n.verdict = run[d].verdict /\ n.pc = run[d].pc + 1
         /\ n.tree = run[d].tree /\ n.root = run[d].root /\ n.refused = run[d].refused
         /\ n.stage = "ready" /\ n.answer = "none"
<1> DEFINE n == [run[d] EXCEPT !.pc = run[d].pc + 1, !.stage = "ready", !.answer = "none",
                               !.call = NoCall]
<1>1. NextStep(d) = n
  BY DEF NextStep
<1>2. run[d].pc + 1 \in Nat
  BY DEF RunStates
<1>3. /\ n \in RunStates
      /\ n.script = run[d].script /\ n.seed = run[d].seed /\ n.amount = run[d].amount
      /\ n.joined = run[d].joined /\ n.verdict = run[d].verdict /\ n.pc = run[d].pc + 1
      /\ n.tree = run[d].tree /\ n.root = run[d].root /\ n.refused = run[d].refused
      /\ n.stage = "ready" /\ n.answer = "none"
  BY <1>2 DEF RunStates
<1> QED
  BY <1>1, <1>3

LEMMA AdvanceInv ==
  ASSUME DriversInv, NEW d \in Runs, Busy(d), Quiet, NEW r \in RunStates,
         run' = [run EXCEPT ![d] = r],
         r.script = run[d].script, r.seed = run[d].seed, r.amount = run[d].amount,
         r.joined = run[d].joined, r.verdict = run[d].verdict, r.pc = run[d].pc + 1,
         r.tree = run[d].tree, r.stage = "ready", r.answer = "none",
         ~Now(d).refusal => TookEffect(d, run[d].pc),
         r.refused \/ run[d].script \in Replaying,
         OwnRoots(d) =>
           /\ r.root \in knownRoots /\ (~run[d].joined => Kept(r.root))
           /\ r.root = Tree(r.root.leaves) /\ run[d].tree = r.root.leaves
  PROVE  DriverInv(d)' /\ run' \in [Runs -> RunStates] /\ \A e \in Runs \ {d} : run'[e] = run[e]
<1>1. InProgress(d)
  BY DEF Busy
<1>2. /\ DriverTypes /\ DriverInv(d) /\ Position(d) /\ Progress(d)
      /\ run[d] \in RunStates /\ Started(d) /\ run[d].pc \in 1..Len(PlanFor(d))
      /\ Len(PlanFor(d)) \in Nat /\ run[d].verdict = "running"
  BY <1>1, RunFacts
<1>3. run' \in [Runs -> RunStates] /\ run'[d] = r /\ \A e \in Runs \ {d} : run'[e] = run[e]
  BY <1>2, OneRun
<1>4. /\ PlanFor(d)' = PlanFor(d) /\ (Started(d)' <=> Started(d)) /\ (OwnRoots(d)' <=> OwnRoots(d))
      /\ InProgress(d)'
  BY <1>2, <1>3, SamePlan DEF InProgress
<1>5. Position(d)'
  <2>1. run[d].pc + 1 \in 1..(Len(PlanFor(d)) + 1)
    BY <1>2
  <2>2. run'[d].verdict = "running" /\ run'[d].stage = "ready" /\ run'[d].answer = "none"
    BY <1>2, <1>3
  <2> QED
    BY <1>2, <1>3, <1>4, <2>1, <2>2 DEF Position
<1>6. Progress(d)'
  <2>1. \A k : TookEffect(d, k) => TookEffect(d, k)'
    BY <1>3, QuietGrows, StaysEffective
  <2>2. \A k \in 1..(r.pc - 1) : k \in 1..(run[d].pc - 1) \/ k = run[d].pc
    BY <1>2
  <2>3. \A k \in 1..(r.pc - 1) : ~PlanFor(d)[k].refusal => TookEffect(d, k)
    BY <1>1, <1>2, <2>2 DEF Progress, Now
  <2> QED
    BY <1>2, <1>3, <1>4, <2>1, <2>3 DEF Progress
<1>7. Tracking(d)'
  <2> SUFFICES ASSUME OwnRoots(d) PROVE Tracking(d)'
    BY <1>4 DEF Tracking
  <2>1. ~Ahead(d)'
    BY <1>3 DEF Ahead
  <2>2. /\ run'[d].root = r.root /\ run'[d].tree = r.root.leaves /\ run'[d].stage = "ready"
        /\ run'[d].joined = run[d].joined
    BY <1>3
  <2>3. ~run[d].joined => Kept(run[d].root)'
    BY <2>2, QuietSame DEF Kept
  <2>4. knownRoots' = knownRoots
    BY QuietSame
  <2> QED
    BY <2>1, <2>2, <2>3, <2>4 DEF Tracking
<1>8. Pending(d)'
  BY <1>3 DEF Pending
<1> QED
  BY <1>3, <1>5, <1>6, <1>7, <1>8 DEF DriverInv

\* Before a step that must fail, and after it, the tree is that of the root.
LEMMA RefusalTracks ==
  ASSUME DriversInv, NEW d \in Runs, Busy(d), Now(d).refusal, OwnRoots(d)
  PROVE  /\ run[d].root \in knownRoots /\ (~run[d].joined => Kept(run[d].root))
         /\ run[d].root = Tree(run[d].root.leaves) /\ run[d].tree = run[d].root.leaves
         /\ Now(d).fn # "shield"
<1>1. InProgress(d)
  BY DEF Busy
<1>2. /\ Tracking(d) /\ Started(d) /\ run[d].pc \in 1..Len(PlanFor(d)) /\ Len(PlanFor(d)) \in Nat
  BY <1>1, RunFacts
<1>3. SoundStep(Now(d)) /\ (run[d].script # "withdraw" /\ run[d].pc = 1 => Now(d).fn = "shield")
  BY <1>2, StepFacts
<1>4. Now(d).fn # "shield"
  BY <1>3 DEF SoundStep
<1>5. run[d].pc > 1 /\ ~Ahead(d)
  BY <1>2, <1>3, <1>4 DEF OwnRoots, Ahead
<1> QED
  BY <1>1, <1>2, <1>4, <1>5 DEF Tracking

LEMMA RejectedInv ==
  ASSUME DriversInv, NEW d \in Runs, Rejected(d)
  PROVE  DriverInv(d)' /\ run' \in [Runs -> RunStates] /\ \A e \in Runs \ {d} : run'[e] = run[e]
<1>1. Busy(d) /\ InProgress(d) /\ Quiet
  BY DEF Rejected, MayCall, Busy, Quiet
<1>2. DriverTypes /\ DriverInv(d) /\ run[d] \in RunStates /\ Progress(d)
  BY <1>1, RunFacts
<1>3. CASE DriverThrows(d)
  BY <1>1, <1>2, <1>3, ThrowsInv
<1>4. CASE Now(d).refusal /\ run' = [run EXCEPT ![d] = NextStep(d)]
  <2> DEFINE n == NextStep(d)
  <2>1. /\ n \in RunStates
        /\ n.script = run[d].script /\ n.seed = run[d].seed /\ n.amount = run[d].amount
        /\ n.joined = run[d].joined /\ n.verdict = run[d].verdict /\ n.pc = run[d].pc + 1
        /\ n.tree = run[d].tree /\ n.root = run[d].root /\ n.refused = run[d].refused
        /\ n.stage = "ready" /\ n.answer = "none"
    BY <1>2, NextStepIs
  <2>2. run' = [run EXCEPT ![d] = n]
    BY <1>4
  <2> HIDE DEF n
  <2>3. n.refused \/ run[d].script \in Replaying
    BY <1>1, <1>2, <2>1 DEF Progress
  <2>4. OwnRoots(d) =>
          /\ n.root \in knownRoots /\ (~run[d].joined => Kept(n.root))
          /\ n.root = Tree(n.root.leaves) /\ run[d].tree = n.root.leaves
    BY <1>1, <1>4, <2>1, RefusalTracks
  <2> QED
    BY <1>1, <1>4, <2>1, <2>2, <2>3, <2>4, AdvanceInv
<1> QED
  BY <1>3, <1>4 DEF Rejected

LEMMA RefusedInv ==
  ASSUME DriversInv, NEW d \in Runs, RefusedAsExpected(d)
  PROVE  DriverInv(d)' /\ run' \in [Runs -> RunStates] /\ \A e \in Runs \ {d} : run'[e] = run[e]
<1>1. Busy(d) /\ InProgress(d) /\ Quiet /\ Now(d).refusal /\ run' = [run EXCEPT ![d] = NextStep(d)]
  BY DEF RefusedAsExpected, Busy, Quiet
<1>2. run[d] \in RunStates /\ Progress(d)
  BY <1>1, RunFacts
<1> DEFINE n == NextStep(d)
<1>3. /\ n \in RunStates
      /\ n.script = run[d].script /\ n.seed = run[d].seed /\ n.amount = run[d].amount
      /\ n.joined = run[d].joined /\ n.verdict = run[d].verdict /\ n.pc = run[d].pc + 1
      /\ n.tree = run[d].tree /\ n.root = run[d].root /\ n.refused = run[d].refused
      /\ n.stage = "ready" /\ n.answer = "none"
  BY <1>2, NextStepIs
<1>4. run' = [run EXCEPT ![d] = n]
  BY <1>1
<1> HIDE DEF n
<1>5. n.refused \/ run[d].script \in Replaying
  BY <1>1, <1>2, <1>3 DEF Progress
<1>6. OwnRoots(d) =>
        /\ n.root \in knownRoots /\ (~run[d].joined => Kept(n.root))
        /\ n.root = Tree(n.root.leaves) /\ run[d].tree = n.root.leaves
  BY <1>1, <1>3, RefusalTracks
<1> QED
  BY <1>1, <1>3, <1>4, <1>5, <1>6, AdvanceInv

LEMMA ConfirmedInv ==
  ASSUME DriversInv, NEW d \in Runs, CallConfirmed(d)
  PROVE  DriverInv(d)' /\ run' \in [Runs -> RunStates] /\ \A e \in Runs \ {d} : run'[e] = run[e]
<1> DEFINE n == NextStep(d)
           refused == n.refused /\ ~Now(d).refusal
           root == IF Now(d).refusal \/ Now(d).fn = "withdraw" THEN n.root ELSE run[d].call.new
           r == [n EXCEPT !.refused = refused, !.root = root]
<1>1. Busy(d) /\ InProgress(d) /\ Quiet /\ run[d].stage = "calling" /\ run[d].answer = "success"
  BY DEF CallConfirmed, Busy, Quiet
<1>2. /\ run[d] \in RunStates /\ Position(d) /\ Progress(d) /\ Tracking(d) /\ Started(d)
      /\ run[d].pc \in 1..Len(PlanFor(d)) /\ Len(PlanFor(d)) \in Nat
  BY <1>1, RunFacts
<1>3. run' = [run EXCEPT ![d] = r]
  BY DEF CallConfirmed
<1>4. /\ n \in RunStates
      /\ n.script = run[d].script /\ n.seed = run[d].seed /\ n.amount = run[d].amount
      /\ n.joined = run[d].joined /\ n.verdict = run[d].verdict /\ n.pc = run[d].pc + 1
      /\ n.tree = run[d].tree /\ n.root = run[d].root /\ n.refused = run[d].refused
      /\ n.stage = "ready" /\ n.answer = "none"
  BY <1>2, NextStepIs
<1>5. SentCall(d)
  BY <1>1, <1>2 DEF Position
<1> HIDE DEF n
<1>6. refused \in BOOLEAN /\ root \in RootSet
  BY <1>4, <1>5 DEF RunStates, SentCall, PoolCalls
<1>7. ~Now(d).refusal => refused = run[d].refused
  BY <1>2, <1>4 DEF RunStates
<1>8. root = IF Now(d).refusal \/ Now(d).fn = "withdraw" THEN run[d].root ELSE run[d].call.new
  BY <1>4
<1> HIDE DEF refused, root
<1>9. /\ r \in RunStates
      /\ r.script = run[d].script /\ r.seed = run[d].seed /\ r.amount = run[d].amount
      /\ r.joined = run[d].joined /\ r.verdict = run[d].verdict /\ r.pc = run[d].pc + 1
      /\ r.tree = run[d].tree /\ r.stage = "ready" /\ r.answer = "none"
      /\ r.refused = refused /\ r.root = root
  BY <1>4, <1>6 DEF RunStates
<1> HIDE DEF r
<1>10. /\ SoundStep(Now(d))
       /\ ~Now(d).forged => Shape(Now(d).fn, Ins(d), Outs(d), 4)
       /\ run[d].script # "withdraw" /\ run[d].pc = 1 => Now(d).fn = "shield"
       /\ run[d].script \notin Replaying => ~Now(d).refusal
       /\ Outs(d) \in Seq(RegisteredNotes)
  BY <1>2, StepFacts
<1>11. r.refused \/ run[d].script \in Replaying
  BY <1>1, <1>2, <1>7, <1>9, <1>10 DEF Progress
<1>12. TookEffect(d, run[d].pc)
  BY <1>1, <1>2 DEF Progress
<1>13. ASSUME OwnRoots(d)
       PROVE  /\ root \in knownRoots /\ (~run[d].joined => Kept(root))
              /\ root = Tree(root.leaves) /\ run[d].tree = root.leaves
  <2>1. CASE Now(d).refusal
    BY <1>1, <1>8, <1>13, <2>1, RefusalTracks
  <2>2. CASE ~Now(d).refusal /\ Now(d).fn = "withdraw"
    <3>1. Len(Outs(d)) = 0
      BY <1>10, <2>2 DEF SoundStep, Shape
    <3>2. run[d].pc > 1 /\ Ahead(d)
      BY <1>1, <1>2, <1>10, <1>13, <2>2 DEF OwnRoots, Ahead
    <3>3. run[d].root \in RootSet /\ run[d].root.leaves \in Seq(RegisteredNotes)
      BY <1>2 DEF RunStates, RootSet
    <3>4. run[d].root.leaves \o Outs(d) = run[d].root.leaves
      BY <1>10, <3>1, <3>3
    <3> QED
      BY <1>1, <1>2, <1>8, <1>13, <2>2, <3>2, <3>4 DEF Tracking
  <2>3. CASE ~Now(d).refusal /\ Now(d).fn # "withdraw"
    <3>1. run[d].call.new = Tree(run[d].tree)
      BY <1>5, <1>13, <2>3 DEF SentCall
    <3>2. root = Tree(run[d].tree) /\ root.leaves = run[d].tree
      BY <1>8, <2>3, <3>1 DEF Tree
    <3>3. root \in knownRoots /\ (~run[d].joined => Kept(root))
      BY <1>1, <1>2, <1>8, <1>13, <2>3 DEF Tracking
    <3> QED
      BY <3>2, <3>3
  <2> QED
    BY <2>1, <2>2, <2>3
<1> QED
  BY <1>1, <1>3, <1>9, <1>11, <1>12, <1>13, AdvanceInv

LEMMA CallOfType ==
  ASSUME DriversInv, NEW d \in Runs, MayCall(d)
  PROVE  /\ TreeAfter(d) \in Seq(RegisteredNotes) /\ CallOf(d) \in PoolCalls
         /\ CallOf(d).fn = Now(d).fn /\ CallOf(d).ins = Ins(d) /\ CallOf(d).outs = Outs(d)
         /\ CallOf(d).forged = Now(d).forged /\ CallOf(d).asset = Asset(run[d].script)
         /\ OwnRoots(d) => CallOf(d).current = run[d].root /\ CallOf(d).new = Tree(TreeAfter(d))
<1>1. Busy(d) /\ InProgress(d)
  BY DEF MayCall, Busy
<1>2. /\ DriverTypes /\ run[d] \in RunStates /\ Started(d) /\ run[d].pc \in 1..Len(PlanFor(d))
  BY <1>1, RunFacts
<1>3. /\ Now(d) \in Steps /\ Ins(d) \in Seq(RegisteredNotes) /\ Outs(d) \in Seq(RegisteredNotes)
      /\ run[d].script = "shield" => Now(d).fn = "shield"
      /\ ~Now(d).forged => Shape(Now(d).fn, Ins(d), Outs(d), 4)
      /\ SoundStep(Now(d))
  BY <1>2, StepFacts
<1>4. run[d].tree \in Seq(RegisteredNotes) /\ run[d].root \in RootSet /\ run[d].proved \in RootSet
  BY <1>2 DEF RunStates
<1>5. TreeAfter(d) \in Seq(RegisteredNotes)
  BY <1>3, <1>4, JoinMembers DEF TreeAfter
<1> DEFINE current == IF run[d].script = "shield" THEN liveRoot ELSE run[d].root
           new == IF run[d].script = "shield" THEN Pointer(Outs(d)[1]) ELSE Tree(TreeAfter(d))
<1>6. current \in RootSet
  BY <1>2, <1>4 DEF DriverTypes, ChainTotals
<1>7. new \in RootSet
  <2>1. ASSUME run[d].script = "shield" PROVE Pointer(Outs(d)[1]) \in RootSet
    <3>1. Len(Outs(d)) = 1
      BY <1>3, <2>1 DEF SoundStep, Shape
    <3>2. <<Outs(d)[1]>> \in Seq(RegisteredNotes)
      BY <1>3, <3>1
    <3> QED
      BY <3>2 DEF Pointer, RootSet
  <2>2. Tree(TreeAfter(d)) \in RootSet
    BY <1>5, TreeType
  <2> QED
    BY <2>1, <2>2
<1>8. Asset(run[d].script) \in {"stx", "ft"}
  BY <1>2, DerivationIs DEF Started
<1>9. CallOf(d) = [fn |-> Now(d).fn, ins |-> Ins(d), outs |-> Outs(d), forged |-> Now(d).forged,
                   asset |-> Asset(run[d].script), proved |-> run[d].proved,
                   current |-> current, new |-> new]
  BY DEF CallOf
<1>10. OwnRoots(d) => current = run[d].root /\ new = Tree(TreeAfter(d))
  BY DEF OwnRoots
<1> HIDE DEF current, new
<1>11. Now(d).fn \in Fns /\ Now(d).forged \in BOOLEAN
  BY <1>3 DEF Steps
<1> QED
  BY <1>3, <1>4, <1>5, <1>6, <1>7, <1>8, <1>9, <1>10, <1>11 DEF PoolCalls

\* What a call a run may send has behind it.
LEMMA SendingTracks ==
  ASSUME DriversInv, NEW d \in Runs, MayCall(d), OwnRoots(d)
  PROVE  /\ run[d].root \in knownRoots /\ (~run[d].joined => Kept(run[d].root))
         /\ Now(d).refusal => /\ run[d].root = Tree(run[d].root.leaves)
                              /\ TreeAfter(d) = run[d].root.leaves
         /\ ~Now(d).refusal =>
              /\ ToSet(Outs(d)) \subseteq ToSet(TreeAfter(d))
              /\ ~run[d].joined \/ run[d].pc > 1 =>
                   /\ run[d].root = Tree(run[d].root.leaves)
                   /\ TreeAfter(d) = run[d].root.leaves \o Outs(d)
<1>1. Busy(d) /\ InProgress(d)
  BY DEF MayCall, Busy
<1>2. /\ run[d] \in RunStates /\ Started(d) /\ run[d].pc \in 1..Len(PlanFor(d)) /\ Tracking(d)
  BY <1>1, RunFacts
<1>3. SoundStep(Now(d)) /\ Outs(d) \in Seq(RegisteredNotes) /\ run[d].tree \in Seq(RegisteredNotes)
  BY <1>2, StepFacts DEF RunStates
<1>4. Now(d).fn = "shield" => ~Now(d).refusal /\ run[d].stage = "posted"
  BY <1>3 DEF SoundStep, MayCall
<1>5. Ahead(d) <=> Now(d).fn = "shield"
  BY <1>4 DEF Ahead, MayCall
<1>6. CASE Now(d).refusal
  BY <1>1, <1>6, RefusalTracks DEF TreeAfter
<1>7. CASE Now(d).fn = "shield"
  BY <1>1, <1>2, <1>4, <1>5, <1>7 DEF Tracking, TreeAfter
<1>8. CASE ~Now(d).refusal /\ Now(d).fn # "shield"
  <2>1. TreeAfter(d) = run[d].tree \o Outs(d)
    BY <1>8 DEF TreeAfter
  <2>2. ToSet(Outs(d)) \subseteq ToSet(TreeAfter(d))
    BY <1>3, <2>1, JoinMembers
  <2> QED
    BY <1>1, <1>2, <1>5, <1>8, <2>1, <2>2 DEF Tracking
<1> QED
  BY <1>6, <1>7, <1>8

LEMMA SentMineable ==
  ASSUME DriversInv, NEW d \in Runs, MayCall(d)
  PROVE  Mineable(d, CallOf(d))
<1> DEFINE call == CallOf(d)
<1>1. InProgress(d)
  BY DEF MayCall, Busy
<1>2. run[d] \in RunStates /\ Started(d) /\ run[d].pc \in 1..Len(PlanFor(d))
  BY <1>1, RunFacts DEF MayCall
<1>3. /\ SoundStep(Now(d)) /\ Outs(d) \in Seq(RegisteredNotes)
      /\ ~Now(d).forged => Shape(Now(d).fn, Ins(d), Outs(d), 4)
      /\ \A n \in ToSet(Ins(d)) \cup ToSet(Outs(d)) : n[1] = Derivation(run[d].script)
      /\ run[d].script = "withdraw" => Now(d).fn = "withdraw"
  BY <1>2, StepFacts
<1>4. /\ call \in PoolCalls
      /\ call.fn = Now(d).fn /\ call.ins = Ins(d) /\ call.outs = Outs(d)
      /\ call.forged = Now(d).forged /\ call.asset = Asset(run[d].script)
      /\ OwnRoots(d) => call.current = run[d].root /\ call.new = Tree(TreeAfter(d))
  BY CallOfType
<1>5. TreeAfter(d) \in Seq(RegisteredNotes)
  BY CallOfType
<1> HIDE DEF call
<1>6. /\ Derivation(run[d].script) # "client"
      /\ Derivation(run[d].script) = "op" <=> Asset(run[d].script) = "ft"
      /\ run[d].script = "shield" => Derivation(run[d].script) = "shield"
  BY <1>2, DerivationIs DEF Started
<1>7. \A n \in ToSet(call.ins) \cup ToSet(call.outs) :
        n[1] # "client" /\ (n[1] = "op" <=> call.asset = "ft")
  BY <1>3, <1>4, <1>6
<1>8. ASSUME ~call.forged, call.fn # "withdraw" PROVE Declares(d, call)
  <2>1. CASE run[d].script = "shield"
    <3>1. \A n \in ToSet(call.outs) : n[1] = "shield"
      BY <1>3, <1>4, <1>6, <2>1
    <3> QED
      BY <2>1, <3>1 DEF Declares
  <2>2. CASE OwnRoots(d)
    <3>1. call.current = run[d].root /\ call.new = Tree(TreeAfter(d)) /\ call.outs = Outs(d)
      BY <1>4, <2>2
    <3>2. CASE Now(d).refusal
      <4>1. call.new \in knownRoots
        BY <2>2, <3>1, <3>2, SendingTracks
      <4> QED
        BY <4>1 DEF Declares
    <3>3. CASE ~Now(d).refusal
      <4>1. call.new.merkle /\ ToSet(call.outs) \subseteq ToSet(call.new.leaves)
        BY <1>5, <2>2, <3>1, <3>3, SendingTracks, TreeType
      <4>2. ASSUME ~run[d].joined
            PROVE  /\ call.current = Tree(call.current.leaves) /\ Kept(call.current)
                   /\ call.new = Tree(call.current.leaves \o call.outs)
        BY <2>2, <3>1, <3>3, <4>2, SendingTracks
      <4> QED
        BY <4>1, <4>2 DEF Declares
    <3> QED
      BY <3>2, <3>3
  <2> QED
    BY <1>3, <1>4, <1>8, <2>1, <2>2 DEF OwnRoots
<1>9. Mineable(d, call)
  BY <1>3, <1>4, <1>7, <1>8 DEF Mineable
<1> QED
  BY <1>9 DEF call

\* A chain that stays the same leaves a call as mineable as it was.
LEMMA MineableStays ==
  ASSUME Quiet, NEW d \in Runs, NEW call, Mineable(d, call), run'[d].call = call,
         run'[d].script = run[d].script, run'[d].joined = run[d].joined
  PROVE  Mineable(d, run[d].call)'
<1>1. Declares(d, call) => Declares(d, run[d].call)'
  <2>1. Kept(call.current) => Kept(run[d].call.current)'
    BY QuietSame DEF Kept
  <2> QED
    BY <2>1, QuietSame DEF Declares
<1> QED
  BY <1>1 DEF Mineable

LEMMA SendInv ==
  ASSUME DriversInv, NEW d \in Runs, SendCall(d)
  PROVE  DriverInv(d)' /\ run' \in [Runs -> RunStates] /\ \A e \in Runs \ {d} : run'[e] = run[e]
<1> DEFINE tree == TreeAfter(d)
           call == CallOf(d)
           seen == IF run[d].script \in {"shield", "transfer", "withdraw"}
                   THEN Readings("stx") ELSE run[d].seen
           r == [run[d] EXCEPT !.stage = "calling", !.answer = "pending", !.tree = tree,
                               !.call = call, !.seen = seen]
<1>1. Busy(d) /\ InProgress(d) /\ Quiet /\ MayCall(d)
  BY DEF SendCall, MayCall, Busy, Quiet
<1>2. /\ DriverTypes /\ Position(d) /\ Progress(d) /\ Tracking(d)
      /\ run[d] \in RunStates /\ Started(d) /\ run[d].pc \in 1..Len(PlanFor(d))
      /\ Len(PlanFor(d)) \in Nat /\ run[d].verdict = "running"
  BY <1>1, RunFacts
<1>3. run' = [run EXCEPT ![d] = r]
  BY <1>2 DEF SendCall, DriverTypes
<1>4. /\ tree \in Seq(RegisteredNotes) /\ call \in PoolCalls
      /\ call.fn = Now(d).fn /\ call.ins = Ins(d) /\ call.outs = Outs(d)
      /\ OwnRoots(d) => call.new = Tree(tree)
  BY <1>1, CallOfType
<1>5. Mineable(d, call)
  BY <1>1, SentMineable
<1>6. OwnRoots(d) =>
        /\ run[d].root \in knownRoots /\ (~run[d].joined => Kept(run[d].root))
        /\ Now(d).refusal => run[d].root = Tree(run[d].root.leaves) /\ tree = run[d].root.leaves
        /\ ~Now(d).refusal =>
             /\ ToSet(Outs(d)) \subseteq ToSet(tree)
             /\ ~run[d].joined \/ run[d].pc > 1 =>
                  run[d].root = Tree(run[d].root.leaves) /\ tree = run[d].root.leaves \o Outs(d)
  BY <1>1, SendingTracks
<1>7. seen \in SeenTotals
  BY <1>2, ReadingsType DEF DriverTypes, RunStates
<1> HIDE DEF tree, call, seen
<1>8. /\ r \in RunStates
      /\ r.script = run[d].script /\ r.seed = run[d].seed /\ r.amount = run[d].amount
      /\ r.joined = run[d].joined /\ r.verdict = run[d].verdict /\ r.pc = run[d].pc
      /\ r.root = run[d].root /\ r.refused = run[d].refused /\ r.call = call
      /\ r.answer = "pending" /\ r.stage = "calling" /\ r.tree = tree
  BY <1>2, <1>4, <1>7 DEF RunStates
<1> HIDE DEF r
<1>9. run' \in [Runs -> RunStates] /\ run'[d] = r /\ \A e \in Runs \ {d} : run'[e] = run[e]
  BY <1>2, <1>3, <1>8, OneRun
<1>10. /\ PlanFor(d)' = PlanFor(d) /\ (Started(d)' <=> Started(d)) /\ (OwnRoots(d)' <=> OwnRoots(d))
       /\ Now(d)' = Now(d) /\ Outs(d)' = Outs(d) /\ Ins(d)' = Ins(d) /\ InProgress(d)'
  BY <1>1, <1>8, <1>9, SamePlan DEF InProgress
<1>11. Position(d)'
  <2>1. SentCall(d)'
    BY <1>4, <1>8, <1>9, <1>10 DEF SentCall
  <2> QED
    BY <1>2, <1>8, <1>9, <1>10, <2>1 DEF Position
<1>12. Progress(d)'
  <2>1. \A k : TookEffect(d, k) => TookEffect(d, k)'
    BY <1>1, <1>8, <1>9, QuietGrows, StaysEffective
  <2> QED
    BY <1>1, <1>2, <1>8, <1>9, <1>10, <2>1 DEF Progress, InProgress
<1>13. Tracking(d)'
  <2>1. Ahead(d)' <=> ~Now(d).refusal
    <3>1. SoundStep(Now(d))
      BY <1>2, StepFacts
    <3> QED
      BY <1>8, <1>9, <1>10, <3>1 DEF Ahead, SoundStep
  <2>2. Kept(run[d].root) => Kept(run[d].root)'
    BY <1>1, <1>8, <1>9, QuietSame DEF Kept
  <2> SUFFICES ASSUME OwnRoots(d) PROVE Tracking(d)'
    BY <1>10 DEF Tracking
  <2>3. /\ run'[d].root = run[d].root /\ run'[d].tree = tree /\ run'[d].joined = run[d].joined
        /\ run'[d].pc = run[d].pc /\ run'[d].answer # "success"
    BY <1>8, <1>9
  <2>4. run'[d].root \in knownRoots' /\ (~run'[d].joined => Kept(run[d].root)')
    BY <1>1, <1>6, <2>2, <2>3, QuietSame
  <2>5. ~run'[d].joined \/ run'[d].pc > 1 =>
          /\ run'[d].root = Tree(run'[d].root.leaves)
          /\ run'[d].tree = IF Ahead(d)' THEN run'[d].root.leaves \o Outs(d)'
                           ELSE run'[d].root.leaves
    BY <1>6, <1>10, <2>1, <2>3
  <2>6. Ahead(d)' => ToSet(Outs(d)') \subseteq ToSet(run'[d].tree)
    BY <1>6, <1>10, <2>1, <2>3
  <2> QED
    BY <2>3, <2>4, <2>5, <2>6 DEF Tracking
<1>14. Pending(d)'
  BY <1>1, <1>5, <1>8, <1>9, MineableStays DEF Pending
<1> QED
  BY <1>9, <1>11, <1>12, <1>13, <1>14 DEF DriverInv

\* The ways a run ends.
LEMMA ThrownInv ==
  ASSUME DriversInv, NEW d \in Runs, CallAborted(d) \/ DeadlinePasses(d) \/ BroadcastThrows(d)
  PROVE  DriverInv(d)' /\ run' \in [Runs -> RunStates] /\ \A e \in Runs \ {d} : run'[e] = run[e]
<1>1. InProgress(d) /\ Quiet /\ DriverThrows(d)
  BY DEF CallAborted, DeadlinePasses, BroadcastThrows, Busy, Quiet
<1> QED
  BY <1>1, RunFacts, ThrowsInv

LEMMA FinishedInv ==
  ASSUME DriversInv, NEW d \in Runs, FinishRun(d) \/ BalanceUnread(d)
  PROVE  DriverInv(d)' /\ run' \in [Runs -> RunStates] /\ \A e \in Runs \ {d} : run'[e] = run[e]
<1>1. InProgress(d) /\ Quiet /\ run[d].pc > Len(PlanFor(d))
  BY DEF FinishRun, BalanceUnread, Quiet
<1>2. PICK v \in {"passed", "failed"} :
        /\ run' = [run EXCEPT ![d] = EndedAs(d, v)]
        /\ v = "passed" => Verdict(d)
  BY DEF FinishRun, BalanceUnread
<1>3. DriverTypes /\ DriverInv(d) /\ Progress(d) /\ Started(d)
  BY <1>1, RunFacts
<1>4. Verdict(d) => run[d].refused
  <2>1. run[d].refused \/ run[d].script \in Replaying
    BY <1>1, <1>3 DEF Progress
  <2>2. run[d].script \in {"merge", "split-merge", "api"} /\ Verdict(d) => run[d].refused
    BY DEF Verdict
  <2>3. run[d].script = "op-lifecycle" /\ Verdict(d) => run[d].refused
    BY DEF Verdict
  <2> QED
    BY <2>1, <2>2, <2>3 DEF Replaying
<1>5. DriverInv(d)'
  BY <1>1, <1>2, <1>3, <1>4, QuietGrows, EndedKept
<1>6. EndedAs(d, v) \in RunStates
  BY <1>3, EndedType
<1> QED
  BY <1>2, <1>3, <1>5, <1>6, OneRun

\* A transaction of a run that ended is mined.
LEMMA AnsweredEnded ==
  ASSUME DriverTypes, ChainGrows, NEW d \in Runs, DriverInv(d), ~InProgress(d),
         run[d].answer = "pending",
         run'[d] = [run[d] EXCEPT !.answer = "none", !.call = NoCall, !.batch = {}, !.posted = FALSE]
  PROVE  DriverInv(d)' /\ run'[d] \in RunStates
<1>1. run[d] \in RunStates
  BY DEF DriverTypes
<1>2. /\ run'[d].script = run[d].script /\ run'[d].seed = run[d].seed
      /\ run'[d].amount = run[d].amount /\ run'[d].verdict = run[d].verdict
      /\ run'[d].refused = run[d].refused /\ run'[d].answer = "none" /\ run'[d] \in RunStates
  BY <1>1 DEF RunStates
<1>3. run[d].verdict # "idle"
  BY DEF DriverInv, Position, NotStarted
<1>4. /\ PlanFor(d)' = PlanFor(d) /\ (Started(d)' <=> Started(d)) /\ ~InProgress(d)'
  BY <1>2, SamePlan DEF InProgress
<1>5. \A k : TookEffect(d, k) => TookEffect(d, k)'
  BY <1>2, StaysEffective
<1>6. Position(d)'
  BY <1>2, <1>3, <1>4 DEF DriverInv, Position
<1>7. Progress(d)'
  BY <1>2, <1>4, <1>5 DEF DriverInv, Progress
<1>8. Tracking(d)' /\ Pending(d)'
  BY <1>2, <1>4 DEF Tracking, Pending
<1> QED
  BY <1>2, <1>6, <1>7, <1>8 DEF DriverInv

-----------------------------------------------------------------------------
(***************************************************************************)
(* The steps that several runs see.                                        *)
(***************************************************************************)
LEMMA AggregateInv ==
  ASSUME DriversInv, NEW batch \in SUBSET Runs, Aggregate(batch)
  PROVE  /\ run' \in [Runs -> RunStates]
         /\ \A e \in Runs : DriverInv(e)' /\ OnlyMarked(e)
<1>1. DriverTypes /\ run \in [Runs -> RunStates] /\ Quiet
  BY DEF DriversInv, DriverTypes, Aggregate, Quiet
<1>2. ASSUME NEW e \in Runs PROVE run'[e] \in RunStates /\ OnlyMarked(e)
  <2> DEFINE r == [run[e] EXCEPT !.batch = batch, !.posted = FALSE, !.stage = "aggregated"]
  <2>1. CASE e \in batch
    <3>1. run'[e] = r /\ run[e].verdict = "running" /\ run[e].stage = "waiting"
      BY <2>1 DEF Aggregate, InProgress
    <3>2. /\ r \in RunStates
          /\ r.script = run[e].script /\ r.seed = run[e].seed /\ r.amount = run[e].amount
          /\ r.joined = run[e].joined /\ r.verdict = run[e].verdict /\ r.pc = run[e].pc
          /\ r.tree = run[e].tree /\ r.root = run[e].root /\ r.refused = run[e].refused
          /\ r.call = run[e].call /\ r.answer = run[e].answer /\ r.stage = "aggregated"
      <4>1. run[e] \in RunStates
        BY <1>1
      <4> QED
        BY <4>1 DEF RunStates
    <3> HIDE DEF r
    <3> QED
      BY <3>1, <3>2 DEF OnlyMarked
  <2>2. CASE e \notin batch
    <3>1. run'[e] = run[e]
      BY <2>2 DEF Aggregate
    <3> QED
      BY <1>1, <3>1 DEF OnlyMarked
  <2> QED
    BY <2>1, <2>2
<1>3. run' \in [Runs -> RunStates]
  BY <1>2 DEF Aggregate
<1>4. ASSUME NEW e \in Runs PROVE DriverInv(e)'
  BY <1>1, <1>2, QuietGrows, MarkedKept DEF DriversInv
<1> QED
  BY <1>2, <1>3, <1>4

\* A run whose aggregation someone posts.
LEMMA PostedMarks ==
  ASSUME DriversInv, NEW e \in Runs, run[e].batch # {},
         run'[e] = [run[e] EXCEPT !.posted = TRUE]
  PROVE  run'[e] \in RunStates /\ OnlyMarked(e)
<1>1. run[e] \in RunStates /\ Position(e)
  BY DEF DriversInv, DriverTypes, DriverInv
<1>2. run[e].verdict # "idle"
  BY <1>1 DEF Position, NotStarted
<1> DEFINE r == [run[e] EXCEPT !.posted = TRUE]
<1>3. /\ r \in RunStates
      /\ r.script = run[e].script /\ r.seed = run[e].seed /\ r.amount = run[e].amount
      /\ r.joined = run[e].joined /\ r.verdict = run[e].verdict /\ r.pc = run[e].pc
      /\ r.tree = run[e].tree /\ r.root = run[e].root /\ r.refused = run[e].refused
      /\ r.call = run[e].call /\ r.answer = run[e].answer /\ r.stage = run[e].stage
  BY <1>1 DEF RunStates
<1>4. run'[e] = r
  OBVIOUS
<1> HIDE DEF r
<1> QED
  BY <1>2, <1>3, <1>4 DEF OnlyMarked

LEMMA PublisherInv ==
  ASSUME DriversInv, NEW d \in Runs, PublisherPosts(d)
  PROVE  /\ run' \in [Runs -> RunStates]
         /\ \A e \in Runs : DriverInv(e)' /\ OnlyMarked(e)
<1>1. DriverTypes /\ run \in [Runs -> RunStates] /\ Quiet
  BY DEF DriversInv, DriverTypes, PublisherPosts, Quiet
<1>2. ASSUME NEW e \in Runs PROVE run'[e] \in RunStates /\ OnlyMarked(e)
  <2>1. CASE e \in run[d].batch /\ run[e].batch = run[d].batch
    <3>1. run'[e] = [run[e] EXCEPT !.posted = TRUE] /\ run[e].batch # {}
      BY <2>1 DEF PublisherPosts
    <3> QED
      BY <3>1, PostedMarks
  <2>2. CASE ~(e \in run[d].batch /\ run[e].batch = run[d].batch)
    <3>1. run'[e] = run[e]
      BY <2>2 DEF PublisherPosts
    <3> QED
      BY <1>1, <3>1 DEF OnlyMarked
  <2> QED
    BY <2>1, <2>2
<1>3. run' \in [Runs -> RunStates]
  BY <1>2 DEF PublisherPosts
<1>4. ASSUME NEW e \in Runs PROVE DriverInv(e)'
  BY <1>1, <1>2, QuietGrows, MarkedKept DEF DriversInv
<1> QED
  BY <1>2, <1>3, <1>4

LEMMA MinePostInv ==
  ASSUME DriversInv, NEW d \in Runs, MinePost(d)
  PROVE  /\ run' \in [Runs -> RunStates]
         /\ \A e \in Runs : /\ DriverInv(e)' /\ run'[e].script = run[e].script
                            /\ run'[e].joined = run[e].joined
<1>1. /\ DriverTypes /\ run \in [Runs -> RunStates] /\ Quiet /\ DriverInv(d) /\ Position(d)
      /\ run[d].answer = "pending" /\ run[d].call.fn = "submit-aggregation" /\ run[d] \in RunStates
  BY DEF DriversInv, DriverTypes, MinePost, Quiet, DriverInv
<1>2. ASSUME NEW e \in Runs \ {d} PROVE run'[e] \in RunStates /\ OnlyMarked(e)
  <2>1. CASE e \in run[d].batch \ {d} /\ run[e].batch = run[d].batch
    <3>1. run'[e] = [run[e] EXCEPT !.posted = TRUE] /\ run[e].batch # {}
      BY <2>1 DEF MinePost
    <3> QED
      BY <3>1, PostedMarks
  <2>2. CASE ~(e \in run[d].batch \ {d} /\ run[e].batch = run[d].batch)
    <3>1. run'[e] = run[e]
      BY <2>2 DEF MinePost
    <3> QED
      BY <1>1, <3>1 DEF OnlyMarked
  <2> QED
    BY <2>1, <2>2
<1>3. run'[d] = IF run[d].posted THEN Answered(d, "abort")
                ELSE [Answered(d, "success") EXCEPT !.posted = InProgress(d)]
  BY DEF MinePost
<1>4. /\ run'[d] \in RunStates /\ DriverInv(d)' /\ run'[d].script = run[d].script
      /\ run'[d].joined = run[d].joined
  <2>1. CASE ~InProgress(d)
    <3> DEFINE r == [run[d] EXCEPT !.answer = "none", !.call = NoCall, !.batch = {}, !.posted = FALSE]
    <3>1. Answered(d, "abort") = r /\ Answered(d, "success") = r
      BY <2>1 DEF Answered
    <3>2. [r EXCEPT !.posted = FALSE] = r /\ r.script = run[d].script /\ r.joined = run[d].joined
      BY <1>1 DEF RunStates
    <3> HIDE DEF r
    <3>3. run'[d] = r
      <4>1. InProgress(d) = FALSE
        BY <2>1 DEF InProgress
      <4> QED
        BY <1>3, <3>1, <3>2, <4>1
    <3> USE DEF r
    <3>4. DriverInv(d)' /\ run'[d] \in RunStates
      BY <1>1, <2>1, <3>3, QuietGrows, AnsweredEnded
    <3> QED
      BY <3>2, <3>3, <3>4
  <2>2. CASE InProgress(d)
    <3>1. PICK reply \in {"success", "abort"}, posted \in BOOLEAN :
            run'[d] = [run[d] EXCEPT !.answer = reply, !.posted = posted]
      <4>1. CASE run[d].posted
        <5>1. run'[d] = [run[d] EXCEPT !.answer = "abort"]
          BY <1>3, <2>2, <4>1 DEF Answered
        <5>2. run'[d] = [run[d] EXCEPT !.answer = "abort", !.posted = run[d].posted]
          BY <1>1, <5>1 DEF RunStates
        <5> QED
          BY <1>1, <5>2 DEF RunStates
      <4>2. CASE ~run[d].posted
        <5>1. run'[d] = [[run[d] EXCEPT !.answer = "success"] EXCEPT !.posted = TRUE]
          BY <1>3, <2>2, <4>2 DEF Answered
        <5>2. run'[d] = [run[d] EXCEPT !.answer = "success", !.posted = TRUE]
          BY <1>1, <5>1 DEF RunStates
        <5> QED
          BY <5>2
      <4> QED
        BY <4>1, <4>2
    <3> DEFINE r == [run[d] EXCEPT !.answer = reply, !.posted = posted]
    <3>2. /\ r \in RunStates
          /\ r.script = run[d].script /\ r.seed = run[d].seed /\ r.amount = run[d].amount
          /\ r.joined = run[d].joined /\ r.verdict = run[d].verdict /\ r.pc = run[d].pc
          /\ r.tree = run[d].tree /\ r.root = run[d].root /\ r.refused = run[d].refused
          /\ r.stage = run[d].stage /\ r.call = run[d].call
      BY <1>1 DEF RunStates
    <3>3. run'[d] = r
      BY <3>1
    <3> HIDE DEF r
    <3>4. run[d].stage = "posting" /\ run[d].call = PostCall
      <4>1. run[d].stage \in {"posting", "calling"}
        BY <1>1, <2>2 DEF Position
      <4>2. ~SentCall(d)
        BY <1>1 DEF SentCall, PoolCalls, Fns
      <4> QED
        BY <1>1, <2>2, <4>1, <4>2 DEF Position
    <3>5. Busy(d)
      BY <1>1, <2>2, <3>4 DEF Position, Busy
    <3>6. DriverInv(d)'
      BY <1>1, <3>2, <3>3, <3>4, <3>5, PostingInv
    <3> QED
      BY <3>2, <3>3, <3>6
  <2> QED
    BY <2>1, <2>2
<1>5. run' \in [Runs -> RunStates]
  BY <1>2, <1>4 DEF MinePost
<1>6. ASSUME NEW e \in Runs \ {d} PROVE DriverInv(e)'
  BY <1>1, <1>2, QuietGrows, MarkedKept DEF DriversInv
<1> QED
  BY <1>2, <1>4, <1>5, <1>6 DEF OnlyMarked

-----------------------------------------------------------------------------
(***************************************************************************)
(* What an accepted call makes of the pools.                               *)
(***************************************************************************)
LEMMA FewMembers ==
  ASSUME NEW T, NEW s \in Seq(T)
  PROVE  /\ Len(s) = 0 => ToSet(s) = {}
         /\ Len(s) = 1 => ToSet(s) = {s[1]} /\ s[1] \in T
         /\ Len(s) = 2 => ToSet(s) = {s[1], s[2]} /\ s[1] \in T /\ s[2] \in T
<1>1. DOMAIN s = 1..Len(s) /\ \A i \in 1..Len(s) : s[i] \in T
  OBVIOUS
<1>2. ToSet(s) = {s[i] : i \in 1..Len(s)}
  BY <1>1 DEF ToSet
<1>3. Len(s) = 0 => ToSet(s) = {}
  BY <1>2
<1>4. Len(s) = 1 => ToSet(s) = {s[1]} /\ s[1] \in T
  <2>1. 1..1 = {1}
    OBVIOUS
  <2> QED
    BY <1>1, <1>2, <2>1
<1>5. Len(s) = 2 => ToSet(s) = {s[1], s[2]} /\ s[1] \in T /\ s[2] \in T
  <2>1. 1..2 = {1, 2}
    OBVIOUS
  <2> QED
    BY <1>1, <1>2, <2>1
<1> QED
  BY <1>3, <1>4, <1>5

LEMMA WorthMoves ==
  ASSUME NEW S, S \subseteq RegisteredNotes, IsFiniteSet(S), NEW fn,
         NEW ins \in Seq(RegisteredNotes), NEW outs \in Seq(RegisteredNotes),
         Shape(fn, ins, outs, 4), ToSet(ins) \subseteq S, ToSet(outs) \intersect S = {}
  PROVE  LET after == (S \ ToSet(ins)) \cup ToSet(outs) IN
         Worth(after) = CASE fn = "shield"   -> Worth(S) + outs[1][4]
                          [] fn = "withdraw" -> Worth(S) - ins[1][4]
                          [] OTHER -> Worth(S)
<1> DEFINE after == (S \ ToSet(ins)) \cup ToSet(outs)
<1>1. \A n \in RegisteredNotes : n[4] \in Nat
  BY DEF RegisteredNotes
<1>2. ASSUME NEW n \in RegisteredNotes, n \notin S
      PROVE  /\ Worth(S) \in Nat /\ Worth(S \cup {n}) = Worth(S) + n[4]
             /\ S \cup {n} \subseteq RegisteredNotes /\ IsFiniteSet(S \cup {n})
  BY <1>2, WorthChange, FS_AddElement
<1>3. ASSUME NEW n \in S
      PROVE  /\ Worth(S) \in Nat /\ Worth(S \ {n}) = Worth(S) - n[4]
             /\ S \ {n} \subseteq RegisteredNotes /\ IsFiniteSet(S \ {n})
  BY WorthChange, FS_RemoveElement
<1>4. CASE fn = "shield"
  <2>1. ToSet(ins) = {} /\ ToSet(outs) = {outs[1]} /\ outs[1] \in RegisteredNotes
    BY <1>4, FewMembers DEF Shape
  <2>2. after = S \cup {outs[1]} /\ outs[1] \notin S
    BY <2>1
  <2> QED
    BY <1>2, <1>4, <2>1, <2>2
<1>5. CASE fn = "withdraw"
  <2>1. ToSet(outs) = {} /\ ToSet(ins) = {ins[1]}
    BY <1>5, FewMembers DEF Shape
  <2>2. after = S \ {ins[1]} /\ ins[1] \in S
    BY <2>1
  <2> QED
    BY <1>3, <1>5, <2>2
<1>6. CASE fn = "transfer"
  <2>1. /\ ToSet(ins) = {ins[1]} /\ ToSet(outs) = {outs[1]} /\ outs[1] \in RegisteredNotes
        /\ ins[1][4] = outs[1][4]
    BY <1>6, FewMembers DEF Shape
  <2> DEFINE rest == S \ {ins[1]}
  <2>2. /\ ins[1] \in S /\ Worth(S) \in Nat /\ Worth(rest) = Worth(S) - ins[1][4]
        /\ rest \subseteq RegisteredNotes /\ IsFiniteSet(rest)
    BY <1>3, <2>1
  <2>3. after = rest \cup {outs[1]} /\ outs[1] \notin rest
    BY <2>1
  <2> HIDE DEF rest
  <2>4. Worth(rest \cup {outs[1]}) = Worth(rest) + outs[1][4]
    BY <2>1, <2>2, <2>3, WorthChange
  <2>5. Worth(after) = Worth(rest) + outs[1][4]
    BY <2>3, <2>4
  <2>6. outs[1][4] \in Nat
    BY <1>1, <2>1
  <2>7. Worth(after) = Worth(S)
    BY <2>1, <2>2, <2>5, <2>6
  <2> QED
    BY <1>6, <2>7
<1>7. CASE fn = "split"
  <2>1. /\ ToSet(ins) = {ins[1]} /\ ToSet(outs) = {outs[1], outs[2]} /\ outs[1] # outs[2]
        /\ outs[1] \in RegisteredNotes /\ outs[2] \in RegisteredNotes
        /\ ins[1][4] = outs[1][4] + outs[2][4]
    BY <1>7, FewMembers DEF Shape
  <2> DEFINE rest == S \ {ins[1]}
             more == rest \cup {outs[1]}
  <2>2. /\ ins[1] \in S /\ Worth(S) \in Nat /\ Worth(rest) = Worth(S) - ins[1][4]
        /\ rest \subseteq RegisteredNotes /\ IsFiniteSet(rest)
    BY <1>3, <2>1
  <2>3. outs[1] \notin rest
    BY <2>1
  <2>4. after = more \cup {outs[2]} /\ outs[2] \notin more
    BY <2>1
  <2> HIDE DEF rest
  <2>5. /\ Worth(more) = Worth(rest) + outs[1][4]
        /\ more \subseteq RegisteredNotes /\ IsFiniteSet(more)
    BY <2>1, <2>2, <2>3, WorthChange, FS_AddElement
  <2> HIDE DEF more
  <2>6. Worth(more \cup {outs[2]}) = Worth(more) + outs[2][4]
    BY <2>1, <2>4, <2>5, WorthChange
  <2>7. Worth(after) = Worth(more) + outs[2][4]
    BY <2>4, <2>6
  <2>8. outs[1][4] \in Nat /\ outs[2][4] \in Nat
    BY <1>1, <2>1
  <2>9. Worth(after) = Worth(S)
    BY <2>1, <2>2, <2>5, <2>7, <2>8
  <2> QED
    BY <1>7, <2>9
<1>8. CASE fn = "merge"
  <2>1. /\ ToSet(ins) = {ins[1], ins[2]} /\ ToSet(outs) = {outs[1]} /\ ins[1] # ins[2]
        /\ outs[1] \in RegisteredNotes /\ outs[1][4] = ins[1][4] + ins[2][4]
    BY <1>8, FewMembers DEF Shape
  <2> DEFINE rest == S \ {ins[1]}
             less == rest \ {ins[2]}
  <2>2. /\ ins[1] \in S /\ Worth(S) \in Nat /\ Worth(rest) = Worth(S) - ins[1][4]
        /\ rest \subseteq RegisteredNotes /\ IsFiniteSet(rest) /\ ins[2] \in rest
        /\ ins[1] \in RegisteredNotes /\ ins[2] \in RegisteredNotes
    BY <1>3, <2>1
  <2>3. after = less \cup {outs[1]} /\ outs[1] \notin less
    BY <2>1
  <2> HIDE DEF rest
  <2>4. /\ Worth(less) = Worth(rest) - ins[2][4]
        /\ less \subseteq RegisteredNotes /\ IsFiniteSet(less)
    BY <2>2, WorthChange, FS_RemoveElement
  <2> HIDE DEF less
  <2>5. Worth(less \cup {outs[1]}) = Worth(less) + outs[1][4]
    BY <2>1, <2>3, <2>4, WorthChange
  <2>6. Worth(after) = Worth(less) + outs[1][4]
    BY <2>3, <2>5
  <2>7. ins[1][4] \in Nat /\ ins[2][4] \in Nat
    BY <1>1, <2>2
  <2>8. Worth(after) = Worth(S)
    BY <2>1, <2>2, <2>4, <2>6, <2>7
  <2> QED
    BY <1>8, <2>8
<1> QED
  BY <1>4, <1>5, <1>6, <1>7, <1>8 DEF Shape

\* An accepted call: it spends unspent notes, makes new ones, and keeps the value.
SoundCall(call) ==
  /\ call.fn \in Fns /\ call.asset \in {"stx", "ft"} /\ call.new \in RootSet
  /\ call.ins \in Seq(RegisteredNotes) /\ call.outs \in Seq(RegisteredNotes)
  /\ Shape(call.fn, call.ins, call.outs, 4)
  /\ ToSet(call.ins) \subseteq ToSet(commitments) \ spent
  /\ ToSet(call.outs) \intersect ToSet(commitments) = {}
  /\ \A n \in ToSet(call.ins) \cup ToSet(call.outs) : n[1] = "op" <=> call.asset = "ft"

LEMMA EffectIs ==
  ASSUME ChainTotals, NEW call, SoundCall(call), Effect(call)
  PROVE  /\ commitments' = commitments \o call.outs /\ commitments' \in Seq(RegisteredNotes)
         /\ ToSet(commitments') = ToSet(commitments) \cup ToSet(call.outs)
         /\ spent' = spent \cup ToSet(call.ins) /\ spent' \subseteq ToSet(commitments')
         /\ liveRoot' \in RootSet
         /\ call.fn = "withdraw" => /\ liveRoot' = liveRoot /\ knownRoots' = knownRoots
                                    /\ commitments' = commitments
         /\ call.fn # "withdraw" => /\ liveRoot' = call.new
                                    /\ knownRoots' = knownRoots \cup {call.new}
                                    /\ commitments' # <<>>
         /\ shielded' \in [{"stx", "ft"} -> Int] /\ carol' \in Int
<1>1. /\ commitments \in Seq(RegisteredNotes) /\ call.outs \in Seq(RegisteredNotes)
      /\ call.ins \in Seq(RegisteredNotes) /\ spent \subseteq ToSet(commitments)
      /\ shielded \in [{"stx", "ft"} -> Int] /\ carol \in Int /\ liveRoot \in RootSet
  BY DEF ChainTotals, SoundCall
<1>2. commitments' = commitments \o call.outs /\ spent' = spent \cup ToSet(call.ins)
  BY DEF Effect
<1>3. /\ commitments' \in Seq(RegisteredNotes)
      /\ ToSet(commitments') = ToSet(commitments) \cup ToSet(call.outs)
  BY <1>1, <1>2, JoinMembers
<1>4. spent' \subseteq ToSet(commitments')
  BY <1>1, <1>2, <1>3 DEF SoundCall
<1>5. ASSUME call.fn = "withdraw"
      PROVE  liveRoot' = liveRoot /\ knownRoots' = knownRoots /\ commitments' = commitments
  <2>1. Len(call.outs) = 0
    BY <1>5 DEF SoundCall, Shape
  <2>2. commitments \o call.outs = commitments
    BY <1>1, <2>1
  <2> QED
    BY <1>2, <1>5, <2>2 DEF Effect
<1>6. ASSUME call.fn # "withdraw"
      PROVE  liveRoot' = call.new /\ knownRoots' = knownRoots \cup {call.new} /\ commitments' # <<>>
  <2>1. Len(call.outs) > 0
    BY <1>6 DEF SoundCall, Shape
  <2>2. Len(commitments \o call.outs) > 0
    BY <1>1, <2>1
  <2> QED
    BY <1>2, <1>6, <2>2 DEF Effect
<1>7. call.new \in RootSet
  BY DEF SoundCall
<1>8. \A n \in RegisteredNotes : n[4] \in Nat
  BY DEF RegisteredNotes
<1>9. /\ call.fn = "shield" => call.outs[1][4] \in Nat
      /\ call.fn = "withdraw" => call.ins[1][4] \in Nat
  <2>1. ASSUME call.fn = "shield" PROVE call.outs[1] \in RegisteredNotes
    BY <1>1, <2>1, FewMembers DEF SoundCall, Shape
  <2>2. ASSUME call.fn = "withdraw" PROVE call.ins[1] \in RegisteredNotes
    BY <1>1, <2>2, FewMembers DEF SoundCall, Shape
  <2> QED
    BY <1>8, <2>1, <2>2
<1>10. carol' \in Int
  BY <1>1, <1>9 DEF Effect
<1>11. shielded' \in [{"stx", "ft"} -> Int]
  <2> DEFINE asset == call.asset
             now == CASE call.fn = "shield"   -> shielded[asset] + call.outs[1][4]
                      [] call.fn = "withdraw" -> shielded[asset] - call.ins[1][4]
                      [] OTHER -> shielded[asset]
  <2>1. shielded' = [shielded EXCEPT ![asset] = now]
    BY DEF Effect
  <2>2. shielded[asset] \in Int
    BY <1>1 DEF SoundCall
  <2>3. now \in Int
    BY <1>9, <2>2
  <2> HIDE DEF now
  <2> QED
    BY <1>1, <2>1, <2>3
<1> QED
  BY <1>1, <1>2, <1>3, <1>4, <1>5, <1>6, <1>7, <1>10, <1>11

LEMMA EffectBalances ==
  ASSUME ChainTotals, NEW call, SoundCall(call), Effect(call),
         \A asset \in {"stx", "ft"} : shielded[asset] = Worth(OnAsset(asset))
  PROVE  \A asset \in {"stx", "ft"} : shielded'[asset] = Worth(OnAsset(asset)')
<1> DEFINE ins == ToSet(call.ins)
           outs == ToSet(call.outs)
           here == call.asset
           all == ToSet(commitments)
<1>1. /\ ToSet(commitments') = all \cup outs /\ spent' = spent \cup ins
      /\ shielded \in [{"stx", "ft"} -> Int]
  BY EffectIs DEF ChainTotals
<1>2. /\ ins \subseteq all \ spent /\ outs \intersect all = {} /\ here \in {"stx", "ft"}
      /\ \A n \in ins \cup outs : n[1] = "op" <=> here = "ft"
      /\ spent \subseteq all
  BY DEF SoundCall, ChainTotals
<1>3. shielded' = [shielded EXCEPT ![here] =
        CASE call.fn = "shield"   -> @ + call.outs[1][4]
          [] call.fn = "withdraw" -> @ - call.ins[1][4]
          [] OTHER -> @]
  BY DEF Effect
<1>4. \A asset : OnAsset(asset) = {n \in all \ spent : (n[1] = "op") = (asset = "ft")}
  BY DEF OnAsset
<1>5. \A asset : OnAsset(asset)' =
        {n \in (all \cup outs) \ (spent \cup ins) : (n[1] = "op") = (asset = "ft")}
  BY <1>1 DEF OnAsset
<1> HIDE DEF ins, outs, all
<1>6. ASSUME NEW asset \in {"stx", "ft"}, asset # here
      PROVE  shielded'[asset] = Worth(OnAsset(asset)')
  <2>1. \A n \in ins \cup outs : ~((n[1] = "op") = (asset = "ft"))
    BY <1>2, <1>6
  <2>2. OnAsset(asset)' = OnAsset(asset)
    BY <1>2, <1>4, <1>5, <2>1
  <2>3. shielded'[asset] = shielded[asset]
    BY <1>1, <1>3, <1>6
  <2> QED
    BY <2>2, <2>3
<1>7. shielded'[here] = Worth(OnAsset(here)')
  <2> DEFINE S == OnAsset(here)
  <2>1. \A n \in ins \cup outs : (n[1] = "op") = (here = "ft")
    BY <1>2
  <2>2. OnAsset(here)' = (S \ ins) \cup outs /\ ins \subseteq S /\ outs \intersect S = {}
    BY <1>2, <1>4, <1>5, <2>1
  <2>3. S \subseteq RegisteredNotes /\ IsFiniteSet(S)
    <3>1. all \subseteq RegisteredNotes
      BY DEF ChainTotals, ToSet, all
    <3>2. IsFiniteSet(all)
      BY RegisteredFinite DEF all
    <3>3. S \subseteq all
      BY <1>4
    <3> QED
      BY <3>1, <3>2, <3>3, FS_Subset
  <2> HIDE DEF S
  <2>4. /\ call.ins \in Seq(RegisteredNotes) /\ call.outs \in Seq(RegisteredNotes)
        /\ Shape(call.fn, call.ins, call.outs, 4)
    BY DEF SoundCall
  <2>5. Worth((S \ ins) \cup outs) = CASE call.fn = "shield"   -> Worth(S) + call.outs[1][4]
                                       [] call.fn = "withdraw" -> Worth(S) - call.ins[1][4]
                                       [] OTHER -> Worth(S)
    BY <2>2, <2>3, <2>4, WorthMoves DEF ins, outs
  <2>6. shielded[here] = Worth(S)
    BY <1>2 DEF S
  <2>7. shielded'[here] = CASE call.fn = "shield"   -> shielded[here] + call.outs[1][4]
                            [] call.fn = "withdraw" -> shielded[here] - call.ins[1][4]
                            [] OTHER -> shielded[here]
    BY <1>1, <1>2, <1>3
  <2> QED
    BY <2>2, <2>5, <2>6, <2>7
<1> QED
  BY <1>6, <1>7

\* A step that leaves the chain alone, and the run that declared the live root.
LEMMA QuietChain ==
  ASSUME DriversInv, Quiet,
         \A e \in Runs : run[e].joined \/ run[e].script = "shield" =>
           run'[e].joined = run[e].joined /\ run'[e].script = run[e].script
  PROVE  ChainTotals' /\ ChainInv'
<1>1. ChainTotals /\ ChainInv
  BY DEF DriversInv, DriverTypes
<1>2. ChainTotals'
  BY <1>1 DEF ChainTotals, Quiet, poolVars
<1>3. \A asset : OnAsset(asset)' = OnAsset(asset)
  BY DEF OnAsset, Quiet, poolVars
<1>4. \A asset \in {"stx", "ft"} : shielded'[asset] = Worth(OnAsset(asset)')
  BY <1>1, <1>3 DEF ChainInv, Quiet, poolVars
<1>5. (\A asset \in {"stx", "ft"} : shielded[asset] = Worth(OnAsset(asset)))'
  BY <1>4
<1> QED
  BY <1>1, <1>2, <1>5 DEF ChainInv, Quiet, poolVars

-----------------------------------------------------------------------------
(***************************************************************************)
(* A call of a run is mined.                                               *)
(***************************************************************************)
LEMMA AnsweredInv ==
  ASSUME DriversInv, ChainGrows, NEW d \in Runs, InProgress(d), run[d].stage = "calling",
         NEW reply \in {"success", "abort"}, run'[d] = [run[d] EXCEPT !.answer = reply],
         reply = "success" => /\ ToSet(Ins(d)) \subseteq spent'
                               /\ ToSet(Outs(d)) \subseteq ToSet(commitments'),
         reply = "success" /\ OwnRoots(d) /\ Now(d).fn # "withdraw" =>
           /\ run[d].call.new \in knownRoots'
           /\ ~run[d].joined => run[d].call.new = Tree(commitments')
  PROVE  DriverInv(d)' /\ run'[d] \in RunStates
<1>1. /\ DriverTypes /\ Position(d) /\ Progress(d) /\ Tracking(d) /\ run[d] \in RunStates
      /\ run[d].verdict = "running"
  BY RunFacts
<1>2. /\ run'[d].script = run[d].script /\ run'[d].seed = run[d].seed
      /\ run'[d].amount = run[d].amount /\ run'[d].joined = run[d].joined
      /\ run'[d].verdict = run[d].verdict /\ run'[d].pc = run[d].pc
      /\ run'[d].tree = run[d].tree /\ run'[d].root = run[d].root
      /\ run'[d].refused = run[d].refused /\ run'[d].call = run[d].call
      /\ run'[d].stage = run[d].stage /\ run'[d].answer = reply
      /\ run'[d] \in RunStates
  BY <1>1 DEF RunStates
<1>3. /\ PlanFor(d)' = PlanFor(d) /\ (Started(d)' <=> Started(d)) /\ (OwnRoots(d)' <=> OwnRoots(d))
      /\ Now(d)' = Now(d) /\ Ins(d)' = Ins(d) /\ Outs(d)' = Outs(d) /\ InProgress(d)'
  BY <1>2, SamePlan DEF InProgress
<1>4. Position(d)'
  <2>1. SentCall(d) => SentCall(d)'
    BY <1>2, <1>3 DEF SentCall
  <2> QED
    BY <1>1, <1>2, <1>3, <2>1 DEF Position
<1>5. Progress(d)'
  <2>1. \A k : TookEffect(d, k) => TookEffect(d, k)'
    BY <1>2, StaysEffective
  <2>2. reply = "success" => TookEffect(d, run[d].pc)'
    BY <1>2, <1>3 DEF TookEffect, Ins, Outs
  <2> QED
    BY <1>1, <1>2, <1>3, <2>1, <2>2 DEF Progress, InProgress
<1>6. Tracking(d)'
  <2> SUFFICES ASSUME OwnRoots(d) PROVE Tracking(d)'
    BY <1>3 DEF Tracking
  <2>1. Ahead(d)' <=> Ahead(d)
    BY <1>2, <1>3 DEF Ahead
  <2>2. Kept(run[d].root) => Kept(run[d].root)'
    BY <1>2, KeptPrime DEF Kept
  <2>3. run'[d].root \in knownRoots'
    BY <1>1, <1>2 DEF Tracking, ChainGrows
  <2>4. reply = "success" /\ Now(d).fn # "withdraw" =>
          /\ run'[d].call.new \in knownRoots'
          /\ ~run'[d].joined => Kept(run[d].call.new)'
    BY <1>2 DEF Kept
  <2> QED
    BY <1>1, <1>2, <1>3, <2>1, <2>2, <2>3, <2>4 DEF Tracking
<1>7. Pending(d)'
  BY <1>2 DEF Pending
<1> QED
  BY <1>2, <1>4, <1>5, <1>6, <1>7 DEF DriverInv

\* What the registry takes is sound, and keeps its root the tree it holds unless
\* the run that declares it joined a registry in use or is e2e-shield.
LEMMA AcceptedCall ==
  ASSUME DriversInv, NEW d \in Runs, run[d].answer = "pending",
         run[d].call.fn # "submit-aggregation", PoolAccepts(run[d].call), Effect(run[d].call)
  PROVE  /\ SoundCall(run[d].call) /\ Mineable(d, run[d].call) /\ ChainGrows
         /\ run[d].call.fn # "withdraw" /\ ~run[d].joined /\ run[d].script # "shield" =>
              run[d].call.new = Tree(commitments')
<1> DEFINE call == run[d].call
<1>1. ChainTotals /\ Pending(d)
  BY DEF DriversInv, DriverTypes, DriverInv
<1>2. Mineable(d, call)
  BY <1>1 DEF Pending, PostCall
<1>3. PoolAccepts(call) /\ Effect(call)
  OBVIOUS
<1> HIDE DEF call
<1>4. call \in PoolCalls /\ ~call.forged /\ Shape(call.fn, call.ins, call.outs, 4)
  BY <1>2, <1>3 DEF Mineable, PoolAccepts
<1>5. ToSet(call.outs) \intersect ToSet(commitments) = {}
  <2>1. ASSUME call.fn = "withdraw" PROVE ToSet(call.outs) = {}
    BY <1>4, <2>1, FewMembers DEF Shape, PoolCalls
  <2> QED
    BY <1>3, <2>1 DEF PoolAccepts
<1>6. SoundCall(call)
  BY <1>2, <1>3, <1>4, <1>5 DEF SoundCall, PoolCalls, Mineable, PoolAccepts
<1>7. /\ ToSet(commitments') = ToSet(commitments) \cup ToSet(call.outs)
      /\ spent' = spent \cup ToSet(call.ins) /\ commitments' = commitments \o call.outs
      /\ call.fn = "withdraw" => /\ liveRoot' = liveRoot /\ knownRoots' = knownRoots
                                 /\ commitments' = commitments
      /\ call.fn # "withdraw" => /\ liveRoot' = call.new
                                 /\ knownRoots' = knownRoots \cup {call.new}
  BY <1>1, <1>3, <1>6, EffectIs
<1>8. call.fn # "withdraw" => call.new \notin knownRoots /\ call.current = liveRoot
  BY <1>3 DEF PoolAccepts
<1>9. ChainGrows
  BY <1>7, <1>8 DEF ChainGrows
<1>10. ASSUME call.fn # "withdraw", ~run[d].joined, run[d].script # "shield"
       PROVE  call.new = Tree(commitments')
  <2>1. /\ call.current = Tree(call.current.leaves) /\ Kept(call.current)
        /\ call.new = Tree(call.current.leaves \o call.outs)
    BY <1>2, <1>4, <1>8, <1>10 DEF Mineable, Declares
  <2>2. call.current = Tree(commitments)
    BY <1>8, <1>10, <2>1 DEF Kept
  <2>3. call.current.leaves = commitments
    BY <2>2 DEF Tree
  <2> QED
    BY <1>7, <2>1, <2>3
<1> QED
  BY <1>2, <1>6, <1>9, <1>10 DEF call

LEMMA AcceptedChain ==
  ASSUME DriversInv, NEW d \in Runs, run[d].answer = "pending",
         run[d].call.fn # "submit-aggregation", PoolAccepts(run[d].call), Effect(run[d].call),
         mover' = IF run[d].call.fn = "withdraw" THEN mover ELSE d,
         minShield' = minShield, clientOps' = clientOps,
         \A e \in Runs : run'[e].joined = run[e].joined /\ run'[e].script = run[e].script
  PROVE  ChainTotals' /\ ChainInv'
<1> DEFINE call == run[d].call
<1>1. ChainTotals /\ ChainInv
  BY DEF DriversInv, DriverTypes
<1>2. /\ SoundCall(call) /\ Mineable(d, call) /\ ChainGrows
      /\ call.fn # "withdraw" /\ ~run[d].joined /\ run[d].script # "shield" =>
           call.new = Tree(commitments')
  BY AcceptedCall
<1>3. PoolAccepts(call) /\ Effect(call) /\ mover' = IF call.fn = "withdraw" THEN mover ELSE d
  OBVIOUS
<1> HIDE DEF call
<1>4. /\ commitments' \in Seq(RegisteredNotes)
      /\ ToSet(commitments') = ToSet(commitments) \cup ToSet(call.outs)
      /\ spent' = spent \cup ToSet(call.ins) /\ spent' \subseteq ToSet(commitments')
      /\ liveRoot' \in RootSet
      /\ call.fn = "withdraw" => /\ liveRoot' = liveRoot /\ knownRoots' = knownRoots
                                 /\ commitments' = commitments
      /\ call.fn # "withdraw" => /\ liveRoot' = call.new
                                 /\ knownRoots' = knownRoots \cup {call.new}
                                 /\ commitments' # <<>>
      /\ shielded' \in [{"stx", "ft"} -> Int] /\ carol' \in Int
  BY <1>1, <1>2, <1>3, EffectIs
<1>5. ChainTotals'
  BY <1>1, <1>4 DEF ChainTotals
<1>6. liveRoot' \in knownRoots'
  BY <1>1, <1>4 DEF ChainInv
<1>7. commitments' = <<>> => liveRoot' = Genesis
  BY <1>1, <1>4 DEF ChainInv
<1>8. liveRoot' # Tree(commitments') =>
        \E e \in Runs : mover' = e /\ (run'[e].joined \/ run'[e].script = "shield")
  <2>1. CASE call.fn = "withdraw"
    BY <1>1, <1>3, <1>4, <2>1 DEF ChainInv
  <2>2. CASE call.fn # "withdraw"
    BY <1>2, <1>3, <1>4, <2>2
  <2> QED
    BY <2>1, <2>2
<1>9. \A n \in ToSet(commitments') : n[1] = "client" => n[3] <= clientOps'
  BY <1>1, <1>2, <1>4 DEF ChainInv, Mineable
<1>10. \A n \in ToSet(commitments') \ spent' :
         \/ n[1] = "shield"
         \/ \E root \in knownRoots' : root.merkle /\ n \in ToSet(root.leaves)
  <2> SUFFICES ASSUME NEW n \in ToSet(commitments') \ spent', n[1] # "shield"
               PROVE  \E root \in knownRoots' : root.merkle /\ n \in ToSet(root.leaves)
    OBVIOUS
  <2>1. CASE n \in ToSet(commitments)
    BY <1>1, <1>4, <2>1 DEF ChainInv
  <2>2. CASE n \in ToSet(call.outs)
    <3>1. call.fn # "withdraw"
      BY <1>2, <2>2, FewMembers DEF SoundCall, Shape
    <3>2. ~call.forged /\ call.new \notin knownRoots
      BY <1>3, <3>1 DEF PoolAccepts
    <3>3. call.new.merkle /\ n \in ToSet(call.new.leaves)
      BY <1>2, <2>2, <3>1, <3>2 DEF Mineable, Declares
    <3> QED
      BY <1>4, <3>1, <3>3
  <2> QED
    BY <1>4, <2>1, <2>2
<1>11. \A asset \in {"stx", "ft"} : shielded'[asset] = Worth(OnAsset(asset)')
  BY <1>1, <1>2, <1>3, EffectBalances DEF ChainInv
<1>12. (\A asset \in {"stx", "ft"} : shielded[asset] = Worth(OnAsset(asset)))'
  BY <1>11
<1> QED
  BY <1>5, <1>6, <1>7, <1>8, <1>9, <1>10, <1>12 DEF ChainInv

LEMMA MineCallInv ==
  ASSUME DriversInv, NEW d \in Runs, MineCall(d)
  PROVE  DriversInv'
<1> DEFINE call == run[d].call
<1>1. /\ DriverTypes /\ run \in [Runs -> RunStates] /\ run[d] \in RunStates
      /\ DriverInv(d) /\ Position(d)
      /\ run[d].answer = "pending" /\ call.fn # "submit-aggregation"
  BY DEF DriversInv, DriverTypes, MineCall, DriverInv
<1>2. InProgress(d) => run[d].stage = "calling" /\ SentCall(d)
  BY <1>1 DEF Position, PostCall
<1>3. PICK reply \in {"success", "abort"} :
        /\ run' = [run EXCEPT ![d] = Answered(d, reply)]
        /\ reply = "success" =>
             /\ PoolAccepts(call) /\ Effect(call) /\ minShield' = minShield /\ clientOps' = clientOps
             /\ mover' = IF call.fn = "withdraw" THEN mover ELSE d
        /\ reply = "abort" => Quiet
  BY DEF MineCall, Quiet
<1>4. run'[d] = Answered(d, reply) /\ \A e \in Runs \ {d} : run'[e] = run[e]
  BY <1>1, <1>3
<1>5. ChainGrows
  BY <1>1, <1>3, AcceptedCall, QuietGrows
<1>6. DriverInv(d)' /\ run'[d] \in RunStates
  <2>1. CASE ~InProgress(d)
    <3>1. run'[d] = [run[d] EXCEPT !.answer = "none", !.call = NoCall, !.batch = {}, !.posted = FALSE]
      BY <1>4, <2>1 DEF Answered
    <3> QED
      BY <1>1, <1>5, <2>1, <3>1, AnsweredEnded
  <2>2. CASE InProgress(d)
    <3>1. run'[d] = [run[d] EXCEPT !.answer = reply]
      BY <1>4, <2>2 DEF Answered
    <3>2. call.ins = Ins(d) /\ call.outs = Outs(d) /\ call.fn = Now(d).fn
      BY <1>2, <2>2 DEF SentCall
    <3>3. ASSUME reply = "success"
          PROVE  /\ ToSet(Ins(d)) \subseteq spent' /\ ToSet(Outs(d)) \subseteq ToSet(commitments')
                 /\ OwnRoots(d) /\ Now(d).fn # "withdraw" =>
                      call.new \in knownRoots' /\ (~run[d].joined => call.new = Tree(commitments'))
      <4>1. SoundCall(call) /\ ChainTotals
        BY <1>1, <1>3, <3>3, AcceptedCall DEF DriverTypes
      <4>2. /\ ToSet(commitments') = ToSet(commitments) \cup ToSet(call.outs)
            /\ spent' = spent \cup ToSet(call.ins)
            /\ call.fn # "withdraw" => knownRoots' = knownRoots \cup {call.new}
        BY <1>3, <3>3, <4>1, EffectIs
      <4>3. call.fn # "withdraw" /\ ~run[d].joined /\ run[d].script # "shield" =>
              call.new = Tree(commitments')
        BY <1>1, <1>3, <3>3, AcceptedCall
      <4> HIDE DEF call
      <4> QED
        BY <3>2, <4>2, <4>3 DEF OwnRoots
    <3> QED
      BY <1>2, <1>5, <2>2, <3>1, <3>3, AnsweredInv
  <2> QED
    BY <2>1, <2>2
<1>7. run' \in [Runs -> RunStates]
  BY <1>1, <1>3, <1>4, <1>6
<1>8. ASSUME NEW e \in Runs PROVE DriverInv(e)'
  BY <1>1, <1>4, <1>5, <1>6, OthersSame DEF DriversInv
<1>9. \A e \in Runs : run'[e].joined = run[e].joined /\ run'[e].script = run[e].script
  <2>1. run'[d].joined = run[d].joined /\ run'[d].script = run[d].script
    BY <1>1, <1>4 DEF Answered, RunStates
  <2> QED
    BY <1>4, <2>1
<1>10. ChainTotals' /\ ChainInv'
  <2>1. CASE reply = "success"
    BY <1>1, <1>3, <1>9, <2>1, AcceptedChain
  <2>2. CASE reply = "abort"
    BY <1>3, <1>9, <2>2, QuietChain
  <2> QED
    BY <2>1, <2>2
<1> QED
  BY <1>7, <1>8, <1>10 DEF DriversInv, DriverTypes

-----------------------------------------------------------------------------
(***************************************************************************)
(* The wallets.                                                            *)
(***************************************************************************)
LEMMA WalletInv ==
  ASSUME DriversInv, NEW call, NEW fn \in {"shield", "transfer"}, NEW ins \in Seq(RegisteredNotes),
         call = [fn |-> fn, ins |-> ins, outs |-> <<ClientNote(clientOps + 1)>>,
                 asset |-> "stx", new |-> ClientTree],
         clientOps < MaxClientOps, Effect(call),
         Shape(fn, ins, <<ClientNote(clientOps + 1)>>, 4),
         ToSet(ins) \subseteq ToSet(commitments) \ spent,
         \A n \in ToSet(ins) : n[1] = "client",
         clientOps' = clientOps + 1, minShield' = minShield, run' = run
  PROVE  DriversInv'
<1> DEFINE note == ClientNote(clientOps + 1)
<1>1. ChainTotals /\ ChainInv /\ run \in [Runs -> RunStates] /\ DriverTypes
  BY DEF DriversInv, DriverTypes
<1>2. clientOps \in Nat /\ clientOps + 1 \in Nat
  BY <1>1 DEF ChainTotals
<1>3. /\ note \in RegisteredNotes /\ note[1] = "client" /\ note[3] = clientOps + 1
      /\ note = <<"client", 0, clientOps + 1, 10>>
  BY <1>2 DEF ClientNote, RegisteredNotes
<1>4. note \notin ToSet(commitments)
  <2>1. ~(clientOps + 1 <= clientOps)
    BY <1>2
  <2> QED
    BY <1>1, <1>3, <2>1 DEF ChainInv
<1> HIDE DEF note
<1>5. /\ <<note>> \in Seq(RegisteredNotes) /\ ToSet(<<note>>) = {note}
      /\ Append(commitments, note) = commitments \o <<note>>
      /\ commitments \o <<note>> \in Seq(RegisteredNotes)
  <2>1. <<note>> \in Seq(RegisteredNotes) /\ Len(<<note>>) = 1 /\ <<note>>[1] = note
    BY <1>3
  <2>2. ToSet(<<note>>) = {note}
    BY <2>1, FewMembers
  <2>3. commitments \in Seq(RegisteredNotes)
    BY <1>1 DEF ChainTotals
  <2>4. Append(commitments, note) = commitments \o <<note>>
    BY <1>3, <2>3, AppendIsConcat
  <2>5. commitments \o <<note>> \in Seq(RegisteredNotes)
    BY <2>1, <2>3
  <2> QED
    BY <2>1, <2>2, <2>4, <2>5
<1>6. /\ call.fn = fn /\ call.ins = ins /\ call.outs = <<note>> /\ call.asset = "stx"
      /\ call.new = Tree(commitments \o <<note>>)
  BY <1>5 DEF note, ClientTree
<1>7. call.new \in RootSet /\ call.new.merkle = TRUE /\ call.new.leaves = commitments \o <<note>>
  BY <1>5, <1>6, TreeType
<1>8. Shape(fn, ins, <<note>>, 4)
  BY DEF note
<1>9. SoundCall(call)
  <2>1. call.fn \in Fns /\ call.asset \in {"stx", "ft"}
    BY <1>6 DEF Fns
  <2>2. \A n \in ToSet(call.ins) \cup ToSet(call.outs) : n[1] = "op" <=> call.asset = "ft"
    BY <1>3, <1>5, <1>6
  <2> QED
    BY <1>4, <1>5, <1>6, <1>7, <1>8, <2>1, <2>2 DEF SoundCall
<1>10. /\ commitments' = commitments \o call.outs /\ commitments' \in Seq(RegisteredNotes)
       /\ ToSet(commitments') = ToSet(commitments) \cup {note}
       /\ spent' = spent \cup ToSet(call.ins) /\ spent' \subseteq ToSet(commitments')
       /\ liveRoot' \in RootSet /\ liveRoot' = call.new
       /\ knownRoots' = knownRoots \cup {call.new} /\ commitments' # <<>>
       /\ shielded' \in [{"stx", "ft"} -> Int] /\ carol' \in Int
  BY <1>1, <1>5, <1>6, <1>9, EffectIs
<1>11. liveRoot' = Tree(commitments')
  BY <1>6, <1>10
<1>12. ChainGrows
  BY <1>10, <1>11 DEF ChainGrows
<1>13. ChainTotals'
  BY <1>1, <1>2, <1>10 DEF ChainTotals
<1>14. \A n \in ToSet(commitments') : n[1] = "client" => n[3] <= clientOps'
  <2>1. \A n \in ToSet(commitments) : n[3] \in Nat
    BY <1>1 DEF ChainTotals, ToSet, RegisteredNotes
  <2>2. \A n \in ToSet(commitments) : n[1] = "client" => n[3] <= clientOps + 1
    BY <1>1, <1>2, <2>1 DEF ChainInv
  <2>3. clientOps' = clientOps + 1 /\ note[3] <= clientOps + 1
    BY <1>2, <1>3
  <2>4. \A n \in ToSet(commitments') : n \in ToSet(commitments) \/ n = note
    BY <1>10
  <2> QED
    BY <2>2, <2>3, <2>4
<1>15. \A n \in ToSet(commitments') \ spent' :
         \/ n[1] = "shield"
         \/ \E root \in knownRoots' : root.merkle /\ n \in ToSet(root.leaves)
  <2>1. \A n \in ToSet(commitments') \ spent' : n \in ToSet(commitments) \ spent \/ n = note
    BY <1>10
  <2>2. call.new \in knownRoots' /\ call.new.merkle /\ note \in ToSet(call.new.leaves)
    BY <1>6, <1>7, <1>10
  <2> QED
    BY <1>1, <1>10, <2>1, <2>2 DEF ChainInv
<1>16. \A asset \in {"stx", "ft"} : shielded'[asset] = Worth(OnAsset(asset)')
  BY <1>1, <1>9, EffectBalances DEF ChainInv
<1>17. (\A asset \in {"stx", "ft"} : shielded[asset] = Worth(OnAsset(asset)))'
  BY <1>16
<1>18. ChainInv'
  BY <1>10, <1>11, <1>14, <1>15, <1>17 DEF ChainInv
<1>19. ASSUME NEW e \in Runs PROVE DriverInv(e)'
  BY <1>1, <1>12, OthersSame DEF DriversInv
<1> QED
  BY <1>1, <1>13, <1>18, <1>19 DEF DriversInv, DriverTypes

LEMMA ClientInv ==
  ASSUME DriversInv, ClientShields \/ ClientTransfers
  PROVE  DriversInv'
<1> DEFINE note == ClientNote(clientOps + 1)
<1>1. note[4] = 10
  BY DEF ClientNote
<1>2. CASE ClientShields
  <2> DEFINE call == [fn |-> "shield", ins |-> <<>>, outs |-> <<note>>, asset |-> "stx",
                      new |-> ClientTree]
  <2>1. /\ Effect(call) /\ clientOps < MaxClientOps
        /\ clientOps' = clientOps + 1 /\ minShield' = minShield /\ run' = run
    BY <1>2 DEF ClientShields
  <2>2. Shape("shield", <<>>, <<note>>, 4)
    BY DEF Shape
  <2>3. <<>> \in Seq(RegisteredNotes) /\ ToSet(<<>>) = {}
    <3>1. <<>> \in Seq(RegisteredNotes) /\ Len(<<>>) = 0
      OBVIOUS
    <3> QED
      BY <3>1, FewMembers
  <2> HIDE DEF note
  <2> QED
    BY <2>1, <2>2, <2>3, WalletInv DEF note
<1>3. CASE ClientTransfers
  <2>1. PICK old \in (ClientNotes \intersect ToSet(commitments)) \ spent :
          Effect([fn |-> "transfer", ins |-> <<old>>, outs |-> <<note>>, asset |-> "stx",
                  new |-> ClientTree])
    BY <1>3 DEF ClientTransfers
  <2>2. /\ clientOps < MaxClientOps
        /\ clientOps' = clientOps + 1 /\ minShield' = minShield /\ run' = run
    BY <1>3 DEF ClientTransfers
  <2>3. old[1] = "client" /\ old[4] = 10
    BY DEF ClientNotes, ClientNote
  <2>4. old \in RegisteredNotes
    BY DEF DriversInv, DriverTypes, ChainTotals, ToSet
  <2>5. <<old>> \in Seq(RegisteredNotes) /\ ToSet(<<old>>) = {old}
    <3>1. <<old>> \in Seq(RegisteredNotes) /\ Len(<<old>>) = 1 /\ <<old>>[1] = old
      BY <2>4
    <3> QED
      BY <3>1, FewMembers
  <2>6. Shape("transfer", <<old>>, <<note>>, 4)
    BY <1>1, <2>3 DEF Shape
  <2> HIDE DEF note
  <2> QED
    BY <2>1, <2>2, <2>3, <2>5, <2>6, WalletInv DEF note
<1> QED
  BY <1>2, <1>3

-----------------------------------------------------------------------------
(***************************************************************************)
(* The invariant is inductive.                                             *)
(***************************************************************************)
LEMMA OwnStepInv ==
  ASSUME DriversInv, NEW d \in Runs, Quiet, DriverInv(d)', run' \in [Runs -> RunStates],
         \A e \in Runs \ {d} : run'[e] = run[e],
         run[d].joined \/ run[d].script = "shield" =>
           run'[d].joined = run[d].joined /\ run'[d].script = run[d].script
  PROVE  DriversInv'
<1>1. ASSUME NEW e \in Runs PROVE DriverInv(e)'
  BY <1>1, QuietGrows, OthersSame DEF DriversInv
<1>2. ChainTotals' /\ ChainInv'
  <2>1. \A e \in Runs : run[e].joined \/ run[e].script = "shield" =>
          run'[e].joined = run[e].joined /\ run'[e].script = run[e].script
    OBVIOUS
  <2> QED
    BY <2>1, QuietChain
<1> QED
  BY <1>1, <1>2 DEF DriversInv, DriverTypes

LEMMA SharedStepInv ==
  ASSUME DriversInv, Quiet, run' \in [Runs -> RunStates],
         \A e \in Runs : /\ DriverInv(e)' /\ run'[e].script = run[e].script
                         /\ run'[e].joined = run[e].joined
  PROVE  DriversInv'
BY QuietChain DEF DriversInv, DriverTypes

LEMMA InitialInv ==
  ASSUME DriversInit
  PROVE  DriversInv
<1>1. Genesis \in RootSet /\ NoReading \in SeenTotals /\ <<>> \in Seq(RegisteredNotes)
  BY GenesisType
<1>2. NotStarted \in RunStates
  BY <1>1 DEF NotStarted, RunStates
<1>3. ToSet(<<>>) = {}
  <2>1. <<>> \in Seq(RegisteredNotes) /\ Len(<<>>) = 0
    OBVIOUS
  <2> QED
    BY <2>1, FewMembers
<1>4. DriverTypes
  <2>1. minShield \in Nat
    BY DriversAssumption DEF DriversInit
  <2>2. spent \subseteq ToSet(commitments)
    BY DEF DriversInit
  <2> QED
    BY <1>1, <1>2, <2>1, <2>2 DEF DriversInit, DriverTypes, ChainTotals
<1>5. \A asset \in {"stx", "ft"} : shielded[asset] = Worth(OnAsset(asset))
  <2>1. \A asset : OnAsset(asset) = {}
    BY <1>3 DEF OnAsset, DriversInit
  <2>2. Worth({}) = 0
    <3>1. {} \subseteq RegisteredNotes /\ IsFiniteSet({})
      BY FS_EmptySet
    <3> QED
      BY <3>1, WorthIs, SumEmpty
  <2> QED
    BY <2>1, <2>2 DEF DriversInit
<1>6. ChainInv
  BY <1>3, <1>5 DEF ChainInv, DriversInit, Genesis
<1>7. ASSUME NEW d \in Runs PROVE DriverInv(d)
  <2>1. run[d] = NotStarted
    BY DEF DriversInit
  <2>2. run[d].verdict = "idle" /\ run[d].answer = "none"
    BY <2>1 DEF NotStarted
  <2> QED
    BY <2>1, <2>2 DEF DriverInv, Position, Progress, Tracking, Pending, InProgress
<1> QED
  BY <1>4, <1>6, <1>7 DEF DriversInv

\* A step of a run leaves the script it runs and what it started on as they are.
LEMMA OwnStepLabels ==
  ASSUME DriversInv, NEW d \in Runs, DriverStep(d) \/ BroadcastThrows(d) \/ BalanceUnread(d)
  PROVE  run'[d].joined = run[d].joined /\ run'[d].script = run[d].script
<1>1. DriverTypes /\ run \in [Runs -> RunStates] /\ run[d] \in RunStates
  BY DEF DriversInv, DriverTypes
<1>2. ASSUME NEW verdict, run' = [run EXCEPT ![d] = EndedAs(d, verdict)]
      PROVE  run'[d].joined = run[d].joined /\ run'[d].script = run[d].script
  BY <1>1, <1>2, EndedIs
<1>3. ASSUME DriverThrows(d)
      PROVE  run'[d].joined = run[d].joined /\ run'[d].script = run[d].script
  BY <1>2, <1>3 DEF DriverThrows
<1>4. ASSUME run' = [run EXCEPT ![d] = NextStep(d)]
      PROVE  run'[d].joined = run[d].joined /\ run'[d].script = run[d].script
  BY <1>1, <1>4, NextStepIs
<1>5. ASSUME Prove(d)
      PROVE  run'[d].joined = run[d].joined /\ run'[d].script = run[d].script
  <2>1. CASE DriverThrows(d)
    BY <1>3, <2>1
  <2>2. CASE ~DriverThrows(d)
    <3> DEFINE tree == IF Now(d).fn = "shield" THEN run[d].tree \o Outs(d) ELSE run[d].tree
               proved == IF Now(d).fn = "withdraw" THEN run[d].root ELSE Tree(run[d].tree)
               r == [run[d] EXCEPT !.tree = tree, !.proved = proved, !.stage = "waiting"]
    <3>1. run' = [run EXCEPT ![d] = r]
      BY <1>5, <2>2 DEF Prove
    <3> HIDE DEF tree, proved
    <3>2. r.joined = run[d].joined /\ r.script = run[d].script
      BY <1>1 DEF RunStates
    <3> HIDE DEF r
    <3> QED
      BY <1>1, <3>1, <3>2
  <2> QED
    BY <2>1, <2>2
<1>6. ASSUME PostAggregation(d) \/ AggregationPosted(d)
      PROVE  run'[d].joined = run[d].joined /\ run'[d].script = run[d].script
  BY <1>1, <1>6 DEF PostAggregation, AggregationPosted, RunStates
<1>7. ASSUME SendCall(d)
      PROVE  run'[d].joined = run[d].joined /\ run'[d].script = run[d].script
  <2>1. PICK tree, call, seen :
          run' = [run EXCEPT ![d].stage = "calling", ![d].answer = "pending",
                             ![d].tree = tree, ![d].call = call, ![d].seen = seen]
    BY <1>1, <1>7 DEF SendCall
  <2> QED
    BY <1>1, <2>1 DEF RunStates
<1>8. ASSUME Rejected(d) \/ RefusedAsExpected(d)
      PROVE  run'[d].joined = run[d].joined /\ run'[d].script = run[d].script
  BY <1>3, <1>4, <1>8 DEF Rejected, RefusedAsExpected
<1>9. ASSUME CallConfirmed(d)
      PROVE  run'[d].joined = run[d].joined /\ run'[d].script = run[d].script
  <2>1. PICK refused, root :
          run' = [run EXCEPT ![d] = [NextStep(d) EXCEPT !.refused = refused, !.root = root]]
    BY <1>9 DEF CallConfirmed
  <2> DEFINE n == NextStep(d)
  <2>2. n \in RunStates /\ n.joined = run[d].joined /\ n.script = run[d].script
    BY <1>1, NextStepIs
  <2> HIDE DEF n
  <2>3. run'[d] = [n EXCEPT !.refused = refused, !.root = root]
    BY <1>1, <2>1 DEF n
  <2> QED
    BY <2>2, <2>3 DEF RunStates
<1>10. ASSUME CallAborted(d) \/ DeadlinePasses(d) \/ BroadcastThrows(d)
       PROVE  run'[d].joined = run[d].joined /\ run'[d].script = run[d].script
  BY <1>3, <1>10 DEF CallAborted, DeadlinePasses, BroadcastThrows
<1>11. ASSUME FinishRun(d) \/ BalanceUnread(d)
       PROVE  run'[d].joined = run[d].joined /\ run'[d].script = run[d].script
  BY <1>2, <1>11 DEF FinishRun, BalanceUnread
<1> QED
  BY <1>5, <1>6, <1>7, <1>8, <1>9, <1>10, <1>11 DEF DriverStep

LEMMA StepInv ==
  ASSUME DriversInv, [DriversNext]_driverVars
  PROVE  DriversInv'
<1>1. ASSUME NEW d \in Runs, NEW kind \in Scripts, NEW seed \in Seeds, NEW amount \in Amounts,
             StartRun(d, kind, seed, amount)
      PROVE  DriversInv'
  <2>1. run[d].verdict = "idle" /\ Quiet
    BY <1>1 DEF StartRun, Quiet
  <2>2. run[d] = NotStarted
    BY <2>1 DEF DriversInv, DriverInv, Position
  <2>3. ~run[d].joined /\ run[d].script # "shield"
    BY <2>2 DEF NotStarted
  <2> QED
    BY <1>1, <2>1, <2>3, StartInv, OwnStepInv
<1>2. ASSUME NEW d \in Runs, DriverStep(d) \/ BroadcastThrows(d) \/ BalanceUnread(d)
      PROVE  DriversInv'
  <2>1. /\ DriverInv(d)' /\ run' \in [Runs -> RunStates]
        /\ \A e \in Runs \ {d} : run'[e] = run[e]
    BY <1>2, ProveInv, PostInv, SendInv, RejectedInv, ConfirmedInv, RefusedInv, ThrownInv,
       FinishedInv DEF DriverStep
  <2>2. Quiet
    BY <1>2 DEF DriverStep, Quiet, Prove, PostAggregation, AggregationPosted, SendCall, Rejected,
       CallConfirmed, RefusedAsExpected, CallAborted, DeadlinePasses, FinishRun,
       BroadcastThrows, BalanceUnread
  <2>3. run'[d].joined = run[d].joined /\ run'[d].script = run[d].script
    BY <1>2, OwnStepLabels
  <2> QED
    BY <2>1, <2>2, <2>3, OwnStepInv
<1>3. ASSUME NEW d \in Runs, MinePost(d) PROVE DriversInv'
  <2>1. Quiet
    BY <1>3 DEF MinePost, Quiet
  <2> QED
    BY <1>3, <2>1, MinePostInv, SharedStepInv
<1>4. ASSUME NEW d \in Runs, MineCall(d) PROVE DriversInv'
  BY <1>4, MineCallInv
<1>5. ASSUME NEW d \in Runs, PublisherPosts(d) PROVE DriversInv'
  <2>1. Quiet
    BY <1>5 DEF PublisherPosts, Quiet
  <2> QED
    BY <1>5, <2>1, PublisherInv, SharedStepInv DEF OnlyMarked
<1>6. ASSUME NEW batch \in SUBSET Runs, Aggregate(batch) PROVE DriversInv'
  <2>1. Quiet
    BY <1>6 DEF Aggregate, Quiet
  <2> QED
    BY <1>6, <2>1, AggregateInv, SharedStepInv DEF OnlyMarked
<1>7. ASSUME ClientShields \/ ClientTransfers PROVE DriversInv'
  BY <1>7, ClientInv
<1>8. CASE UNCHANGED driverVars
  <2>1. Quiet /\ run' = run
    BY <1>8 DEF driverVars, Quiet, poolVars
  <2>2. \A e \in Runs : DriverInv(e)'
    BY <2>1, QuietGrows, OthersSame DEF DriversInv
  <2> QED
    BY <2>1, <2>2, SharedStepInv DEF DriversInv, DriverTypes
<1> QED
  BY <1>1, <1>2, <1>3, <1>4, <1>5, <1>6, <1>7, <1>8 DEF DriversNext

(***************************************************************************)
(* What a driver reads, the step it has reached and what it has sent agree *)
(* with the registry, whatever the other drivers, the wallets and the      *)
(* publisher do in between, and a wait that ends early leaves behind only  *)
(* a call that may still be mined safely.                                  *)
(***************************************************************************)
THEOREM DriversInvariant == DriversSpec => []DriversInv
<1>1. DriversInit => DriversInv
  BY InitialInv
<1>2. DriversInv /\ [DriversNext]_driverVars => DriversInv'
  BY StepInv
<1> QED
  BY <1>1, <1>2, PTL DEF DriversSpec

\* A driver that prints that its run passed is right, and the pools hold what their
\* unspent notes are worth (the verdicts of the main functions of the e2e scripts).
THEOREM RunsThatPassAreRight == DriversSpec => []PassedRunsAreRight
<1>1. DriversInv => PassedRunsAreRight
  <2> SUFFICES ASSUME DriversInv PROVE PassedRunsAreRight
    OBVIOUS
  <2>1. \A asset \in {"stx", "ft"} : shielded[asset] = Worth(OnAsset(asset))
    BY DEF DriversInv, ChainInv
  <2>2. ASSUME NEW d \in Runs, run[d].verdict = "passed"
        PROVE  /\ run[d].refused
               /\ \A k \in DOMAIN PlanFor(d) : ~PlanFor(d)[k].refusal =>
                    /\ ToSet(NotesAt(d, k, "ins")) \subseteq spent
                    /\ ToSet(NotesAt(d, k, "outs")) \subseteq ToSet(commitments)
    <3>1. Progress(d) /\ Started(d)
      BY <2>2 DEF DriversInv, DriverInv, Position
    <3>2. DOMAIN PlanFor(d) = 1..Len(PlanFor(d))
      BY <3>1, PlanFacts
    <3> QED
      BY <2>2, <3>1, <3>2 DEF Progress, TookEffect
  <2> QED
    BY <2>1, <2>2 DEF PassedRunsAreRight
<1> QED
  BY <1>1, DriversInvariant, PTL

\* The live root commits to every registered note unless its declarer joined a
\* registry in use or is e2e-shield, and every unspent note but e2e-shield's stays
\* under some known root.
THEOREM RootsAlwaysKeepUp == DriversSpec => []RootsKeepUp
<1>1. DriversInv => RootsKeepUp
  BY DEF DriversInv, ChainInv, RootsKeepUp
<1> QED
  BY <1>1, DriversInvariant, PTL

=============================================================================
