---------------------------- MODULE CustodyProofs ----------------------------
(***************************************************************************)
(* Theorems about sums: the tokens the contract holds against the locked   *)
(* balances, and the weight of a task against the ballots cast on it; and  *)
(* about the life time of the storage that keeps them.                     *)
(***************************************************************************)
EXTENDS InstanceTtl, SafetyProofs, WellFoundedInduction

-----------------------------------------------------------------------------
(* Sums over finite sets.  SumFunction folds + over subsets of its domain, *)
(* picking each next element with CHOOSE.  The induction is on the size of *)
(* the subsets, in its first-order form: a nonempty set of naturals has a  *)
(* least element.                                                          *)

LEMMA LeastNatural ==
  ASSUME NEW T \in SUBSET Nat, T # {}
  PROVE  \E n \in T : \A m \in T : n <= m
PROOF
<1> DEFINE below == {p \in Nat \X Nat : p[1] < p[2]}
<1>1. IsWellFoundedOn(below, Nat)
  BY NatLessThanWellFounded DEF OpToRel
<1>2. PICK n \in T : \A m \in T : <<m, n>> \notin below
  <2> HIDE DEF below
  <2> QED
    BY <1>1, WFMin
<1>3. \A m \in T : ~(m < n)
  BY <1>2
<1> QED
  BY <1>3

(* The first element the fold takes from s.                                *)
Pick(s) == CHOOSE x \in s : TRUE

(* The recursion equation of the fold at one subset.                       *)
SumAt(f, g, s) == IF s = {} THEN 0 ELSE f[Pick(s)] + g[s \ {Pick(s)}]

(* g gives the sum over every subset of S.                                 *)
IsSum(f, S, g) == g = [s \in SUBSET S |-> SumAt(f, g, s)]

TheSum(f, S) == CHOOSE g : IsSum(f, S, g)

LEMMA PickRemoves ==
  ASSUME NEW S, IsFiniteSet(S), NEW s \in SUBSET S, s # {}
  PROVE  /\ Pick(s) \in s
         /\ s \ {Pick(s)} \in SUBSET S
         /\ Cardinality(s) \in Nat /\ Cardinality(s \ {Pick(s)}) \in Nat
         /\ Cardinality(s \ {Pick(s)}) < Cardinality(s)
PROOF
<1>1. Pick(s) \in s
  BY DEF Pick
<1>2. IsFiniteSet(s)
  BY FS_Subset
<1>3. /\ IsFiniteSet(s \ {Pick(s)})
      /\ Cardinality(s \ {Pick(s)}) = Cardinality(s) - 1
  BY <1>1, <1>2, FS_RemoveElement
<1>4. Cardinality(s) \in Nat /\ Cardinality(s \ {Pick(s)}) \in Nat
  BY <1>2, <1>3, FS_CardinalityType
<1> QED
  BY <1>1, <1>3, <1>4

(* A property that fails for some subset of S fails for a smallest one.    *)
LEMMA SmallestSubset ==
  ASSUME NEW S, IsFiniteSet(S), NEW T \in SUBSET SUBSET S, T # {}
  PROVE  \E s \in T : s # {} => s \ {Pick(s)} \notin T
PROOF
<1> DEFINE sizes == {Cardinality(s) : s \in T}
<1>1. \A s \in T : IsFiniteSet(s) /\ Cardinality(s) \in Nat
  BY FS_Subset, FS_CardinalityType
<1>2. sizes \in SUBSET Nat /\ sizes # {}
  BY <1>1
<1> HIDE DEF sizes
<1>3. PICK n \in sizes : \A m \in sizes : n <= m
  BY <1>2, LeastNatural
<1>4. PICK s \in T : Cardinality(s) = n
  BY DEF sizes
<1>5. ASSUME s # {}, s \ {Pick(s)} \in T PROVE FALSE
  <2>1. Cardinality(s \ {Pick(s)}) < Cardinality(s)
    BY <1>5, PickRemoves
  <2>2. n <= Cardinality(s \ {Pick(s)})
    BY <1>3, <1>5 DEF sizes
  <2>3. Cardinality(s) \in Nat /\ Cardinality(s \ {Pick(s)}) \in Nat
    BY <1>1, <1>5
  <2> QED
    BY <1>4, <2>1, <2>2, <2>3
<1> QED
  BY <1>5

(* The recursion equation has a solution.                                  *)
LEMMA SumExists ==
  ASSUME NEW S, IsFiniteSet(S), NEW f
  PROVE  \E g : IsSum(f, S, g)
PROOF
<1> DEFINE Solves(g, n) == \A s \in SUBSET S :
                             Cardinality(s) <= n => g[s] = SumAt(f, g, s)
           bad == {n \in Nat : ~\E g : Solves(g, n)}
<1>1. \A s \in SUBSET S : IsFiniteSet(s) /\ Cardinality(s) \in Nat
                          /\ Cardinality(s) <= Cardinality(S)
  BY FS_Subset, FS_CardinalityType
<1>2. ASSUME NEW n \in bad, \A m \in bad : n <= m PROVE FALSE
  <2>1. CASE n = 0
    <3> DEFINE g == [s \in SUBSET S |-> 0]
    <3>1. ASSUME NEW s \in SUBSET S, Cardinality(s) <= 0
          PROVE  g[s] = SumAt(f, g, s)
      <4>1. s = {}
        BY <1>1, <3>1, FS_EmptySet
      <4> QED
        BY <4>1 DEF SumAt
    <3> QED
      BY <1>2, <2>1, <3>1
  <2>2. CASE n # 0
    <3>1. n - 1 \in Nat /\ n - 1 \notin bad
      BY <1>2, <2>2
    <3>2. PICK g : Solves(g, n - 1)
      BY <3>1
    <3> DEFINE h == [s \in SUBSET S |-> SumAt(f, g, s)]
    <3>3. ASSUME NEW s \in SUBSET S, Cardinality(s) <= n
          PROVE  h[s] = SumAt(f, h, s)
      <4>1. CASE s = {}
        BY <4>1 DEF SumAt
      <4>2. CASE s # {}
        <5> DEFINE r == s \ {Pick(s)}
        <5>1. r \in SUBSET S /\ Cardinality(r) <= n - 1
          BY <1>1, <1>2, <3>3, <4>2, PickRemoves
        <5>2. h[r] = g[r]
          BY <3>2, <5>1
        <5>3. h[s] = f[Pick(s)] + g[r]
          BY <4>2 DEF SumAt
        <5>4. SumAt(f, h, s) = f[Pick(s)] + h[r]
          BY <4>2 DEF SumAt
        <5> QED
          BY <5>2, <5>3, <5>4
      <4> QED
        BY <4>1, <4>2
    <3> HIDE DEF h
    <3>4. Solves(h, n)
      BY <3>3
    <3> QED
      BY <1>2, <3>4
  <2> QED
    BY <2>1, <2>2
<1>3. bad = {}
  <2>1. bad \in SUBSET Nat
    OBVIOUS
  <2> HIDE DEF bad
  <2> QED
    BY <1>2, <2>1, LeastNatural
<1>4. Cardinality(S) \in Nat
  BY FS_CardinalityType
<1>5. PICK g : Solves(g, Cardinality(S))
  BY <1>3, <1>4
<1> DEFINE h == [s \in SUBSET S |-> g[s]]
<1>6. ASSUME NEW s \in SUBSET S PROVE h[s] = SumAt(f, h, s)
  <2>1. h[s] = SumAt(f, g, s)
    BY <1>1, <1>5
  <2>2. s \ {Pick(s)} \in SUBSET S
    OBVIOUS
  <2> QED
    BY <2>1, <2>2 DEF SumAt
<1>7. h = [s \in SUBSET S |-> SumAt(f, h, s)]
  BY <1>6
<1> QED
  BY <1>7 DEF IsSum

(* The fold unrolled: what TheSum is at the empty set and at any other.    *)
LEMMA SumUnrolls ==
  ASSUME NEW S, IsFiniteSet(S), NEW f
  PROVE  /\ TheSum(f, S)[{}] = 0
         /\ \A s \in SUBSET S : s # {} =>
              TheSum(f, S)[s] = f[Pick(s)] + TheSum(f, S)[s \ {Pick(s)}]
PROOF
<1> DEFINE g == TheSum(f, S)
<1>1. IsSum(f, S, g)
  BY SumExists DEF TheSum
<1> HIDE DEF g
<1>2. \A s \in SUBSET S : g[s] = SumAt(f, g, s)
  BY <1>1 DEF IsSum
<1> QED
  BY <1>2 DEF SumAt, g

LEMMA SumIsFold ==
  ASSUME NEW f
  PROVE  SumFunction(f) = TheSum(f, DOMAIN f)[DOMAIN f]
PROOF
  BY DEF SumFunction, SumFunctionOnSet, FoldFunctionOnSet, MapThenFoldSet,
         TheSum, IsSum, SumAt, Pick

(* A sum of naturals is a natural and covers each of its terms.            *)
LEMMA SumCovers ==
  ASSUME NEW S, IsFiniteSet(S), NEW f \in [S -> Nat]
  PROVE  SumFunction(f) \in Nat /\ \A a \in S : f[a] <= SumFunction(f)
PROOF
<1> DEFINE g == TheSum(f, S)
           Good(s) == g[s] \in Nat /\ \A a \in s : f[a] <= g[s]
           bad == {s \in SUBSET S : ~Good(s)}
<1>1. /\ g[{}] = 0
      /\ \A s \in SUBSET S : s # {} => g[s] = f[Pick(s)] + g[s \ {Pick(s)}]
  BY SumUnrolls
<1> HIDE DEF g
<1>2. ASSUME NEW s \in SUBSET S, s # {}, Good(s \ {Pick(s)}) PROVE Good(s)
  <2> DEFINE p == Pick(s)
             r == s \ {p}
  <2>1. p \in S /\ s = r \cup {p}
    <3>1. p \in s
      BY <1>2 DEF Pick
    <3> HIDE DEF p
    <3> QED
      BY <3>1
  <2>2. f[p] \in Nat /\ g[s] = f[p] + g[r]
    BY <1>1, <1>2, <2>1
  <2>3. g[r] \in Nat /\ \A a \in r : f[a] \in Nat /\ f[a] <= g[r]
    BY <1>2
  <2> HIDE DEF p, r
  <2> QED
    BY <2>1, <2>2, <2>3
<1>3. Good({})
  BY <1>1
<1>4. bad = {}
  <2>1. bad \in SUBSET SUBSET S
    OBVIOUS
  <2>2. ASSUME NEW s \in bad PROVE s # {} /\ s \ {Pick(s)} \in bad
    BY <1>2, <1>3, <2>2
  <2> HIDE DEF bad
  <2> QED
    BY <2>1, <2>2, SmallestSubset
<1>5. Good(S)
  BY <1>4
<1> QED
  BY <1>5, SumIsFold DEF g

(* Changing one term changes the sum by the difference.                    *)
LEMMA SumUpdated ==
  ASSUME NEW S, IsFiniteSet(S), NEW f \in [S -> Nat], NEW a \in S,
         NEW v \in Nat
  PROVE  SumFunction([f EXCEPT ![a] = v]) = SumFunction(f) - f[a] + v
PROOF
<1> DEFINE h == [f EXCEPT ![a] = v]
           sf == TheSum(f, S)
           sh == TheSum(h, S)
           Good(s) == /\ sf[s] \in Nat
                      /\ sh[s] = sf[s] + (IF a \in s THEN v - f[a] ELSE 0)
           bad == {s \in SUBSET S : ~Good(s)}
<1>1. /\ sf[{}] = 0
      /\ \A s \in SUBSET S : s # {} => sf[s] = f[Pick(s)] + sf[s \ {Pick(s)}]
      /\ sh[{}] = 0
      /\ \A s \in SUBSET S : s # {} => sh[s] = h[Pick(s)] + sh[s \ {Pick(s)}]
  BY SumUnrolls
<1>2. /\ h \in [S -> Nat] /\ h[a] = v
      /\ \A x \in S : x # a => h[x] = f[x]
  OBVIOUS
<1> HIDE DEF sf, sh, h
<1>3. ASSUME NEW s \in SUBSET S, s # {}, Good(s \ {Pick(s)}) PROVE Good(s)
  <2> DEFINE p == Pick(s)
             r == s \ {p}
  <2>1. p \in S /\ p \in s /\ p \notin r /\ s = r \cup {p}
    <3>1. p \in s
      BY <1>3 DEF Pick
    <3> HIDE DEF p
    <3> QED
      BY <3>1
  <2>2. sf[s] = f[p] + sf[r] /\ sh[s] = h[p] + sh[r]
    BY <1>1, <1>3
  <2>3. sf[r] \in Nat /\ sh[r] = sf[r] + (IF a \in r THEN v - f[a] ELSE 0)
    BY <1>3
  <2> HIDE DEF p, r
  <2>4. f[p] \in Nat /\ f[a] \in Nat /\ v \in Nat
    BY <2>1
  <2>5. CASE p = a
    <3>1. h[p] = v /\ a \in s /\ a \notin r
      BY <1>2, <2>1, <2>5
    <3> QED
      BY <2>2, <2>3, <2>4, <2>5, <3>1
  <2>6. CASE p # a
    <3>1. h[p] = f[p] /\ (a \in s <=> a \in r)
      BY <1>2, <2>1, <2>6
    <3> QED
      BY <2>2, <2>3, <2>4, <3>1
  <2> QED
    BY <2>5, <2>6
<1>4. Good({})
  BY <1>1
<1>5. bad = {}
  <2>1. bad \in SUBSET SUBSET S
    OBVIOUS
  <2>2. ASSUME NEW s \in bad PROVE s # {} /\ s \ {Pick(s)} \in bad
    BY <1>3, <1>4, <2>2
  <2> HIDE DEF bad
  <2> QED
    BY <2>1, <2>2, SmallestSubset
<1>6. Good(S)
  BY <1>5
<1>7. SumFunction(h) = sh[S] /\ SumFunction(f) = sf[S]
  BY <1>2, SumIsFold DEF sf, sh
<1> QED
  BY <1>6, <1>7 DEF h

LEMMA SumOfZeros ==
  ASSUME NEW S, IsFiniteSet(S)
  PROVE  SumFunction([x \in S |-> 0]) = 0
PROOF
<1> DEFINE f == [x \in S |-> 0]
           g == TheSum(f, S)
           bad == {s \in SUBSET S : g[s] # 0}
<1>1. /\ g[{}] = 0
      /\ \A s \in SUBSET S : s # {} => g[s] = f[Pick(s)] + g[s \ {Pick(s)}]
  BY SumUnrolls
<1>2. \A x \in S : f[x] = 0
  OBVIOUS
<1> HIDE DEF g, f
<1>3. bad = {}
  <2>1. bad \in SUBSET SUBSET S
    OBVIOUS
  <2>2. ASSUME NEW s \in bad PROVE s # {} /\ s \ {Pick(s)} \in bad
    <3>1. s # {}
      BY <1>1, <2>2
    <3>2. f[Pick(s)] = 0
      BY <1>2, <3>1, PickRemoves
    <3> QED
      BY <1>1, <2>2, <3>1, <3>2
  <2> HIDE DEF bad
  <2> QED
    BY <2>1, <2>2, SmallestSubset
<1>4. SumFunction(f) = g[S]
  BY SumIsFold DEF f, g
<1> QED
  BY <1>3, <1>4 DEF f

-----------------------------------------------------------------------------
(* Locked tokens                                                           *)

(* Whoever has tokens locked found the contract initialised, and it stays  *)
(* so: the strengthening that the way out needs.                           *)
CustodyInv ==
  /\ CustodyExact
  /\ \A g \in Address : locked_balance[g] > 0 => initialized

LEMMA TokenQuietSteps ==
  ASSUME [Next]_vars
  PROVE  UNCHANGED tokenVars \/ TokenStep
PROOF
<1> USE DEF tokenVars
<1>1. CASE BreakerStep
  BY <1>1 DEF BreakerStep, TogglePause, Pause, Unpause, SetPaused,
              RecordFailure, ResetCircuitBreaker
<1>2. CASE GuardianStep
  BY <1>2 DEF GuardianStep, AddGuardian, RemoveGuardian, SetReputation
<1>3. CASE TaskStep
  BY <1>3 DEF TaskStep, RegisterTask, CancelTask, ArchiveTask
<1>4. CASE VotingStep
  BY <1>4 DEF VotingStep, SetWeightThreshold, SetVaultAddress, Vote
<1>5. CASE StreamStep
  BY <1>5 DEF StreamStep, StartRewardStream
<1>6. CASE Tick
  BY <1>6 DEF Tick
<1>7. CASE UNCHANGED vars
  BY <1>7 DEF vars
<1> QED
  BY <1>1, <1>2, <1>3, <1>4, <1>5, <1>6, <1>7, [Next]_vars DEF Next

(* A transfer of amount, negative for a refund, between one wallet and the *)
(* contract keeps the books.                                               *)
LEMMA TransferKeepsBooks ==
  ASSUME TypeOK, CustodyInv, NEW g \in Address, NEW amount \in Int,
         locked_balance[g] + amount \in Nat,
         initialized, initialized' = initialized,
         wallet' = [wallet EXCEPT ![g] = @ - amount],
         held' = held + amount,
         locked_balance' = [locked_balance EXCEPT ![g] = @ + amount]
  PROVE  CustodyInv'
PROOF
<1>1. /\ locked_balance \in [Address -> Nat] /\ wallet \in [Address -> Nat]
      /\ held \in Nat
  BY DEF TypeOK
<1>2. held' = SumFunction(locked_balance')
  <2> DEFINE v == locked_balance[g] + amount
  <2>1. v \in Nat /\ locked_balance[g] \in Nat /\ v - locked_balance[g] = amount
    BY <1>1
  <2>2. locked_balance' = [locked_balance EXCEPT ![g] = v]
    OBVIOUS
  <2> HIDE DEF v
  <2>3. SumFunction([locked_balance EXCEPT ![g] = v])
          = SumFunction(locked_balance) - locked_balance[g] + v
    BY <1>1, <2>1, SumUpdated, AddressAssumption
  <2>4. held = SumFunction(locked_balance)
    BY DEF CustodyInv, CustodyExact
  <2>5. SumFunction(locked_balance') = held - locked_balance[g] + v
    BY <2>2, <2>3, <2>4, Zenon
  <2> QED
    BY <1>1, <2>1, <2>5
<1>3. \A a \in Address : wallet'[a] + locked_balance'[a] = Endowment
  BY <1>1 DEF CustodyInv, CustodyExact
<1> QED
  BY <1>2, <1>3 DEF CustodyInv, CustodyExact

LEMMA CustodyStep ==
  ASSUME TypeOK, CustodyInv, [Next]_vars
  PROVE  CustodyInv'
PROOF
<1>1. CASE UNCHANGED tokenVars
  BY <1>1 DEF tokenVars, CustodyInv, CustodyExact
<1>2. ASSUME NEW th \in LockThresholds, Initialize(th) PROVE CustodyInv'
  BY <1>2 DEF Initialize, CustodyInv, CustodyExact
<1>3. ASSUME NEW g \in Address, NEW amount \in Amounts, LockTokens(g, amount)
      PROVE  CustodyInv'
  <2>1. initialized /\ amount \in Nat
    BY <1>3, InputAssumption
    DEF LockTokens, LockTokensError, Transferable, Ok
  <2>2. locked_balance[g] + amount \in Nat
    BY <2>1 DEF TypeOK
  <2>3. /\ initialized' = initialized
        /\ wallet' = [wallet EXCEPT ![g] = @ - amount]
        /\ held' = held + amount
        /\ locked_balance' = [locked_balance EXCEPT ![g] = @ + amount]
    BY <1>3 DEF LockTokens
  <2>4. amount \in Int
    BY <2>1
  <2> QED
    BY <2>1, <2>2, <2>3, <2>4, TransferKeepsBooks, Zenon
<1>4. ASSUME NEW g \in Address, initialized, initialized' = initialized,
             Refund(g)
      PROVE  CustodyInv'
  <2> DEFINE amount == 0 - locked_balance[g]
  <2>1. locked_balance[g] \in Nat /\ wallet[g] \in Nat /\ held \in Nat
    BY DEF TypeOK
  <2>2. /\ amount \in Int
        /\ locked_balance[g] + amount = 0
        /\ wallet[g] - amount = wallet[g] + locked_balance[g]
        /\ held + amount = held - locked_balance[g]
    BY <2>1
  <2>3. /\ wallet' = [wallet EXCEPT ![g] = @ - amount]
        /\ held' = held + amount
        /\ locked_balance' = [locked_balance EXCEPT ![g] = @ + amount]
    BY <1>4, <2>2 DEF Refund
  <2>4. locked_balance[g] + amount \in Nat
    BY <2>2
  <2> HIDE DEF amount
  <2> QED
    BY <1>4, <2>2, <2>3, <2>4, TransferKeepsBooks, Zenon
<1>5. ASSUME NEW g \in Address, ResignGuardian(g) \/ UnlockTokens(g)
      PROVE  CustodyInv'
  BY <1>4, <1>5
  DEF ResignGuardian, ResignGuardianError, UnlockTokens, UnlockTokensError, Ok
<1> QED
  BY <1>1, <1>2, <1>3, <1>5, TokenQuietSteps DEF TokenStep

(* The invariant behind both custody theorems.                             *)
LEMMA CustodyInvariant == Spec => []CustodyInv
PROOF
<1>1. Init => CustodyInv
  <2> SUFFICES ASSUME Init PROVE CustodyInv
    OBVIOUS
  <2>1. SumFunction(locked_balance) = 0
    BY SumOfZeros, AddressAssumption DEF Init
  <2> QED
    BY <2>1, ConstantsAssumption DEF Init, CustodyInv, CustodyExact
<1>2. TypeOK /\ CustodyInv /\ [Next]_vars => CustodyInv'
  BY CustodyStep
<1> QED
  BY <1>1, <1>2, TypeCorrect, PTL DEF Spec

(* No token is created, lost or booked to another account by any sequence  *)
(* of lock_tokens, unlock_tokens and resign_guardian: the contract holds   *)
(* the sum of the locked balances and every account still owns what it was *)
(* endowed with.                                                           *)
THEOREM BooksBalance == Spec => []CustodyExact
PROOF
<1>1. CustodyInv => CustodyExact
  BY DEF CustodyInv
<1> QED
  BY <1>1, CustodyInvariant, PTL

(* A holder of locked tokens can always take them out by resign_guardian   *)
(* or unlock_tokens, because the contract holds at least what it owes to   *)
(* any one account.  That includes the paused states, in which the README  *)
(* says all state-changing calls are blocked: neither handler tests it.    *)
THEOREM ExitStaysOpen == Spec => []ExitAlwaysOpen
PROOF
<1>1. TypeOK /\ CustodyInv => ExitAlwaysOpen
  <2> SUFFICES ASSUME TypeOK, CustodyInv, NEW g \in Address,
                      locked_balance[g] > 0
               PROVE  ResignGuardianError(g) = Ok \/ UnlockTokensError(g) = Ok
    BY DEF ExitAlwaysOpen
  <2>1. initialized
    BY DEF CustodyInv
  <2>2. locked_balance[g] \in Nat /\ locked_balance[g] <= held
    BY SumCovers, AddressAssumption DEF TypeOK, CustodyInv, CustodyExact
  <2> QED
    BY <2>1, <2>2 DEF ResignGuardianError, UnlockTokensError, Transferable
<1> QED
  BY <1>1, CustodyInvariant, TypeCorrect, PTL

-----------------------------------------------------------------------------
(* Weights                                                                 *)

(* A step casts one ballot or none.                                        *)
LEMMA BallotSteps ==
  ASSUME [Next]_vars
  PROVE  \/ ballot' = ballot /\ voted' = voted
         \/ \E g \in Address, t \in TaskId, escrow_up \in BOOLEAN :
              Vote(g, t, escrow_up)
PROOF
<1> USE DEF voteVars
<1>1. CASE BreakerStep
  BY <1>1 DEF BreakerStep, TogglePause, Pause, Unpause, SetPaused,
              RecordFailure, ResetCircuitBreaker
<1>2. CASE GuardianStep
  BY <1>2 DEF GuardianStep, AddGuardian, RemoveGuardian, SetReputation
<1>3. CASE TokenStep
  BY <1>3 DEF TokenStep, Initialize, LockTokens, ResignGuardian, UnlockTokens
<1>4. CASE TaskStep
  BY <1>4 DEF TaskStep, RegisterTask, CancelTask, ArchiveTask
<1>5. CASE VotingStep
  BY <1>5 DEF VotingStep, SetWeightThreshold, SetVaultAddress
<1>6. CASE StreamStep
  BY <1>6 DEF StreamStep, StartRewardStream
<1>7. CASE Tick
  BY <1>7 DEF Tick
<1>8. CASE UNCHANGED vars
  BY <1>8 DEF vars
<1> QED
  BY <1>1, <1>2, <1>3, <1>4, <1>5, <1>6, <1>7, <1>8, [Next]_vars DEF Next

(* The ballots on one task change only with its voters.                    *)
LEMMA BallotsOfTask ==
  ASSUME TypeOK, [Next]_vars, NEW t \in TaskId
  PROVE  \/ ballot'[t] = ballot[t] /\ Voters(t)' = Voters(t)
         \/ \E g \in Address :
              /\ Counts(t, g)
              /\ ballot'[t] = [ballot[t] EXCEPT ![g] = reputation[g]]
PROOF
<1>1. CASE ballot' = ballot /\ voted' = voted
  BY <1>1 DEF Voters
<1>2. ASSUME NEW g \in Address, NEW u \in TaskId, NEW escrow_up \in BOOLEAN,
             Vote(g, u, escrow_up)
      PROVE  \/ ballot'[t] = ballot[t] /\ Voters(t)' = Voters(t)
             \/ /\ Counts(t, g)
                /\ ballot'[t] = [ballot[t] EXCEPT ![g] = reputation[g]]
  <2>1. /\ ballot' = [ballot EXCEPT ![u] =
                        [ballot[u] EXCEPT ![g] = reputation[g]]]
        /\ voted' = voted \cup {<<u, g>>}
    BY <1>2 DEF Vote, calculate_voting_power
  <2>2. <<u, g>> \notin voted
    BY <1>2, VoteAccepted DEF AcceptedVote
  <2>3. CASE u # t
    BY <2>1, <2>3 DEF Voters, TypeOK
  <2>4. CASE u = t
    <3>1. Voters(t)' = Voters(t) \cup {g} /\ g \notin Voters(t)
      BY <2>1, <2>2, <2>4 DEF Voters
    <3>2. PICK h \in Address : Counts(t, h)
      BY <3>1, RecordSteps
      DEF RecordStep, LeavesUnregistered, Opens, Keeps, Cancels
    <3>3. h = g
      BY <3>1, <3>2 DEF Counts
    <3> QED
      BY <2>1, <2>4, <3>2, <3>3 DEF TypeOK
  <2> QED
    BY <2>3, <2>4
<1> QED
  BY <1>1, <1>2, BallotSteps

LEMMA WeightStep ==
  ASSUME TypeOK, VotesMatchVoters, WeightMatchesBallots, [Next]_vars
  PROVE  WeightMatchesBallots'
PROOF
<1> SUFFICES ASSUME NEW t \in TaskId
             PROVE  /\ Registered(t)' =>
                         Record(t)'.total_weight_accrued
                           = SumFunction(ballot'[t])
                    /\ Voters(t)' = {g \in Address : ballot'[t][g] > 0}
  BY DEF WeightMatchesBallots
<1>1. /\ Registered(t) =>
           Record(t).total_weight_accrued = SumFunction(ballot[t])
      /\ Voters(t) = {g \in Address : ballot[t][g] > 0}
      /\ ~Registered(t) => Voters(t) = {}
      /\ ballot[t] \in [Address -> 0..U64Max]
  BY DEF WeightMatchesBallots, VotesMatchVoters, TypeOK
<1>2. CASE ballot'[t] = ballot[t] /\ Voters(t)' = Voters(t)
  <2>1. Voters(t)' = {g \in Address : ballot'[t][g] > 0}
    BY <1>1, <1>2
  <2>2. CASE Opens(t)
    <3>1. \A g \in Address : ballot[t][g] = 0
      BY <1>1, <2>2, ConstantsAssumption DEF Opens
    <3>2. ballot[t] = [a \in Address |-> 0]
      BY <1>1, <3>1
    <3>3. SumFunction(ballot'[t]) = 0
      BY <1>2, <3>2, SumOfZeros, AddressAssumption
    <3> QED
      BY <2>1, <2>2, <3>3 DEF Opens, NewTask
  <2>3. CASE Registered(t) /\ Record(t)'.total_weight_accrued
                                = Record(t).total_weight_accrued
    BY <1>1, <1>2, <2>1, <2>3
  <2>4. ASSUME Registered(t)', ~Opens(t) 
        PROVE  Registered(t) /\ Record(t)'.total_weight_accrued
                                  = Record(t).total_weight_accrued
    <3>1. Keeps(t) \/ Cancels(t)
      BY <1>2, <2>4, RecordSteps DEF RecordStep, LeavesUnregistered, Counts
    <3>2. CASE Keeps(t)
      BY <3>2 DEF Keeps
    <3>3. CASE Cancels(t)
      BY <3>3, RecordType DEF Cancels, TaskRecord
    <3> QED
      BY <3>1, <3>2, <3>3
  <2> QED
    BY <2>1, <2>2, <2>3, <2>4
<1>3. ASSUME NEW g \in Address, Counts(t, g),
             ballot'[t] = [ballot[t] EXCEPT ![g] = reputation[g]]
      PROVE  /\ Record(t)'.total_weight_accrued = SumFunction(ballot'[t])
             /\ Voters(t)' = {a \in Address : ballot'[t][a] > 0}
  <2> DEFINE r == Record(t)
             w == reputation[g]
             b == ballot[t]
  <2>1. r \in TaskRecord /\ r.total_weight_accrued = SumFunction(b)
    BY <1>1, <1>3, RecordType DEF Counts
  <2>2. w \in 1..U64Max /\ ~Overflows(r, w) /\ r.votes # U32Max
    BY <1>3 DEF Counts
  <2>3. Record(t)' = Accrue(r, w)
    BY <1>3 DEF Counts
  <2>4. Voters(t)' = Voters(t) \cup {g} /\ g \notin Voters(t)
    BY <1>3 DEF Counts
  <2>5. ballot'[t] = [b EXCEPT ![g] = w] /\ b \in [Address -> 0..U64Max]
    BY <1>1, <1>3
  <2>6. Voters(t) = {a \in Address : b[a] > 0}
    BY <1>1
  <2> HIDE DEF r, w, b
  <2>7. b[g] = 0 /\ b \in [Address -> Nat] /\ w \in Nat /\ w > 0
    BY <2>2, <2>4, <2>5, <2>6, ConstantsAssumption
  <2>8. SumFunction([b EXCEPT ![g] = w]) = SumFunction(b) - b[g] + w
    BY <2>7, SumUpdated, AddressAssumption
  <2>9. Accrue(r, w).total_weight_accrued = r.total_weight_accrued + w
    BY <2>1, <2>2, AccrueType, ConstantsAssumption DEF TypeOK
  <2>10. SumFunction(b) \in Nat
    BY <2>7, SumCovers, AddressAssumption
  <2>11. SumFunction(ballot'[t]) = r.total_weight_accrued + w
    <3>1. SumFunction(b) - b[g] + w = SumFunction(b) + w
      BY <2>7, <2>10
    <3> QED
      BY <2>1, <2>5, <2>8, <3>1, Zenon
  <2>12. Voters(t)' = {a \in Address : ballot'[t][a] > 0}
    BY <2>4, <2>5, <2>6, <2>7
  <2> QED
    BY <2>3, <2>9, <2>11, <2>12
<1> QED
  BY <1>2, <1>3, BallotsOfTask

(* The weight of a task is the sum of the ballots published for it, for    *)
(* any number of guardians and any later change of their scores; nothing   *)
(* is counted twice, dropped or wrapped around.                            *)
THEOREM WeightIsSumOfBallots == Spec => []WeightMatchesBallots
PROOF
<1>1. Init => WeightMatchesBallots
  BY DEF Init, WeightMatchesBallots, Registered, has_active_task,
         has_archived_task, Voters
<1>2. TypeOK /\ VotesMatchVoters /\ WeightMatchesBallots /\ [Next]_vars
        => WeightMatchesBallots'
  BY WeightStep
<1> QED
  BY <1>1, <1>2, TypeCorrect, OneGuardianOneVote, PTL DEF Spec

-----------------------------------------------------------------------------
(* Life time                                                               *)

(* An expired instance refuses calls and a restored one answers again, but *)
(* neither makes a step the contract would not make: whatever holds of     *)
(* Spec holds across expiry and restore.                                   *)
THEOREM ExpiryIsHarmless == TtlSpec => Spec
PROOF
<1>1. TtlInit => Init
  BY DEF TtlInit
<1>2. [TtlNext]_<<vars, ttlVars>> => [Next]_vars
  <2> SUFFICES ASSUME [TtlNext]_<<vars, ttlVars>> PROVE [Next]_vars
    OBVIOUS
  <2>1. CASE ExtendingInvocation
    BY <2>1 DEF ExtendingInvocation, Next, TokenStep, GuardianStep
  <2>2. CASE PlainInvocation
    BY <2>2 DEF PlainInvocation, Withdraw, Next, TokenStep, GuardianStep
  <2>3. CASE CloseLedger
    BY <2>3 DEF CloseLedger, Next
  <2>4. CASE Restore
    BY <2>4 DEF Restore
  <2>5. CASE UNCHANGED <<vars, ttlVars>>
    BY <2>5
  <2> QED
    BY <2>1, <2>2, <2>3, <2>4, <2>5 DEF TtlNext
<1> QED
  BY <1>1, <1>2, PTL DEF TtlSpec, Spec

(* The strengthening: from the last extension on, and through every later  *)
(* expiry and restore, the entry is paid for to the end of the window.     *)
WindowInv ==
  /\ live_until \in Nat
  /\ extended_at \in Nat
  /\ extended_at > 0 => live_until >= extended_at + LEDGER_TTL

LEMMA WindowStep ==
  ASSUME TypeOK, WindowInv, [TtlNext]_<<vars, ttlVars>>
  PROVE  WindowInv'
PROOF
<1> USE DEF WindowInv
<1>1. now \in Nat /\ LEDGER_TTL \in Nat /\ RestoredTtl \in Nat
  BY TtlAssumption DEF TypeOK
<1>2. CASE ExtendingInvocation
  BY <1>1, <1>2 DEF ExtendingInvocation, ExtendedLife, extend_ttl
<1>3. CASE UNCHANGED ttlVars
  BY <1>3 DEF ttlVars
<1>4. CASE Restore
  BY <1>1, <1>4 DEF Restore, Live
<1> QED
  BY <1>2, <1>3, <1>4 DEF TtlNext, PlainInvocation, CloseLedger

(* For LEDGER_TTL ledgers after any initialize or add_guardian the         *)
(* contract answers, whatever was left of its life time at that moment and *)
(* whatever life times the network grants.                                 *)
THEOREM WindowIsHonoured == TtlSpec => []WindowHonoured
PROOF
<1>1. TtlInit => WindowInv
  BY TtlAssumption, GenesisAssumption DEF TtlInit, Init, WindowInv
<1>2. TypeOK /\ WindowInv /\ [TtlNext]_<<vars, ttlVars>> => WindowInv'
  BY WindowStep
<1>3. TypeOK /\ WindowInv => WindowHonoured
  BY TtlAssumption DEF TypeOK, WindowInv, WindowHonoured, Live
<1>4. TtlSpec => []TypeOK
  BY ExpiryIsHarmless, TypeCorrect, PTL
<1> QED
  BY <1>1, <1>2, <1>3, <1>4, PTL DEF TtlSpec
=============================================================================
