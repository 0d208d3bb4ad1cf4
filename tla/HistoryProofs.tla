--------------------------- MODULE HistoryProofs ---------------------------
(***************************************************************************)
(* The history a turn sends: what prepare_turn reads and stores while      *)
(* turns of one conversation overlap (Conversation), and what              *)
(* trim_to_context_window keeps of it (ContextWindow).                     *)
(***************************************************************************)
EXTENDS Conversation, ContextWindow,
        FiniteSetTheorems, SequenceTheorems, WellFoundedInduction, TLAPS

-----------------------------------------------------------------------------
(* Induction, stated for a set of numbers instead of a predicate.          *)

LEMMA NatSetInduction ==
    ASSUME NEW S, 0 \in S, \A n \in Nat : n \in S => n + 1 \in S
    PROVE  Nat \subseteq S
  <1> DEFINE T == Nat \ S
  <1> SUFFICES ASSUME T # {}
               PROVE  FALSE
    OBVIOUS
  <1>1. PICK n \in T : \A m \in T : ~ (<<m, n>> \in OpToRel(<, Nat))
    <2> HIDE DEF T
    <2>1. T \subseteq Nat
      BY DEF T
    <2> QED
      BY <2>1, NatLessThanWellFounded, WFMin
  <1>2. n \in Nat /\ n \notin S /\ n # 0
    OBVIOUS
  <1>3. n - 1 \in Nat /\ n - 1 < n /\ n = (n - 1) + 1
    BY <1>2
  <1>4. <<n - 1, n>> \in OpToRel(<, Nat)
    BY <1>2, <1>3 DEF OpToRel
  <1>5. n - 1 \in S
    BY <1>1, <1>3, <1>4
  <1> QED
    BY <1>2, <1>3, <1>5

\* A recursive sum of finitely many terms exists: the definition of
\* TokensOfLast is one, and would otherwise say nothing.
LEMMA SumsExist ==
    ASSUME NEW N \in Nat, NEW c
    PROVE  \E f : f = [n \in 0..N |-> IF n = 0 THEN 0 ELSE f[n - 1] + c[n]]
  <1> DEFINE IsSum(f, k) == f = [n \in 0..k |-> IF n = 0 THEN 0 ELSE f[n - 1] + c[n]]
             S == {k \in Nat : \E f : IsSum(f, k)}
  <1>1. 0 \in S
    <2> DEFINE f == [n \in 0..0 |-> 0]
    <2>1. IsSum(f, 0)
      OBVIOUS
    <2> QED
      BY <2>1
  <1>2. ASSUME NEW k \in Nat, k \in S
        PROVE  k + 1 \in S
    <2>1. PICK f : IsSum(f, k)
      BY <1>2
    <2> DEFINE g == [n \in 0..(k + 1) |-> IF n = 0 THEN 0 ELSE f[n - 1] + c[n]]
    <2>2. \A n \in 0..k : g[n] = f[n]
      BY <2>1
    <2>3. g = [n \in 0..(k + 1) |-> IF n = 0 THEN 0 ELSE g[n - 1] + c[n]]
      <3>1. \A n \in 0..(k + 1) : n # 0 => n - 1 \in 0..k
        OBVIOUS
      <3>2. \A n \in 0..(k + 1) :
              (IF n = 0 THEN 0 ELSE f[n - 1] + c[n]) = (IF n = 0 THEN 0 ELSE g[n - 1] + c[n])
        BY <2>2, <3>1
      <3> HIDE DEF g
      <3>3. g = [n \in 0..(k + 1) |-> IF n = 0 THEN 0 ELSE f[n - 1] + c[n]]
        BY DEF g
      <3> QED
        BY <3>2, <3>3
    <2>4. IsSum(g, k + 1)
      BY <2>3
    <2> HIDE DEF g, IsSum
    <2> QED
      BY <2>4
  <1> HIDE DEF S
  <1>3. N \in S
    BY <1>1, <1>2, NatSetInduction
  <1> QED
    BY <1>3 DEF S

-----------------------------------------------------------------------------
(* Sorting by rank: of n things in a strict total order (before[x] is the  *)
(* set of those that come before x), each number below n is the rank of    *)
(* exactly one.                                                            *)

LEMMA RanksAreUnique ==
    ASSUME NEW S, IsFiniteSet(S), NEW before \in [S -> SUBSET S],
           \A x \in S : x \notin before[x],
           \A x, y \in S : x \in before[y] => before[x] \subseteq before[y],
           \A x, y \in S : x = y \/ x \in before[y] \/ y \in before[x]
    PROVE  /\ Cardinality(S) \in Nat
           /\ \A x \in S : Cardinality(before[x]) \in 0..(Cardinality(S) - 1)
           /\ \A x, y \in S :
                x \in before[y] <=> Cardinality(before[x]) < Cardinality(before[y])
           /\ \A k \in 0..(Cardinality(S) - 1) : \E x \in S : Cardinality(before[x]) = k
  <1> DEFINE n == Cardinality(S)
             rank == [x \in S |-> Cardinality(before[x]) + 1]
  <1>1. n \in Nat
    BY FS_CardinalityType
  <1>2. ASSUME NEW x \in S
        PROVE  IsFiniteSet(before[x]) /\ Cardinality(before[x]) \in 0..(n - 1)
    <2>1. before[x] \in SUBSET S /\ before[x] # S
      OBVIOUS
    <2>2. /\ IsFiniteSet(before[x])
          /\ Cardinality(before[x]) <= Cardinality(S)
          /\ Cardinality(S) = Cardinality(before[x]) => S = before[x]
      BY <2>1, FS_Subset
    <2>3. Cardinality(before[x]) \in Nat
      BY <2>2, FS_CardinalityType
    <2> QED
      BY <1>1, <2>1, <2>2, <2>3
  <1>3. ASSUME NEW x \in S, NEW y \in S, x \in before[y]
        PROVE  Cardinality(before[x]) < Cardinality(before[y])
    <2>1. before[x] \in SUBSET before[y] /\ before[x] # before[y]
      BY <1>3
    <2>2. /\ Cardinality(before[x]) <= Cardinality(before[y])
          /\ Cardinality(before[y]) = Cardinality(before[x]) => before[y] = before[x]
      BY <1>2, <2>1, FS_Subset
    <2> QED
      BY <1>1, <1>2, <2>1, <2>2
  <1>4. ASSUME NEW x \in S, NEW y \in S
        PROVE  x \in before[y] <=> Cardinality(before[x]) < Cardinality(before[y])
    <2>1. Cardinality(before[x]) \in Nat /\ Cardinality(before[y]) \in Nat
      BY <1>1, <1>2
    <2>2. CASE x = y
      BY <2>1, <2>2
    <2>3. CASE x \in before[y]
      BY <1>3, <2>3
    <2>4. CASE y \in before[x]
      <3>1. Cardinality(before[y]) < Cardinality(before[x])
        BY <1>3, <2>4
      <3>2. x \notin before[y]
        BY <1>3, <2>1, <3>1
      <3> QED
        BY <2>1, <3>1, <3>2
    <2> QED
      BY <2>2, <2>3, <2>4
  <1>5. rank \in Injection(S, 1..n)
    <2>1. rank \in [S -> 1..n]
      BY <1>1, <1>2
    <2>2. \A x, y \in S : rank[x] = rank[y] => x = y
      <3> SUFFICES ASSUME NEW x \in S, NEW y \in S, rank[x] = rank[y]
                   PROVE  x = y
        OBVIOUS
      <3>1. Cardinality(before[x]) \in Nat /\ Cardinality(before[y]) \in Nat
            /\ Cardinality(before[x]) = Cardinality(before[y])
        BY <1>1, <1>2
      <3> HIDE DEF rank
      <3> QED
        BY <3>1, <1>4
    <2> HIDE DEF rank
    <2> QED
      BY <2>1, <2>2 DEF Injection, IsInjective
  <1>6. rank \in Surjection(S, 1..n)
    <2>1. IsFiniteSet(1..n) /\ Cardinality(1..n) = n
      BY <1>1, FS_Interval
    <2> HIDE DEF rank
    <2> QED
      BY <1>5, <2>1, FS_Injection
  <1>7. ASSUME NEW k \in 0..(n - 1)
        PROVE  \E x \in S : Cardinality(before[x]) = k
    <2>1. k + 1 \in 1..n
      BY <1>1
    <2>2. PICK x \in S : rank[x] = k + 1
      <3> HIDE DEF rank, n
      <3> QED
        BY <1>6, <2>1 DEF Surjection
    <2>3. Cardinality(before[x]) \in Nat /\ Cardinality(before[x]) + 1 = k + 1
      BY <1>1, <1>2, <2>2
    <2> QED
      BY <2>3, <1>1
  <1> QED
    BY <1>1, <1>2, <1>4, <1>7

-----------------------------------------------------------------------------
(* trim_to_context_window.                                                 *)

\* What has been kept, newest first while the loop runs, in order afterwards,
\* and the budget it was kept under.
TrimInv ==
    /\ TrimTypeOK
    /\ Len(kept) = Len(history) - pos
    /\ loop = "scan" => kept = [i \in 1..(Len(history) - pos) |-> Len(history) + 1 - i]
    /\ loop = "returned" => kept = Suffix(Len(history) - pos)
    /\ loop = "returned" => pos < Len(history) \/ history = <<>>
    /\ Len(kept) > 1 => used <= budget
    /\ loop = "returned" /\ pos > 0 => used + Cost(pos) > budget

LEMMA AtLeastOnePositive ==
    ASSUME NEW n \in Int
    PROVE  AtLeastOne(n) \in Nat \ {0} /\ AtLeastOne(n) >= n
  BY DEF AtLeastOne

\* No message is free and every budget has room for something.
LEMMA CostsArePositive ==
    ASSUME TrimTypeOK, NEW i \in 1..Len(history)
    PROVE  Cost(i) \in Nat \ {0}
  <1>1. history[i] \in Nat
    BY DEF TrimTypeOK
  <1>2. history[i] \div 4 \in Int
    BY <1>1
  <1> QED
    BY <1>2, AtLeastOnePositive DEF Cost, estimate_tokens

\* The tokens of the last messages are what the recursion says, and grow.
LEMMA TokensAreSums ==
    ASSUME NEW costs, costs \in Seq(Nat)
    PROVE  /\ TokensOfLast(costs) \in [0..Len(costs) -> Nat]
           /\ TokensOfLast(costs)[0] = 0
           /\ \A n \in 1..Len(costs) :
                TokensOfLast(costs)[n] = TokensOfLast(costs)[n - 1] + costs[Len(costs) + 1 - n]
           /\ \A m, n \in 0..Len(costs) :
                m <= n => TokensOfLast(costs)[m] <= TokensOfLast(costs)[n]
  <1> DEFINE N == Len(costs)
             c == [n \in 1..N |-> costs[N + 1 - n]]
             T == TokensOfLast(costs)
  <1>1. N \in Nat /\ \A n \in 1..N : N + 1 - n \in 1..N
    OBVIOUS
  <1>2. \A n \in 1..N : costs[N + 1 - n] \in Nat
    BY <1>1
  <1>3. T = [n \in 0..N |-> IF n = 0 THEN 0 ELSE T[n - 1] + costs[N + 1 - n]]
    <2>1. PICK f : f = [n \in 0..N |-> IF n = 0 THEN 0 ELSE f[n - 1] + c[n]]
      <3> HIDE DEF N, c
      <3> QED
        BY <1>1, SumsExist
    <2>2. \A n \in 0..N : n # 0 => c[n] = costs[N + 1 - n]
      BY <1>1
    <2>3. f = [n \in 0..N |-> IF n = 0 THEN 0 ELSE f[n - 1] + costs[N + 1 - n]]
      <3> HIDE DEF N, c
      <3> QED
        BY <2>1, <2>2
    <2> QED
      BY <2>3 DEF TokensOfLast
  <1> HIDE DEF T, N, c
  <1>4. T[0] = 0 /\ \A n \in 1..N : T[n] = T[n - 1] + costs[N + 1 - n]
    BY <1>1, <1>3
  <1>5. \A n \in 0..N : T[n] \in Nat
    <2> DEFINE S == {n \in Nat : n \in 0..N => T[n] \in Nat}
    <2>1. 0 \in S
      BY <1>4
    <2>2. ASSUME NEW n \in Nat, n \in S
          PROVE  n + 1 \in S
      <3> SUFFICES ASSUME n + 1 \in 0..N
                   PROVE  T[n + 1] \in Nat
        OBVIOUS
      <3>1. n \in 0..N /\ n + 1 \in 1..N
        BY <1>1
      <3>2. T[n + 1] = T[n] + costs[N + 1 - (n + 1)]
        BY <1>4, <3>1
      <3> QED
        BY <1>2, <2>2, <3>1, <3>2
    <2> HIDE DEF S
    <2>3. Nat \subseteq S
      BY <2>1, <2>2, NatSetInduction
    <2> QED
      BY <1>1, <2>3 DEF S
  <1>6. ASSUME NEW m \in 0..N
        PROVE  \A n \in 0..N : m <= n => T[m] <= T[n]
    <2> DEFINE S == {n \in Nat : n \in m..N => T[m] <= T[n]}
    <2>1. 0 \in S
      BY <1>5, <1>1
    <2>2. ASSUME NEW n \in Nat, n \in S
          PROVE  n + 1 \in S
      <3> SUFFICES ASSUME n + 1 \in m..N
                   PROVE  T[m] <= T[n + 1]
        OBVIOUS
      <3>1. CASE n + 1 = m
        BY <3>1, <1>5
      <3>2. CASE n + 1 # m
        <4>1. n \in m..N /\ n \in 0..N /\ n + 1 \in 1..N
          BY <1>1, <3>2
        <4>2. T[n + 1] = T[n] + costs[N + 1 - (n + 1)] /\ T[m] <= T[n]
          BY <1>4, <2>2, <4>1
        <4> QED
          BY <1>2, <1>5, <4>1, <4>2
      <3> QED
        BY <3>1, <3>2
    <2> HIDE DEF S
    <2>3. Nat \subseteq S
      BY <2>1, <2>2, NatSetInduction
    <2> QED
      BY <1>1, <2>3 DEF S
  <1>7. T \in [0..N -> Nat]
    BY <1>3, <1>5
  <1> QED
    BY <1>4, <1>6, <1>7 DEF T, N

\* At most one length is the longest that fits: the trimming is a function.
LEMMA LongestFitIsUnique ==
    ASSUME NEW costs, costs \in Seq(Nat), NEW budget_ \in Nat,
           NEW m \in LongestFit(costs, budget_), NEW n \in LongestFit(costs, budget_)
    PROVE  m = n
  <1>1. \A k \in 0..Len(costs) : TokensOfLast(costs)[k] \in Nat
    BY TokensAreSums
  <1>2. m \in 0..Len(costs) /\ n \in 0..Len(costs) /\ Len(costs) \in Nat
    BY DEF LongestFit
  <1>3. ASSUME NEW j \in LongestFit(costs, budget_), NEW k \in LongestFit(costs, budget_), j < k
        PROVE  FALSE
    <2>1. k \in (j + 1)..Len(costs) /\ k \in 0..Len(costs) /\ j \in 0..Len(costs)
      BY <1>3 DEF LongestFit
    <2>2. k > 1 /\ TokensOfLast(costs)[k] > budget_
      BY <2>1 DEF LongestFit
    <2>3. TokensOfLast(costs)[k] <= budget_
      BY <2>1, <2>2 DEF LongestFit
    <2> QED
      BY <1>1, <2>1, <2>2, <2>3
  <1> QED
    BY <1>2, <1>3

\* What the end of a history costs is read off the whole history.
LEMMA TokensOfTheEnd ==
    ASSUME NEW costs, costs \in Seq(Nat), NEW n \in 0..Len(costs)
    PROVE  /\ Newest(costs, n) \in Seq(Nat) /\ Len(Newest(costs, n)) = n
           /\ TokensOfLast(Newest(costs, n))[n] = TokensOfLast(costs)[n]
  <1> DEFINE N == Len(costs)
             e == Newest(costs, n)
             T == TokensOfLast(costs)
             U == TokensOfLast(e)
  <1>1. /\ e \in Seq(Nat) /\ Len(e) = n /\ N \in Nat
        /\ \A k \in 1..n : e[k] = costs[N - n + k]
    BY DEF Newest
  <1>2. /\ T[0] = 0 /\ \A k \in 1..N : T[k] = T[k - 1] + costs[N + 1 - k]
    BY TokensAreSums
  <1> HIDE DEF e
  <1>3. /\ U[0] = 0 /\ \A k \in 1..n : U[k] = U[k - 1] + e[n + 1 - k]
    BY <1>1, TokensAreSums
  <1> HIDE DEF T, U, N
  <1> DEFINE S == {k \in Nat : k \in 0..n => U[k] = T[k]}
  <1>4. 0 \in S
    BY <1>2, <1>3
  <1>5. ASSUME NEW k \in Nat, k \in S
        PROVE  k + 1 \in S
    <2> SUFFICES ASSUME k + 1 \in 0..n
                 PROVE  U[k + 1] = T[k + 1]
      OBVIOUS
    <2>0. n \in 0..N
      BY DEF N
    <2>1. /\ k \in 0..n /\ k + 1 \in 1..n /\ k + 1 \in 1..N /\ (k + 1) - 1 = k
          /\ n + 1 - (k + 1) \in 1..n /\ N - n + (n + 1 - (k + 1)) = N + 1 - (k + 1)
      BY <1>1, <2>0
    <2>2. e[n + 1 - (k + 1)] = costs[N + 1 - (k + 1)]
      BY <1>1, <2>1
    <2>3. U[k + 1] = U[k] + e[n + 1 - (k + 1)]
      BY <1>3, <2>1
    <2>4. T[k + 1] = T[k] + costs[N + 1 - (k + 1)]
      BY <1>2, <2>1
    <2>5. U[k] = T[k]
      BY <1>5, <2>1
    <2> QED
      BY <2>2, <2>3, <2>4, <2>5
  <1> HIDE DEF S
  <1>6. Nat \subseteq S
    BY <1>4, <1>5, NatSetInduction
  <1>7. U[n] = T[n]
    <2>1. n \in Nat /\ n \in 0..n
      BY <1>1
    <2> QED
      BY <1>6, <2>1 DEF S
  <1> QED
    BY <1>1, <1>7 DEF e, T, U

\* The estimates of a history, for the loop.
LEMMA CostsAreTokens ==
    ASSUME TrimTypeOK
    PROVE  /\ Costs \in Seq(Nat) /\ Len(Costs) = Len(history)
           /\ \A i \in 1..Len(history) : Costs[i] = Cost(i)
  <1>1. Len(history) \in Nat /\ \A i \in 1..Len(history) : Cost(i) \in Nat
    BY CostsArePositive DEF TrimTypeOK
  <1> QED
    BY <1>1 DEF Costs

LEMMA BudgetsArePositive ==
    ASSUME NEW w \in Windows, NEW r \in Reservations
    PROVE  Budget(w, r) \in Nat \ {0}
  <1>1. ((w - r) * 9) \div 10 \in Int
    BY WindowAssumption
  <1> QED
    BY <1>1, AtLeastOnePositive DEF Budget

LEMMA TrimInitially == TrimInit => TrimInv
  <1> SUFFICES ASSUME TrimInit
               PROVE  TrimInv
    OBVIOUS
  <1>1. history \in Seq(Nat) /\ budget \in Nat \ {0}
    BY WindowAssumption, BudgetsArePositive DEF TrimInit
  <1>2. Len(history) \in Nat
    BY <1>1
  <1>3. kept = [i \in 1..(Len(history) - pos) |-> Len(history) + 1 - i]
    BY <1>2 DEF TrimInit
  <1> QED
    BY <1>1, <1>2, <1>3 DEF TrimInit, TrimInv, TrimTypeOK

\* One more message is kept.
LEMMA KeepKeeps == TrimInv /\ Keep => TrimInv'
  <1> SUFFICES ASSUME TrimInv, Keep
               PROVE  TrimInv'
    OBVIOUS
  <1> DEFINE n == Len(history) - pos
  <1>1. TrimTypeOK /\ Len(kept) = n /\ kept = [i \in 1..n |-> Len(history) + 1 - i]
    BY DEF TrimInv, Keep
  <1>2. /\ history \in Seq(Nat) /\ kept \in Seq(1..Len(history))
        /\ pos \in 1..Len(history) /\ used \in Nat /\ budget \in Nat \ {0}
    BY <1>1 DEF TrimTypeOK, Keep
  <1>3. Cost(pos) \in Nat \ {0}
    BY <1>1, <1>2, CostsArePositive
  <1>4. /\ kept' = Append(kept, pos) /\ pos' = pos - 1 /\ used' = used + Cost(pos)
        /\ UNCHANGED <<history, budget, loop>> /\ loop = "scan" /\ Fits(pos)
    BY DEF Keep
  <1>5. n \in Nat /\ n = Len(kept) /\ Len(history) - pos' = n + 1 /\ pos = Len(history) - n
    BY <1>1, <1>2, <1>4
  <1>6. TrimTypeOK'
    BY <1>2, <1>3, <1>4 DEF TrimTypeOK
  <1>7. /\ kept' \in Seq(1..Len(history)) /\ Len(kept') = n + 1
        /\ \A i \in 1..n : kept'[i] = kept[i]
        /\ kept'[n + 1] = pos
    <2>1. kept' = Append(kept, pos) /\ kept \in Seq(1..Len(history)) /\ pos \in 1..Len(history)
      BY <1>2, <1>4
    <2> DEFINE S == 1..Len(history)
    <2>2. kept \in Seq(S) /\ pos \in S
      BY <2>1
    <2> HIDE DEF S
    <2>3. /\ Append(kept, pos) \in Seq(S)
          /\ Len(Append(kept, pos)) = Len(kept) + 1
          /\ \A i \in 1..Len(kept) : Append(kept, pos)[i] = kept[i]
          /\ Append(kept, pos)[Len(kept) + 1] = pos
      BY <2>2, AppendProperties
    <2>4. n = Len(kept)
      BY <1>5
    <2> HIDE DEF n
    <2> USE DEF S
    <2> QED
      BY <2>1, <2>3, <2>4
  <1>8. kept' = [i \in 1..(n + 1) |-> Len(history) + 1 - i]
    <2>1. kept' = [i \in 1..(n + 1) |-> kept'[i]]
      BY <1>5, <1>7
    <2>2. \A i \in 1..(n + 1) : kept'[i] = Len(history) + 1 - i
      <3>1. \A i \in 1..n : kept'[i] = Len(history) + 1 - i
        BY <1>1, <1>7
      <3>2. kept'[n + 1] = Len(history) + 1 - (n + 1)
        BY <1>2, <1>5, <1>7
      <3>3. \A i \in 1..(n + 1) : i \in 1..n \/ i = n + 1
        BY <1>5
      <3> QED
        BY <3>1, <3>2, <3>3
    <2> HIDE DEF n
    <2> QED
      BY <2>1, <2>2
  <1>9. Len(kept') > 1 => used' <= budget
    <2>1. Len(kept') > 1 => kept # <<>>
      BY <1>5, <1>7
    <2> QED
      BY <2>1, <1>4 DEF Fits
  <1>10. /\ Len(kept') = Len(history') - pos'
         /\ kept' = [i \in 1..(Len(history') - pos') |-> Len(history') + 1 - i]
    BY <1>4, <1>5, <1>7, <1>8
  <1> HIDE DEF n
  <1> QED
    BY <1>4, <1>6, <1>9, <1>10 DEF TrimInv

\* The kept messages are put in the order of the conversation.
LEMMA ReturnKeeps == TrimInv /\ Return => TrimInv'
  <1> SUFFICES ASSUME TrimInv, Return
               PROVE  TrimInv'
    OBVIOUS
  <1> USE DEF TrimInv, TrimTypeOK
  <1>1. pos \in 0..Len(history) /\ Len(history) \in Nat /\ kept \in Seq(1..Len(history))
    OBVIOUS
  <1> DEFINE n == Len(history) - pos
  <1>n. n \in Nat /\ n = Len(kept)
    BY <1>1
  <1>2. kept' = Suffix(Len(history) - pos)
    <2>1. kept' = [i \in 1..n |-> kept[n + 1 - i]]
      BY <1>n DEF Return, Reversed
    <2>2. kept = [i \in 1..n |-> Len(history) + 1 - i]
      BY DEF Return
    <2>3. \A i \in 1..n : n + 1 - i \in 1..n /\ kept[n + 1 - i] = Len(history) - n + i
      BY <2>2, <1>n, <1>1
    <2> HIDE DEF n
    <2>4. kept' = [i \in 1..n |-> Len(history) - n + i]
      BY <2>1, <2>3
    <2> QED
      BY <2>4 DEF Suffix, n
  <1>3. kept' \in Seq(1..Len(history)) /\ Len(kept') = Len(history) - pos
    BY <1>1, <1>2 DEF Suffix
  <1>4. pos < Len(history) \/ history = <<>>
    BY <1>1 DEF Return, Fits
  <1>5. pos > 0 => used + Cost(pos) > budget
    <2> SUFFICES ASSUME pos > 0
                 PROVE  used + Cost(pos) > budget
      OBVIOUS
    <2>1. Cost(pos) \in Nat /\ used \in Nat /\ budget \in Nat
      BY CostsArePositive
    <2> QED
      BY <2>1 DEF Return, Fits
  <1>6. UNCHANGED <<history, budget, pos, used>> /\ loop' = "returned"
    BY DEF Return
  <1>7. TrimTypeOK'
    BY <1>3, <1>6
  <1>8. Suffix(Len(history) - pos)' = Suffix(Len(history) - pos) /\ Cost(pos)' = Cost(pos)
    BY <1>6 DEF Suffix, Cost
  <1>9. Len(kept') > 1 => used' <= budget'
    BY <1>3, <1>6
  <1> QED
    BY <1>2, <1>3, <1>4, <1>5, <1>6, <1>7, <1>8, <1>9

LEMMA TrimInductive == TrimInv /\ [TrimNext]_trim_vars => TrimInv'
  <1>1. TrimInv /\ UNCHANGED trim_vars => TrimInv'
    BY DEF TrimInv, TrimTypeOK, trim_vars, Suffix, Cost
  <1> QED
    BY <1>1, KeepKeeps, ReturnKeeps DEF TrimNext, Trimmed

LEMMA TrimInvariance == TrimSpec => []TrimInv
  BY TrimInitially, TrimInductive, PTL DEF TrimSpec

\* Every variable of the loop has its type; the budget is never zero.
THEOREM TrimTypeCorrect == TrimSpec => []TrimTypeOK
  BY TrimInvariance, PTL DEF TrimInv

\* trim_to_context_window returns the end of the conversation, in order and
\* never empty.
THEOREM NewestInOrderHolds == TrimSpec => []NewestInOrder
  <1>1. TrimInv => NewestInOrder
    <2> SUFFICES ASSUME TrimInv, loop = "returned"
                 PROVE  /\ kept = Suffix(Len(history) - pos)
                        /\ history # <<>> =>
                              Len(kept) > 0 /\ kept[Len(kept)] = Len(history)
      BY DEF NewestInOrder
    <2>1. pos \in 0..Len(history) /\ Len(history) \in Nat
      BY DEF TrimInv, TrimTypeOK
    <2> QED
      BY <2>1 DEF TrimInv, Suffix
  <1> QED
    BY <1>1, TrimInvariance, PTL

\* It fits the budget unless it is one message, and the next would not fit.
THEOREM KeptFitsHolds == TrimSpec => []KeptFits
  <1>1. TrimInv => KeptFits
    BY DEF TrimInv, KeptFits
  <1> QED
    BY <1>1, TrimInvariance, PTL
\* What is used is the cost of what is kept, by the reference's count.
UsedIsSum == used = TokensOfLast(Costs)[Len(history) - pos]

LEMMA UsedStaysSum == TrimInv /\ UsedIsSum /\ [TrimNext]_trim_vars => UsedIsSum'
  <1> SUFFICES ASSUME TrimInv, UsedIsSum, [TrimNext]_trim_vars
               PROVE  UsedIsSum'
    OBVIOUS
  <1>1. history' = history /\ Costs' = Costs
    BY DEF TrimNext, Keep, Return, Trimmed, trim_vars, Costs, Cost
  <1>2. CASE Keep
    <2> DEFINE n == Len(history) - pos
    <2>1. pos \in 1..Len(history) /\ Len(history) \in Nat /\ pos' = pos - 1
          /\ used' = used + Cost(pos)
      BY <1>2 DEF Keep, TrimInv, TrimTypeOK
    <2>2. n + 1 \in 1..Len(history) /\ (n + 1) - 1 = n /\ Len(history) + 1 - (n + 1) = pos
          /\ Len(history') - pos' = n + 1
      BY <1>1, <2>1
    <2>3. TokensOfLast(Costs)[n + 1] = TokensOfLast(Costs)[n] + Cost(pos)
      <3> HIDE DEF n
      <3>1. TokensOfLast(Costs)[n + 1] = TokensOfLast(Costs)[(n + 1) - 1]
                                             + Costs[Len(Costs) + 1 - (n + 1)]
        <4>1. Costs \in Seq(Nat) /\ n + 1 \in 1..Len(Costs)
          BY <2>2, CostsAreTokens DEF TrimInv
        <4> QED
          BY <4>1, TokensAreSums
      <3> QED
        BY <2>1, <2>2, <3>1, CostsAreTokens DEF TrimInv
    <2>4. used = TokensOfLast(Costs)[n]
      BY DEF UsedIsSum
    <2> HIDE DEF n
    <2> QED
      BY <1>1, <2>1, <2>2, <2>3, <2>4 DEF UsedIsSum
  <1>3. CASE ~Keep
    <2>1. used' = used /\ pos' = pos
      BY <1>3 DEF TrimNext, Return, Trimmed, trim_vars
    <2> QED
      BY <1>1, <2>1 DEF UsedIsSum
  <1> QED
    BY <1>2, <1>3

\* The loop computes the reference: for every conversation, window and
\* reservation, what is returned is the longest suffix that fits, but at least
\* one message.
THEOREM MatchesReferenceHolds == TrimSpec => []MatchesReference
  <1>1. TrimInit => UsedIsSum
    <2> SUFFICES ASSUME TrimInit
                 PROVE  UsedIsSum
      OBVIOUS
    <2>1. TrimTypeOK
      BY TrimInitially DEF TrimInv
    <2>2. Len(history) - pos = 0 /\ used = 0
      BY <2>1 DEF TrimInit, TrimTypeOK
    <2> QED
      BY <2>1, <2>2, CostsAreTokens, TokensAreSums DEF UsedIsSum
  <1>2. TrimInv /\ UsedIsSum => MatchesReference
    <2> SUFFICES ASSUME TrimInv, UsedIsSum, loop = "returned"
                 PROVE  \E n \in LongestFit(Costs, budget) :
                            kept = Suffix(n) /\ used = TokensOfLast(Costs)[n]
      BY DEF MatchesReference
    <2> DEFINE n == Len(history) - pos
               T == TokensOfLast(Costs)
    <2>0. /\ Costs \in Seq(Nat) /\ Len(Costs) = Len(history)
          /\ \A i \in 1..Len(history) : Costs[i] = Cost(i)
      BY CostsAreTokens DEF TrimInv
    <2>1. /\ Len(history) \in Nat /\ pos \in 0..Len(history)
          /\ used \in Nat /\ budget \in Nat
      BY DEF TrimInv, TrimTypeOK
    <2>2. n \in 0..Len(history) /\ pos = Len(history) - n
      BY <2>1
    <2>3. kept = Suffix(n) /\ Len(kept) = n /\ used = T[n]
      BY DEF TrimInv, UsedIsSum
    <2>4. n <= 1 \/ T[n] <= budget
      BY <2>2, <2>3 DEF TrimInv
    <2>5. ASSUME NEW m \in (n + 1)..Len(history)
          PROVE  m > 1 /\ T[m] > budget
      <3>1. pos > 0 /\ Len(history) > 0
        BY <2>1, <2>2, <2>5
      <3>2. used + Cost(pos) > budget
        BY <3>1 DEF TrimInv
      <3>3. pos < Len(history)
        BY <3>1 DEF TrimInv
      <3>4. n + 1 \in 1..Len(history) /\ (n + 1) - 1 = n /\ Len(history) + 1 - (n + 1) = pos
            /\ m \in 0..Len(history) /\ n + 1 \in 0..Len(history) /\ n + 1 <= m /\ m > 1
        BY <2>1, <2>2, <2>5, <3>1, <3>3
      <3> HIDE DEF n
      <3>5. T[n + 1] = T[(n + 1) - 1] + Costs[Len(history) + 1 - (n + 1)]
        BY <2>0, <3>4, TokensAreSums
      <3>6. T[n + 1] = used + Cost(pos)
        BY <2>0, <2>1, <2>3, <3>1, <3>4, <3>5
      <3>7. T[n + 1] <= T[m] /\ T[n + 1] \in Nat /\ T[m] \in Nat
        BY <2>0, <3>4, TokensAreSums
      <3> HIDE DEF T
      <3> QED
        BY <2>1, <3>2, <3>4, <3>6, <3>7
    <2> HIDE DEF n
    <2>6. n \in LongestFit(Costs, budget)
      BY <2>0, <2>2, <2>4, <2>5 DEF LongestFit
    <2> QED
      BY <2>3, <2>6
  <1> QED
    BY <1>1, <1>2, UsedStaysSum, TrimInvariance, PTL DEF TrimSpec

-----------------------------------------------------------------------------
(* The two transactions of a turn.                                         *)

\* Rows of different age, as list_for_conversation returns them: all of them,
\* once, the older before the younger.
LEMMA OrderedIsSorted ==
    ASSUME NEW rows, IsFiniteSet(rows), \A r \in rows : r.created_at \in Nat,
           \A r, s \in rows : r.created_at = s.created_at => r = s
    PROVE  /\ Cardinality(rows) \in Nat
           /\ Ordered(rows) \in [1..Cardinality(rows) -> rows]
           /\ Len(Ordered(rows)) = Cardinality(rows)
           /\ \A r \in rows : \E k \in 1..Cardinality(rows) : Ordered(rows)[k] = r
           /\ \A j, k \in 1..Cardinality(rows) :
                j < k <=> Ordered(rows)[j].created_at < Ordered(rows)[k].created_at
  <1> DEFINE n == Cardinality(rows)
             before == [r \in rows |-> Before(rows, r)]
             rank(r) == Cardinality(Before(rows, r))
             seq == Ordered(rows)
  <1>1. /\ before \in [rows -> SUBSET rows]
        /\ \A r \in rows : r \notin before[r]
        /\ \A r, s \in rows : r \in before[s] => before[r] \subseteq before[s]
        /\ \A r, s \in rows : r = s \/ r \in before[s] \/ s \in before[r]
        /\ \A r, s \in rows : r \in before[s] <=> r.created_at < s.created_at
    BY DEF Before
  <1>2. /\ n \in Nat
        /\ \A r \in rows : Cardinality(before[r]) \in 0..(n - 1)
        /\ \A r, s \in rows : r \in before[s] <=> Cardinality(before[r]) < Cardinality(before[s])
        /\ \A k \in 0..(n - 1) : \E r \in rows : Cardinality(before[r]) = k
    <2> HIDE DEF before
    <2> QED
      BY <1>1, RanksAreUnique
  <1>3. /\ n \in Nat
        /\ \A r \in rows : rank(r) \in 0..(n - 1)
        /\ \A r, s \in rows : r.created_at < s.created_at <=> rank(r) < rank(s)
        /\ \A k \in 0..(n - 1) : \E r \in rows : rank(r) = k
    <2>1. \A r \in rows : Cardinality(before[r]) = rank(r)
      OBVIOUS
    <2> HIDE DEF before, rank, n
    <2> QED
      BY <1>1, <1>2, <2>1
  <1>4. seq = [k \in 1..n |-> CHOOSE r \in rows : rank(r) = k - 1]
    BY DEF Ordered
  <1> HIDE DEF n, before, rank, seq
  <1>5. ASSUME NEW k \in 1..n
        PROVE  seq[k] \in rows /\ rank(seq[k]) = k - 1
    <2>1. k - 1 \in 0..(n - 1)
      BY <1>3
    <2>2. \E r \in rows : rank(r) = k - 1
      BY <1>3, <2>1
    <2>3. seq[k] = CHOOSE r \in rows : rank(r) = k - 1
      BY <1>4
    <2> QED
      BY <2>2, <2>3
  <1>6. seq \in [1..n -> rows]
    BY <1>4, <1>5
  <1>7. ASSUME NEW r \in rows
        PROVE  \E k \in 1..n : seq[k] = r
    <2> DEFINE k == rank(r) + 1
    <2>1. k \in 1..n /\ k - 1 = rank(r)
      BY <1>3
    <2> HIDE DEF k
    <2>2. seq[k] \in rows /\ rank(seq[k]) = rank(r)
      BY <1>5, <2>1
    <2>3. rank(r) \in Nat
      BY <1>3
    <2>4. ~ seq[k].created_at < r.created_at /\ ~ r.created_at < seq[k].created_at
      BY <1>3, <2>2, <2>3
    <2>5. seq[k] = r
      BY <2>2, <2>4
    <2> QED
      BY <2>1, <2>5
  <1>8. ASSUME NEW j \in 1..n, NEW k \in 1..n
        PROVE  j < k <=> seq[j].created_at < seq[k].created_at
    <2>1. seq[j] \in rows /\ seq[k] \in rows /\ rank(seq[j]) = j - 1 /\ rank(seq[k]) = k - 1
      BY <1>5
    <2>2. seq[j].created_at < seq[k].created_at <=> j - 1 < k - 1
      BY <1>3, <2>1
    <2> QED
      BY <2>2
  <1>9. Len(seq) = n
    BY <1>3, <1>6
  <1> QED
    BY <1>3, <1>6, <1>7, <1>8, <1>9 DEF n, seq

\* The types, with the committed rows finite (a query can sort them).
Types ==
    /\ pc \in [Turns -> {"asked"} \cup Preparing \cup Prepared \cup {"refused"}]
    /\ began \in [Turns -> Nat]
    /\ clock \in Nat
    /\ pending \in [Turns -> SUBSET Row]
    /\ messages \subseteq Row /\ IsFiniteSet(messages)
    /\ request \in [Turns -> Seq(Row)]
    /\ settled \in [Turns -> SUBSET Row]

\* now() tells transactions apart, and with them the rows they write.
Times ==
    /\ \A t \in Turns : began[t] <= clock
    /\ \A t, u \in Turns : began[t] = began[u] /\ began[t] # 0 => t = u
    /\ \A r \in messages : r.created_at <= clock
    /\ \A r \in messages, t \in Turns : r.created_at = began[t] => r.turn = t
    /\ \A r, s \in messages : r.created_at = s.created_at => r = s

\* What an open transaction has inserted.
Written(t) ==
    /\ pc[t] \in Preparing \cup Storing => began[t] # 0
    /\ pc[t] \in Preparing \ {"begun"} => pending[t] = {Question(t)}
    /\ pc[t] = "stored" => pending[t] = {Reply(t)}
    /\ pc[t] \notin (Preparing \ {"begun"}) \cup {"stored"} => pending[t] = {}

\* What of a turn is committed: nothing before its first transaction is, its
\* question alone until the second is.
Committed(t) ==
    /\ pc[t] \in Preparing \cup {"asked", "refused"} => \A r \in messages : r.turn # t
    /\ pc[t] \in {"generating", "replied"} =>
          /\ Question(t) \in messages /\ began[t] # 0
          /\ \A r \in messages : r.turn = t => r = Question(t)
    /\ pc[t] \in Storing => \E q \in messages :
          /\ q.turn = t /\ q.role = "user" /\ q.created_at < began[t]
          /\ \A r \in messages : r.turn = t => r = q

Requested(t) ==
    /\ pc[t] \in Preparing => settled[t] \subseteq messages
                              /\ \A r \in settled[t] : r.created_at < began[t]
    /\ pc[t] = "ready" => /\ HoldsNewest(t, messages \cup pending[t])
                          /\ \A i \in 1..Len(request[t]) : request[t][i] \in messages \cup pending[t]
    /\ pc[t] \in Prepared => /\ HoldsNewest(t, messages)
                             /\ \A i \in 1..Len(request[t]) : request[t][i] \in messages
    /\ pc[t] \in {"ready"} \cup Prepared => QuestionIsSent(t)

Turn(t) == Written(t) /\ Committed(t) /\ Requested(t)

IInv == Types /\ Times /\ ReplyFollowsQuestion /\ \A t \in Turns : Turn(t)

\* One lock, and at most two transactions of each turn.
Begun == {t \in Turns : pc[t] # "asked"}
Answered == {t \in Turns : pc[t] \in Storing \cup {"over"}}
OneToucher == \A t, u \in Touchers : t = u
ClockInv == clock <= Cardinality(Begun) + Cardinality(Answered)

\* The request and what was settled before it are read once; afterwards rows are
\* only added, and no second question of the turn.
LEMMA RequestStays ==
    ASSUME NEW t, request'[t] = request[t], settled'[t] = settled[t],
           messages \subseteq messages',
           \A r \in messages' : r \in messages \/ r.turn # t \/ r.role # "user"
    PROVE  /\ HoldsNewest(t, messages) => HoldsNewest(t, messages)'
           /\ QuestionIsSent(t) => QuestionIsSent(t)'
  <1>1. Sent(t)' = Sent(t) /\ Size(t)' = Size(t)
    BY DEF Sent, Size, Estimates
  <1>2. Due(t, messages)' \subseteq Due(t, messages)
    BY DEF Due
  <1>3. \A r : NoRoomFor(r, t, messages) => NoRoomFor(r, t, messages)'
    BY <1>1 DEF NoRoomFor
  <1>4. HoldsNewest(t, messages) => HoldsNewest(t, messages)'
    BY <1>1, <1>2, <1>3 DEF HoldsNewest
  <1>5. QuestionIsSent(t) => QuestionIsSent(t)'
    BY <1>1 DEF QuestionIsSent
  <1> QED
    BY <1>4, <1>5

\* The same before the question is committed.
LEMMA ReadyStays ==
    ASSUME NEW t, request'[t] = request[t], settled'[t] = settled[t],
           messages \cup pending[t] \subseteq messages' \cup pending'[t],
           \A r \in messages' \cup pending'[t] :
              r \in messages \cup pending[t] \/ r.turn # t \/ r.role # "user"
    PROVE  HoldsNewest(t, messages \cup pending[t]) => HoldsNewest(t, messages \cup pending[t])'
  <1>1. Sent(t)' = Sent(t) /\ Size(t)' = Size(t)
    BY DEF Sent, Size, Estimates
  <1>2. Due(t, messages \cup pending[t])' \subseteq Due(t, messages \cup pending[t])
    BY DEF Due
  <1>3. \A r : NoRoomFor(r, t, messages \cup pending[t])
                  => NoRoomFor(r, t, messages \cup pending[t])'
    BY <1>1 DEF NoRoomFor
  <1> QED
    BY <1>1, <1>2, <1>3 DEF HoldsNewest

\* A step of another turn that commits none of its rows changes nothing for it.
LEMMA OthersUntouched ==
    ASSUME Types, NEW u \in Turns, Turn(u),
           pc'[u] = pc[u], began'[u] = began[u], pending'[u] = pending[u],
           request'[u] = request[u], settled'[u] = settled[u],
           messages \subseteq messages', \A r \in messages' : r \in messages \/ r.turn # u
    PROVE  Turn(u)'
  <1>1. Written(u)'
    BY DEF Turn, Written, Question, Reply
  <1>2. Committed(u)'
    <2>1. pc[u] \in Preparing \cup {"asked", "refused"} => \A r \in messages' : r.turn # u
      BY DEF Turn, Committed
    <2>2. pc[u] \in {"generating", "replied"} =>
            /\ Question(u)' \in messages' /\ began'[u] # 0
            /\ \A r \in messages' : r.turn = u => r = Question(u)'
      BY DEF Turn, Committed, Question
    <2>3. pc[u] \in Storing => \E q \in messages' :
            /\ q.turn = u /\ q.role = "user" /\ q.created_at < began'[u]
            /\ \A r \in messages' : r.turn = u => r = q
      BY DEF Turn, Committed
    <2> QED
      BY <2>1, <2>2, <2>3 DEF Committed, Preparing, Storing
  <1>3. /\ HoldsNewest(u, messages) => HoldsNewest(u, messages)'
        /\ QuestionIsSent(u) => QuestionIsSent(u)'
        /\ HoldsNewest(u, messages \cup pending[u]) => HoldsNewest(u, messages \cup pending[u])'
    BY RequestStays, ReadyStays
  <1>4. Requested(u)'
    BY <1>3 DEF Turn, Requested, Preparing, Prepared, Storing
  <1> QED
    BY <1>1, <1>2, <1>4 DEF Turn

\* Steps that commit nothing and begin nothing.
LEMMA NothingStored ==
    ASSUME Times, ReplyFollowsQuestion, UNCHANGED <<began, clock, messages>>
    PROVE  Times' /\ ReplyFollowsQuestion'
  BY DEF Times, ReplyFollowsQuestion

LEMMA MessagesInit == Init => IInv
  <1> SUFFICES ASSUME Init
               PROVE  IInv
    OBVIOUS
  <1> USE DEF Init
  <1>1. Types
    BY FS_EmptySet DEF Types
  <1>2. Times /\ ReplyFollowsQuestion
    BY DEF Times, ReplyFollowsQuestion
  <1>3. \A t \in Turns : Turn(t)
    BY DEF Turn, Written, Committed, Requested, Preparing, Prepared, Storing
  <1> QED
    BY <1>1, <1>2, <1>3 DEF IInv

\* A transaction begins with a time of its own.
LEMMA FreshTime ==
    ASSUME Types, Times, NEW t \in Turns, BeginTransaction(t), UNCHANGED messages
    PROVE  /\ Times' /\ clock' \in Nat /\ began' \in [Turns -> Nat]
           /\ began'[t] = clock + 1 /\ \A u \in Turns \ {t} : began'[u] = began[u]
           /\ \A r \in messages : r.created_at < began'[t]
  <1> USE DEF Types
  <1>1. clock' = clock + 1 /\ began' = [began EXCEPT ![t] = clock + 1]
    BY DEF BeginTransaction
  <1>2. /\ clock' \in Nat /\ began' \in [Turns -> Nat]
        /\ began'[t] = clock + 1 /\ \A u \in Turns \ {t} : began'[u] = began[u]
    BY <1>1
  <1>3. \A r \in messages : r.created_at \in Nat /\ r.created_at <= clock /\ r.created_at # clock + 1
    BY DEF Row, Times
  <1>4. \A u \in Turns : began[u] \in Nat /\ began[u] <= clock
    BY DEF Times
  <1>5. \A u \in Turns : began'[u] <= clock'
    BY <1>1, <1>2, <1>4
  <1>6. \A u, v \in Turns : began'[u] = began'[v] /\ began'[u] # 0 => u = v
    <2>1. \A u \in Turns \ {t} : began'[u] \in Nat /\ began'[u] # began'[t]
      BY <1>2, <1>4
    <2>2. \A u, v \in Turns \ {t} : began'[u] = began'[v] /\ began'[u] # 0 => u = v
      BY <1>2 DEF Times
    <2> QED
      BY <2>1, <2>2
  <1>7. \A r \in messages' : r.created_at <= clock'
    BY <1>1, <1>3
  <1>8. \A r \in messages', u \in Turns : r.created_at = began'[u] => r.turn = u
    BY <1>2, <1>3 DEF Times
  <1>9. \A r, s \in messages' : r.created_at = s.created_at => r = s
    BY DEF Times
  <1> QED
    BY <1>1, <1>2, <1>3, <1>5, <1>6, <1>7, <1>8, <1>9 DEF Times

LEMMA BeginPrepareKeeps ==
    ASSUME IInv, NEW t \in Turns, BeginPrepare(t)
    PROVE  IInv'
  <1> USE DEF IInv, BeginPrepare, Goto
  <1>1. /\ Times' /\ clock' \in Nat /\ began' \in [Turns -> Nat]
        /\ began'[t] = clock + 1 /\ \A u \in Turns \ {t} : began'[u] = began[u]
        /\ \A r \in messages : r.created_at < began'[t]
    BY FreshTime
  <1>2. /\ pc'[t] = "begun" /\ pc[t] = "asked" /\ settled'[t] = messages
        /\ \A u \in Turns \ {t} : pc'[u] = pc[u] /\ settled'[u] = settled[u]
    BY DEF Types
  <1>3. Types'
    BY <1>1 DEF Types, Preparing
  <1>4. ReplyFollowsQuestion'
    BY DEF ReplyFollowsQuestion
  <1>5. Turn(t)'
    <2>1. Written(t)'
      BY <1>1, <1>2 DEF Turn, Written, Types, Preparing, Storing
    <2>2. Committed(t)'
      BY <1>2 DEF Turn, Committed, Preparing, Storing
    <2>3. Requested(t)'
      BY <1>1, <1>2 DEF Requested, Preparing, Prepared, Storing
    <2> QED
      BY <2>1, <2>2, <2>3 DEF Turn
  <1>6. ASSUME NEW u \in Turns \ {t}
        PROVE  Turn(u)'
    BY <1>1, <1>2, OthersUntouched
  <1> QED
    BY <1>1, <1>3, <1>4, <1>5, <1>6

\* The steps of one turn that only go on, within what the invariant says of
\* the two places alike.
LEMMA GoingOnKeeps ==
    ASSUME IInv, NEW t \in Turns,
           Refuse(t) \/ Touch(t) \/ Retrieve(t) \/ Embed(t) \/ Generate(t) \/ Fail(t)
    PROVE  IInv'
  <1> USE DEF IInv
  <1> DEFINE Moves(from, to, rows) ==
               /\ pc[t] = from /\ pc' = [pc EXCEPT ![t] = to]
               /\ pending' = [pending EXCEPT ![t] = rows]
  <1>0. UNCHANGED <<began, clock, messages, request, settled>>
    BY DEF Refuse, Touch, Retrieve, Embed, Generate, Fail
  <1>1. \E from, to, rows :
          /\ Moves(from, to, rows)
          /\ \/ from = "inserted" /\ to = "touched" /\ rows = pending[t]
             \/ from = "touched" /\ to \in {"searched", "embedding"} /\ rows = pending[t]
             \/ from = "embedding" /\ to = "searched" /\ rows = pending[t]
             \/ from = "generating" /\ to \in {"replied", "over"} /\ rows = pending[t]
             \/ from \in Preparing /\ to = "refused" /\ rows = {}
             \/ from \in Storing /\ to = "over" /\ rows = {}
    <2>1. pending = [pending EXCEPT ![t] = pending[t]]
      BY DEF Types
    <2>2. CASE Refuse(t)
      <3>1. pending[t] = {}
        BY <2>2 DEF Refuse, Goto, Turn, Written, Preparing, Storing
      <3> QED
        BY <2>1, <2>2, <3>1 DEF Refuse, Goto, Preparing
    <2>3. CASE Touch(t)
      BY <2>1, <2>3 DEF Touch, Goto
    <2>4. CASE Retrieve(t)
      BY <2>1, <2>4 DEF Retrieve, Goto
    <2>5. CASE Embed(t)
      BY <2>1, <2>5 DEF Embed, Goto, Preparing
    <2>6. CASE Generate(t)
      BY <2>1, <2>6 DEF Generate, Goto
    <2>7. CASE Fail(t)
      <3>1. CASE pc[t] \in Preparing
        BY <2>7, <3>1 DEF Fail
      <3>2. CASE pc[t] \notin Preparing
        BY <2>7, <3>2 DEF Fail
      <3> QED
        BY <3>1, <3>2
    <2> QED
      BY <2>2, <2>3, <2>4, <2>5, <2>6, <2>7
  <1>2. PICK from, to, rows :
          /\ Moves(from, to, rows)
          /\ \/ from = "inserted" /\ to = "touched" /\ rows = pending[t]
             \/ from = "touched" /\ to \in {"searched", "embedding"} /\ rows = pending[t]
             \/ from = "embedding" /\ to = "searched" /\ rows = pending[t]
             \/ from = "generating" /\ to \in {"replied", "over"} /\ rows = pending[t]
             \/ from \in Preparing /\ to = "refused" /\ rows = {}
             \/ from \in Storing /\ to = "over" /\ rows = {}
    BY <1>1
  <1>3. /\ pc[t] = from /\ pc'[t] = to /\ pending'[t] = rows
        /\ \A u \in Turns \ {t} : pc'[u] = pc[u] /\ pending'[u] = pending[u]
    BY <1>2 DEF Types
  <1>4. Types'
    <2>1. rows \in SUBSET Row
      BY <1>2 DEF Types
    <2>2. to \in Preparing \cup Prepared \cup {"refused"}
      BY <1>2 DEF Preparing, Prepared
    <2> HIDE DEF Moves
    <2>3. pc' \in [Turns -> {"asked"} \cup Preparing \cup Prepared \cup {"refused"}]
      BY <1>2, <2>2 DEF Types, Moves
    <2>4. pending' \in [Turns -> SUBSET Row]
      BY <1>2, <2>1 DEF Types, Moves
    <2> QED
      BY <1>0, <2>3, <2>4 DEF Types
  <1>5. Times' /\ ReplyFollowsQuestion'
    BY <1>0, NothingStored
  <1>6. Turn(t)'
    <2>1. Written(t)'
      BY <1>0, <1>2, <1>3 DEF Turn, Written, Question, Reply, Preparing, Storing
    <2>2. Committed(t)'
      BY <1>0, <1>2, <1>3 DEF Turn, Committed, Question, Preparing, Storing
    <2>3. /\ HoldsNewest(t, messages) => HoldsNewest(t, messages)'
          /\ QuestionIsSent(t) => QuestionIsSent(t)'
      BY <1>0, RequestStays
    <2>4. Requested(t)'
      BY <1>0, <1>2, <1>3, <2>3 DEF Turn, Requested, Preparing, Prepared, Storing
    <2> QED
      BY <2>1, <2>2, <2>4 DEF Turn
  <1>7. ASSUME NEW u \in Turns \ {t}
        PROVE  Turn(u)'
    BY <1>0, <1>3, OthersUntouched
  <1> QED
    BY <1>4, <1>5, <1>6, <1>7

\* INSERT of the question or of the reply.
LEMMA InsertKeeps ==
    ASSUME IInv, NEW t \in Turns, InsertQuestion(t) \/ InsertReply(t)
    PROVE  IInv'
  <1> USE DEF IInv, Goto, Insert
  <1>0. UNCHANGED <<began, clock, messages, request, settled>>
    BY DEF InsertQuestion, InsertReply
  <1>1. pending[t] = {}
    BY DEF InsertQuestion, InsertReply, Turn, Written, Preparing
  <1>2. \A u \in Turns \ {t} : pc'[u] = pc[u] /\ pending'[u] = pending[u]
    BY DEF InsertQuestion, InsertReply, Types
  <1>3. \/ pc[t] = "begun" /\ pc'[t] = "inserted" /\ pending'[t] = {Question(t)}
        \/ pc[t] = "storing" /\ pc'[t] = "stored" /\ pending'[t] = {Reply(t)}
    BY <1>1 DEF InsertQuestion, InsertReply, Types
  <1>4. Types'
    <2>1. began[t] \in Nat \ {0}
      BY <1>3 DEF Turn, Written, Types, Preparing, Storing
    <2>2. Question(t) \in Row /\ Reply(t) \in Row
      BY <2>1 DEF Question, Reply, Row
    <2>3. pending' \in [Turns -> SUBSET Row]
      BY <2>2 DEF InsertQuestion, InsertReply, Types
    <2>4. pc' \in [Turns -> {"asked"} \cup Preparing \cup Prepared \cup {"refused"}]
      BY DEF InsertQuestion, InsertReply, Types, Preparing, Prepared, Storing
    <2> QED
      BY <1>0, <2>3, <2>4 DEF Types
  <1>5. Times' /\ ReplyFollowsQuestion'
    BY <1>0, NothingStored
  <1>6. Turn(t)'
    <2>1. Written(t)'
      BY <1>0, <1>3 DEF Turn, Written, Question, Reply, Preparing, Storing
    <2>2. Committed(t)'
      BY <1>0, <1>3 DEF Turn, Committed, Preparing, Storing
    <2>3. /\ HoldsNewest(t, messages) => HoldsNewest(t, messages)'
          /\ QuestionIsSent(t) => QuestionIsSent(t)'
      BY <1>0, RequestStays
    <2>4. Requested(t)'
      BY <1>0, <1>3, <2>3 DEF Turn, Requested, Preparing, Prepared, Storing
    <2> QED
      BY <2>1, <2>2, <2>4 DEF Turn
  <1>7. ASSUME NEW u \in Turns \ {t}
        PROVE  Turn(u)'
    BY <1>0, <1>2, OthersUntouched
  <1> QED
    BY <1>4, <1>5, <1>6, <1>7

\* prepare_turn reads what is committed and the question just inserted.
LEMMA HistoryIsNewest ==
    ASSUME IInv, NEW t \in Turns, ReadHistory(t)
    PROVE  /\ request' \in [Turns -> Seq(Row)] /\ \A u \in Turns \ {t} : request'[u] = request[u]
           /\ \A i \in 1..Len(request'[t]) : request'[t][i] \in messages \cup pending[t]
           /\ HoldsNewest(t, messages \cup pending[t])' /\ QuestionIsSent(t)'
  <1> DEFINE rows == messages \cup pending[t]
             q == Question(t)
  <1>a. /\ pc[t] = "searched" /\ Trim(Ordered(rows), t)
        /\ settled' = settled /\ messages' = messages /\ pending' = pending
    BY DEF ReadHistory, Goto
  <1>b. /\ pending[t] = {Question(t)} /\ began[t] # 0
        /\ \A r \in messages : r.turn # t
        /\ settled[t] \subseteq messages /\ \A r \in settled[t] : r.created_at < began[t]
    <2>1. pc[t] = "searched"
      BY <1>a
    <2>2. Written(t) /\ Committed(t) /\ Requested(t)
      BY DEF IInv, Turn
    <2>3. pending[t] = {Question(t)} /\ began[t] # 0
      BY <2>1, <2>2 DEF Written, Preparing
    <2>4. \A r \in messages : r.turn # t
      BY <2>1, <2>2 DEF Committed, Preparing
    <2>5. settled[t] \subseteq messages /\ \A r \in settled[t] : r.created_at < began[t]
      BY <2>1, <2>2 DEF Requested, Preparing
    <2> QED
      BY <2>3, <2>4, <2>5
  <1>c. rows \subseteq Row /\ IsFiniteSet(rows)
    <2>1. messages \subseteq Row /\ pending[t] \subseteq Row
      BY DEF IInv, Types
    <2>2. IsFiniteSet(messages) /\ IsFiniteSet({Question(t)})
      BY FS_Singleton DEF IInv, Types
    <2> QED
      BY <1>b, <2>1, <2>2, FS_Union
  <1>d. \A r, s \in rows : r.created_at = s.created_at => r = s
    <2>1. \A r \in messages : r.created_at # Question(t).created_at
      BY <1>b DEF IInv, Times, Question
    <2> QED
      BY <1>b, <2>1 DEF IInv, Times
  <1>e. /\ Question(t) \in rows /\ Question(t).turn = t /\ Question(t).role = "user"
        /\ Question(t).created_at = began[t]
    BY <1>b DEF Question
  <1>f. \A r \in rows : r.turn = t => r = Question(t)
    BY <1>b
  <1>g. settled[t] \subseteq rows /\ \A r \in settled[t] : r.created_at < Question(t).created_at
    <2>1. Question(t).created_at = began[t]
      BY DEF Question
    <2>2. \A r \in settled[t] : r.created_at < Question(t).created_at
      BY <1>b, <2>1, Zenon
    <2>3. settled[t] \subseteq rows
      BY <1>b
    <2> QED
      BY <2>2, <2>3
  <1>h. request \in [Turns -> Seq(Row)] /\ rows' = rows
    BY <1>a DEF IInv, Types
  <1> HIDE DEF rows, q
  <1>q. /\ q \in rows /\ q.turn = t /\ q.role = "user" /\ \A r \in rows : r.turn = t => r = q
        /\ settled[t] \subseteq rows /\ \A r \in settled[t] : r.created_at < q.created_at
    BY <1>e, <1>f, <1>g DEF q
  <1> DEFINE h == Ordered(rows)
             N == Cardinality(rows)
             E == Estimates(h)
             T == TokensOfLast(E)
  <1>1. /\ N \in Nat /\ h \in [1..N -> rows] /\ Len(h) = N
        /\ \A r \in rows : \E k \in 1..N : h[k] = r
        /\ \A j, k \in 1..N : j < k <=> h[j].created_at < h[k].created_at
    <2>1. \A r \in rows : r.created_at \in Nat
      BY <1>c DEF Row
    <2> QED
      BY <1>c, <1>d, <2>1, OrderedIsSorted
  <1> DEFINE cost(r) == Tokens[r.turn][r.role]
  <1>2. \A r \in Row : cost(r) \in Nat \ {0}
    BY ConversationAssumption DEF Row
  <1>3. /\ E \in Seq(Nat) /\ Len(E) = N /\ \A k \in 1..N : E[k] = cost(h[k])
    <2>1. E = [k \in 1..N |-> cost(h[k])]
      BY <1>1 DEF Estimates
    <2>2. \A k \in 1..N : cost(h[k]) \in Nat
      <3>1. \A k \in 1..N : h[k] \in Row
        BY <1>1, <1>c
      <3> HIDE DEF cost, h, N
      <3> QED
        BY <1>2, <3>1
    <2> HIDE DEF E, h, cost, N
    <2> QED
      BY <1>1, <2>1, <2>2
  <1>4. PICK n \in LongestFit(E, Room[t]) : request' = [request EXCEPT ![t] = Newest(h, n)]
    BY <1>a DEF Trim
  <1> HIDE DEF h, N, E, T, cost
  <1>5. /\ n \in 0..N
        /\ n <= 1 \/ T[n] <= Room[t]
        /\ \A m \in (n + 1)..N : m > 1 /\ T[m] > Room[t]
    BY <1>3, <1>4 DEF LongestFit, T
  <1>6. PICK i \in 1..N : h[i] = q
    BY <1>1, <1>q
  <1>7. n \in 1..N
    <2>1. N >= 1
      BY <1>1, <1>6
    <2>2. ASSUME n = 0
          PROVE  FALSE
      <3>1. 1 \in (n + 1)..N
        BY <1>1, <2>1, <2>2
      <3>2. 1 > 1
        BY <1>5, <3>1
      <3> QED
        BY <3>2
    <2>3. n \in 0..N /\ n # 0
      BY <1>5, <2>2
    <2> HIDE DEF N
    <2> QED
      BY <1>1, <2>3
  <1> DEFINE w == Newest(h, n)
  <1>8. /\ w \in Seq(Row) /\ Len(w) = n /\ w # <<>>
        /\ \A k \in 1..n : w[k] = h[N - n + k] /\ N - n + k \in 1..N /\ w[k] \in rows
    <2>1. h \in Seq(Row) /\ h \in Seq(rows)
      BY <1>1, <1>c
    <2>2. N - n + 1 \in 1..N /\ N - (N - n + 1) + 1 = n /\ N \in 1..N
      BY <1>1, <1>7
    <2>3. /\ w \in Seq(Row) /\ Len(w) = n
          /\ \A k \in 1..n : w[k] = h[N - n + k]
      BY <1>1, <1>7, <2>1, <2>2 DEF Newest
    <2>4. \A k \in 1..n : N - n + k \in 1..N
      BY <1>1, <1>7
    <2> HIDE DEF w
    <2> QED
      BY <1>1, <1>7, <2>3, <2>4
  <1>9. request'[t] = w /\ \A u \in Turns \ {t} : request'[u] = request[u]
    BY <1>4, <1>h
  <1> HIDE DEF w
  <1>10. Size(t)' = T[n]
    <2>1. Estimates(w) = Newest(E, n)
      <3>1. Estimates(w) = [k \in 1..n |-> cost(w[k])]
        BY <1>8 DEF Estimates, cost
      <3>2. \A k \in 1..n : cost(w[k]) = E[N - n + k]
        BY <1>3, <1>8
      <3>3. Newest(E, n) = [k \in 1..n |-> E[N - n + k]]
        <4>1. N - n + 1 \in 1..N /\ N - (N - n + 1) + 1 = n
          BY <1>1, <1>7
        <4>2. Newest(E, n) = [k \in 1..n |-> E[(N - n + 1) + k - 1]]
          BY <1>1, <1>3, <1>7, <4>1 DEF Newest
        <4>3. \A k \in 1..n : (N - n + 1) + k - 1 = N - n + k
          BY <1>1, <1>7
        <4> QED
          BY <4>2, <4>3
      <3> QED
        BY <3>1, <3>2, <3>3
    <2>2. Size(t)' = TokensOfLast(Newest(E, n))[n]
      BY <1>8, <1>9, <2>1 DEF Size, Estimates
    <2>3. TokensOfLast(Newest(E, n))[n] = TokensOfLast(E)[n]
      <3>1. E \in Seq(Nat) /\ n \in 0..Len(E)
        BY <1>3, <1>5
      <3> QED
        BY <3>1, TokensOfTheEnd, Zenon
    <2> QED
      BY <2>2, <2>3 DEF T
  <1>11. Sent(t)' = {w[k] : k \in 1..n}
    BY <1>8, <1>9 DEF Sent
  \* What is left out is older than all that is sent.
  <1>12. ASSUME NEW j \in 1..N
         PROVE  h[j] \in Sent(t)' \/ (j <= N - n /\ \A s \in Sent(t)' : h[j].created_at < s.created_at)
    <2>1. CASE j > N - n
      <3>1. j - (N - n) \in 1..n /\ N - n + (j - (N - n)) = j
        BY <1>1, <1>7, <2>1
      <3>2. w[j - (N - n)] = h[j]
        BY <1>8, <3>1
      <3> QED
        BY <1>11, <3>1, <3>2
    <2>2. CASE j <= N - n
      <3>1. ASSUME NEW k \in 1..n
            PROVE  h[j].created_at < w[k].created_at
        <4>1. N - n + k \in 1..N /\ j < N - n + k
          BY <1>1, <1>7, <2>2
        <4> QED
          BY <1>1, <1>8, <4>1
      <3> QED
        BY <1>11, <2>2, <3>1
    <2> QED
      BY <1>1, <1>7, <2>1, <2>2
  \* The first that is left out was one too many.
  <1>13. ASSUME n < N
         PROVE  h[N - n] \in rows /\ Size(t)' + cost(h[N - n]) > Room[t]
                /\ \A s \in Sent(t)' : h[N - n].created_at < s.created_at
    <2>1. /\ N - n \in 1..N /\ n + 1 \in 1..N /\ n + 1 \in (n + 1)..N /\ (n + 1) - 1 = n
          /\ N + 1 - (n + 1) = N - n
      BY <1>1, <1>7, <1>13
    <2>2. T[n + 1] = T[(n + 1) - 1] + E[N + 1 - (n + 1)]
      BY <1>3, <2>1, TokensAreSums DEF T
    <2>3. T[n + 1] = Size(t)' + cost(h[N - n])
      BY <1>3, <1>10, <2>1, <2>2
    <2>4. T[n + 1] > Room[t]
      BY <1>5, <2>1
    <2>5. \A s \in Sent(t)' : h[N - n].created_at < s.created_at
      <3>1. ASSUME NEW k \in 1..n
            PROVE  h[N - n].created_at < w[k].created_at
        <4>1. N - n + k \in 1..N /\ N - n < N - n + k
          BY <1>1, <1>7
        <4>2. h[N - n].created_at < h[N - n + k].created_at
          BY <1>1, <2>1, <4>1
        <4> QED
          BY <1>8, <4>2
      <3> QED
        BY <1>11, <3>1
    <2> QED
      BY <1>1, <2>1, <2>3, <2>4, <2>5
  <1>14. HoldsNewest(t, rows)'
    <2>1. request'[t] # <<>> /\ Len(request'[t]) = n
      BY <1>8, <1>9
    <2>2. ASSUME NEW j \in 1..n, NEW k \in 1..n, j < k
          PROVE  w[j].created_at < w[k].created_at
      <3>1. N - n + j \in 1..N /\ N - n + k \in 1..N /\ N - n + j < N - n + k
        BY <1>1, <1>7, <2>2
      <3> QED
        BY <1>1, <1>8, <3>1
    <2>3. n > 1 => Size(t)' <= Room[t]
      BY <1>5, <1>7, <1>10
    <2>4. ASSUME NEW r \in Due(t, rows)'
          PROVE  r \in Sent(t)' \/ NoRoomFor(r, t, rows)'
      <3>1. r \in rows
        BY <1>a, <1>h, <1>q, <2>4 DEF Due
      <3>2. PICK j \in 1..N : h[j] = r
        BY <1>1, <3>1
      <3>3. CASE j <= N - n
        <4>1. n < N /\ N - n \in 1..N
          BY <1>1, <1>7, <3>3
        <4>2. r.created_at <= h[N - n].created_at
          <5>1. ~ (N - n < j)
            BY <1>1, <1>7, <3>3
          <5>2. ~ (h[N - n].created_at < r.created_at)
            BY <1>1, <3>2, <4>1, <5>1
          <5>3. r.created_at \in Nat /\ h[N - n].created_at \in Nat
            BY <1>1, <1>c, <3>1, <4>1 DEF Row
          <5> QED
            BY <5>2, <5>3
        <4> QED
          BY <1>13, <1>h, <4>1, <4>2 DEF NoRoomFor, cost
      <3> QED
        BY <1>12, <3>2, <3>3
    <2> QED
      BY <1>9, <2>1, <2>2, <2>3, <2>4 DEF HoldsNewest
  <1>15. QuestionIsSent(t)'
    <2>1. CASE q \in Sent(t)'
      BY <1>q, <2>1 DEF QuestionIsSent
    <2>2. CASE q \notin Sent(t)'
      <3>1. \A s \in Sent(t)' : q.created_at < s.created_at
        BY <1>6, <1>12, <2>2
      <3>2. \A s \in Sent(t)' : s \in rows
        BY <1>8, <1>11
      <3>3. \A s \in Sent(t)' : s \notin settled[t]
        <4>1. \A s \in rows : s.created_at \in Nat /\ q.created_at \in Nat
          BY <1>c, <1>q DEF Row
        <4> QED
          BY <1>q, <3>1, <3>2, <4>1
      <3> QED
        BY <1>a, <3>3 DEF QuestionIsSent
    <2> QED
      BY <2>1, <2>2
  <1>16. request' \in [Turns -> Seq(Row)]
    BY <1>4, <1>8, <1>h DEF w
  <1>17. HoldsNewest(t, messages \cup pending[t])'
    BY <1>14 DEF rows
  <1> QED
    BY <1>8, <1>9, <1>15, <1>16, <1>17 DEF rows

LEMMA ReadHistoryKeeps ==
    ASSUME IInv, NEW t \in Turns, ReadHistory(t)
    PROVE  IInv'
  <1> USE DEF IInv, ReadHistory, Goto
  <1>1. /\ pc[t] = "searched" /\ pc'[t] = "ready"
        /\ UNCHANGED <<began, clock, pending, messages, settled>>
        /\ \A u \in Turns \ {t} : pc'[u] = pc[u]
    BY DEF Types
  <1>2. /\ request' \in [Turns -> Seq(Row)] /\ \A u \in Turns \ {t} : request'[u] = request[u]
        /\ \A i \in 1..Len(request'[t]) : request'[t][i] \in messages \cup pending[t]
        /\ HoldsNewest(t, messages \cup pending[t])' /\ QuestionIsSent(t)'
    BY HistoryIsNewest
  <1>3. Types'
    <2>1. request' \in [Turns -> Seq(Row)]
      BY <1>2 DEF Types
    <2> QED
      BY <1>1, <2>1 DEF Types, Preparing
  <1>4. Times' /\ ReplyFollowsQuestion'
    BY <1>1, NothingStored
  <1>5. Turn(t)'
    <2>1. Written(t)'
      BY <1>1 DEF Turn, Written, Question, Reply, Preparing, Storing
    <2>2. Committed(t)'
      BY <1>1 DEF Turn, Committed, Preparing, Storing
    <2>3. Requested(t)'
      BY <1>1, <1>2 DEF Turn, Requested, Preparing, Prepared, Storing
    <2> QED
      BY <2>1, <2>2, <2>3 DEF Turn
  <1>6. ASSUME NEW u \in Turns \ {t}
        PROVE  Turn(u)'
    BY <1>1, <1>2, OthersUntouched
  <1> QED
    BY <1>3, <1>4, <1>5, <1>6

LEMMA BeginStoreKeeps ==
    ASSUME IInv, NEW t \in Turns, BeginStore(t)
    PROVE  IInv'
  <1> USE DEF IInv, BeginStore, Goto
  <1>1. /\ Times' /\ clock' \in Nat /\ began' \in [Turns -> Nat]
        /\ began'[t] = clock + 1 /\ \A u \in Turns \ {t} : began'[u] = began[u]
        /\ \A r \in messages : r.created_at < began'[t]
    BY FreshTime
  <1>2. /\ pc[t] = "replied" /\ pc'[t] = "storing"
        /\ UNCHANGED <<pending, messages, request, settled>>
        /\ \A u \in Turns \ {t} : pc'[u] = pc[u]
    BY DEF Types
  <1>3. Types'
    BY <1>1 DEF Types, Prepared, Storing
  <1>4. ReplyFollowsQuestion'
    BY DEF ReplyFollowsQuestion
  <1>5. Turn(t)'
    <2>1. Written(t)'
      <3>1. pending[t] = {}
        BY <1>2 DEF Turn, Written, Preparing, Storing
      <3>2. began'[t] # 0
        BY <1>1 DEF Types
      <3> QED
        BY <1>2, <3>1, <3>2 DEF Written, Preparing, Storing
    <2>2. Committed(t)'
      <3>1. Question(t) \in messages /\ Question(t).turn = t /\ Question(t).role = "user"
            /\ \A r \in messages : r.turn = t => r = Question(t)
        <4>1. Committed(t)
          BY DEF Turn
        <4> QED
          BY <1>2, <4>1 DEF Committed, Question
      <3>2. Question(t).created_at < began'[t]
        BY <1>1, <3>1
      <3> QED
        BY <1>2, <3>1, <3>2 DEF Committed, Preparing, Storing
    <2>3. /\ HoldsNewest(t, messages) => HoldsNewest(t, messages)'
          /\ QuestionIsSent(t) => QuestionIsSent(t)'
      BY <1>2, RequestStays
    <2>4. Requested(t)'
      BY <1>2, <2>3 DEF Turn, Requested, Preparing, Prepared, Storing
    <2> QED
      BY <2>1, <2>2, <2>4 DEF Turn
  <1>6. ASSUME NEW u \in Turns \ {t}
        PROVE  Turn(u)'
    BY <1>1, <1>2, OthersUntouched
  <1> QED
    BY <1>1, <1>3, <1>4, <1>5, <1>6

\* COMMIT of the one row a turn has inserted, younger than its other one.
LEMMA CommitRowsKeeps ==
    ASSUME IInv, NEW t \in Turns, NEW row, pending[t] = {row}, CommitRows(t),
           row.turn = t, row.created_at = began[t],
           \A r \in messages : r.turn = t => r.created_at < began[t],
           UNCHANGED <<began, clock>>
    PROVE  /\ Times' /\ messages' = messages \cup {row} /\ messages' \subseteq Row
           /\ IsFiniteSet(messages') /\ pending' \in [Turns -> SUBSET Row]
           /\ pending'[t] = {} /\ \A u \in Turns \ {t} : pending'[u] = pending[u]
  <1> USE DEF IInv, CommitRows
  <1>1. messages' = messages \cup {row} /\ row \in Row
    BY DEF Types
  <1>2. messages' \subseteq Row /\ IsFiniteSet(messages')
    BY <1>1, FS_AddElement DEF Types
  <1>3. /\ pending' \in [Turns -> SUBSET Row] /\ pending'[t] = {}
        /\ \A u \in Turns \ {t} : pending'[u] = pending[u]
    BY DEF Types
  <1>4. \A r \in messages : r.created_at # row.created_at
    <2> SUFFICES ASSUME NEW r \in messages, r.created_at = row.created_at
                 PROVE  FALSE
      OBVIOUS
    <2>1. r.turn = t
      BY DEF Times
    <2>2. r.created_at < began[t] /\ began[t] \in Nat
      BY <2>1 DEF Types
    <2> QED
      BY <2>2
  <1>5. began[t] # 0
    BY <1>1 DEF Row
  <1>6. \A r \in messages' : r.created_at <= clock
    BY <1>1 DEF Times
  <1>7. \A r \in messages', u \in Turns : r.created_at = began[u] => r.turn = u
    BY <1>1, <1>5 DEF Times
  <1>8. \A r, s \in messages' : r.created_at = s.created_at => r = s
    BY <1>1, <1>4 DEF Times
  <1>9. Times'
    BY <1>6, <1>7, <1>8 DEF Times
  <1> QED
    BY <1>1, <1>2, <1>3, <1>9

LEMMA CommitQuestionKeeps ==
    ASSUME IInv, NEW t \in Turns, CommitQuestion(t)
    PROVE  IInv'
  <1> USE DEF IInv, CommitQuestion, Goto
  <1>1. /\ pc[t] = "ready" /\ pc'[t] = "generating"
        /\ UNCHANGED <<began, clock, request, settled>>
        /\ \A u \in Turns \ {t} : pc'[u] = pc[u]
    BY DEF Types
  <1>2. /\ pending[t] = {Question(t)} /\ began[t] # 0 /\ \A r \in messages : r.turn # t
        /\ Question(t).turn = t /\ Question(t).role = "user"
        /\ Question(t).created_at = began[t]
    BY <1>1 DEF Turn, Written, Committed, Question, Preparing
  <1>3. /\ Times' /\ messages' = messages \cup {Question(t)} /\ messages' \subseteq Row
        /\ IsFiniteSet(messages') /\ pending' \in [Turns -> SUBSET Row]
        /\ pending'[t] = {} /\ \A u \in Turns \ {t} : pending'[u] = pending[u]
    BY <1>1, <1>2, CommitRowsKeeps
  <1>4. Types'
    BY <1>1, <1>3 DEF Types, Prepared
  <1>5. ReplyFollowsQuestion'
    BY <1>2, <1>3 DEF ReplyFollowsQuestion
  <1>6. Turn(t)'
    <2>1. Written(t)'
      BY <1>1, <1>3 DEF Written, Preparing, Storing
    <2>2. Question(t)' = Question(t)
      BY <1>1 DEF Question
    <2>3. Committed(t)'
      BY <1>1, <1>2, <1>3, <2>2 DEF Committed, Preparing, Storing
    <2>4. /\ HoldsNewest(t, messages)' /\ QuestionIsSent(t)'
          /\ \A i \in 1..Len(request[t]) : request[t][i] \in messages'
      <3>1. /\ HoldsNewest(t, messages \cup pending[t]) /\ QuestionIsSent(t)
            /\ \A i \in 1..Len(request[t]) : request[t][i] \in messages \cup pending[t]
        BY <1>1 DEF Turn, Requested
      <3>2. messages' = messages \cup pending[t] /\ messages' \cup pending'[t] = messages'
        BY <1>2, <1>3
      <3>3. HoldsNewest(t, messages)'
        BY <1>1, <3>1, <3>2, ReadyStays
      <3>4. QuestionIsSent(t)'
        BY <1>1, <3>1 DEF QuestionIsSent, Sent
      <3> QED
        BY <3>1, <3>2, <3>3, <3>4
    <2>5. Requested(t)'
      BY <1>1, <1>2, <1>3, <2>4 DEF Turn, Requested, Preparing, Prepared, Storing
    <2> QED
      BY <2>1, <2>3, <2>5 DEF Turn
  <1>7. ASSUME NEW u \in Turns \ {t}
        PROVE  Turn(u)'
    BY <1>1, <1>2, <1>3, OthersUntouched
  <1> QED
    BY <1>3, <1>4, <1>5, <1>6, <1>7

LEMMA CommitReplyKeeps ==
    ASSUME IInv, NEW t \in Turns, CommitReply(t)
    PROVE  IInv'
  <1> USE DEF IInv, CommitReply, Goto
  <1>1. /\ pc[t] = "stored" /\ pc'[t] = "over"
        /\ UNCHANGED <<began, clock, request, settled>>
        /\ \A u \in Turns \ {t} : pc'[u] = pc[u]
    BY DEF Types
  <1>2. /\ pending[t] = {Reply(t)} /\ Reply(t).turn = t /\ Reply(t).created_at = began[t]
    BY <1>1 DEF Turn, Written, Reply
  <1>3. PICK q \in messages :
          /\ q.turn = t /\ q.role = "user" /\ q.created_at < began[t]
          /\ \A r \in messages : r.turn = t => r = q
    BY <1>1 DEF Turn, Committed, Storing
  <1>4. /\ Times' /\ messages' = messages \cup {Reply(t)} /\ messages' \subseteq Row
        /\ IsFiniteSet(messages') /\ pending' \in [Turns -> SUBSET Row]
        /\ pending'[t] = {} /\ \A u \in Turns \ {t} : pending'[u] = pending[u]
    BY <1>1, <1>2, <1>3, CommitRowsKeeps
  <1>5. Types'
    BY <1>1, <1>4 DEF Types, Prepared
  <1>6. ReplyFollowsQuestion'
    BY <1>2, <1>3, <1>4 DEF ReplyFollowsQuestion
  <1>7. Turn(t)'
    <2>1. Written(t)'
      BY <1>1, <1>4 DEF Written, Preparing, Storing
    <2>2. Committed(t)'
      BY <1>1 DEF Committed, Preparing, Storing
    <2>3. /\ HoldsNewest(t, messages) => HoldsNewest(t, messages)'
          /\ QuestionIsSent(t) => QuestionIsSent(t)'
      <3>1. Reply(t).role # "user"
        BY DEF Reply
      <3> QED
        BY <1>1, <1>4, <3>1, RequestStays
    <2>4. Requested(t)'
      BY <1>1, <1>4, <2>3 DEF Turn, Requested, Preparing, Prepared, Storing
    <2> QED
      BY <2>1, <2>2, <2>4 DEF Turn
  <1>8. ASSUME NEW u \in Turns \ {t}
        PROVE  Turn(u)'
    BY <1>1, <1>2, <1>4, OthersUntouched
  <1> QED
    BY <1>4, <1>5, <1>6, <1>7, <1>8

\* A restart rolls back what is open, for all turns at once.
LEMMA RestartKeeps ==
    ASSUME IInv, Restart
    PROVE  IInv'
  <1> USE DEF IInv, Restart
  <1>1. UNCHANGED <<began, clock, messages, request, settled>>
    OBVIOUS
  <1>2. Types'
    BY DEF Types, Prepared
  <1>3. Times' /\ ReplyFollowsQuestion'
    BY <1>1, NothingStored
  <1>4. ASSUME NEW t \in Turns
        PROVE  Turn(t)'
    <2>1. pending'[t] = {}
      OBVIOUS
    <2>2. \/ pc[t] \in Preparing /\ pc'[t] = "refused"
          \/ pc[t] \in Prepared /\ pc'[t] = "over"
          \/ pc[t] \in {"asked", "refused"} /\ pc'[t] = pc[t]
      BY DEF Types
    <2>3. Written(t)'
      BY <2>1, <2>2 DEF Written, Preparing, Storing
    <2>4. Committed(t)'
      BY <1>1, <2>2 DEF Turn, Committed, Preparing, Storing
    <2>5. /\ HoldsNewest(t, messages) => HoldsNewest(t, messages)'
          /\ QuestionIsSent(t) => QuestionIsSent(t)'
      BY <1>1, RequestStays
    <2>6. Requested(t)'
      BY <1>1, <2>2, <2>5 DEF Turn, Requested, Preparing, Prepared, Storing
    <2> QED
      BY <2>3, <2>4, <2>6 DEF Turn
  <1> QED
    BY <1>2, <1>3, <1>4

LEMMA MessagesInductive == IInv /\ [Next]_vars => IInv'
  <1> SUFFICES ASSUME IInv, [Next]_vars
               PROVE  IInv'
    OBVIOUS
  <1>1. ASSUME NEW t \in Turns, Step(t) \/ Fail(t)
        PROVE  IInv'
    BY <1>1, BeginPrepareKeeps, GoingOnKeeps, InsertKeeps, ReadHistoryKeeps,
       CommitQuestionKeeps, BeginStoreKeeps, CommitReplyKeeps DEF Step
  <1>2. CASE UNCHANGED vars
    <2>1. \A t \in Turns : Turn(t)'
      BY <1>2, OthersUntouched DEF IInv, vars
    <2> QED
      BY <1>2, <2>1 DEF IInv, vars, Types, Times, ReplyFollowsQuestion
  <1> QED
    BY <1>1, <1>2, RestartKeeps DEF Next, Finished

LEMMA MessagesInvariance == Spec => []IInv
  BY MessagesInit, MessagesInductive, PTL DEF Spec

\* However turns overlap, a request is the newest part of the conversation that
\* fits (prepare_turn): what it leaves out of all that was said when the message
\* was sent, there was no room for.
THEOREM RequestIsNewestHolds == Spec => []RequestIsNewest
  <1>1. IInv => RequestIsNewest
    BY DEF IInv, Turn, Requested, RequestIsNewest
  <1> QED
    BY <1>1, MessagesInvariance, PTL

\* Only messages of turns that overlapped it can push a question out of the
\* request that is to answer it.
THEOREM OnlyOverlapsDisplaceHolds == Spec => []OnlyOverlapsDisplace
  <1>1. IInv => OnlyOverlapsDisplace
    BY DEF IInv, Turn, Requested, OnlyOverlapsDisplace
  <1> QED
    BY <1>1, MessagesInvariance, PTL

\* Nothing a model was sent is rolled back, and a refused message leaves
\* nothing behind, through failures and restarts.
THEOREM RequestIsStoredHolds == Spec => []RequestIsStored
  <1>1. IInv => RequestIsStored
    BY DEF IInv, Turn, Requested, Committed, RequestIsStored
  <1> QED
    BY <1>1, MessagesInvariance, PTL

\* A stored reply is younger than its question, which is stored too.
THEOREM ReplyFollowsQuestionHolds == Spec => []ReplyFollowsQuestion
  <1>1. IInv => ReplyFollowsQuestion
    BY DEF IInv
  <1> QED
    BY <1>1, MessagesInvariance, PTL

-----------------------------------------------------------------------------
(* The row lock and the number of transactions.                            *)

LEMMA LockIsExclusive == Types /\ OneToucher /\ [Next]_vars => OneToucher'
  <1> SUFFICES ASSUME Types, OneToucher, [Next]_vars
               PROVE  OneToucher'
    OBVIOUS
  <1>1. ASSUME NEW t \in Turns, Touch(t)
        PROVE  OneToucher'
    <2>1. Touchers = {} /\ pc' = [pc EXCEPT ![t] = "touched"]
      BY <1>1 DEF Touch, Goto
    <2>2. Touchers' \subseteq {t}
      BY <2>1 DEF Types, Touchers
    <2> QED
      BY <2>2 DEF OneToucher
  <1>2. ASSUME ~ \E t \in Turns : Touch(t)
        PROVE  Touchers' \subseteq Touchers
    <2>1. ASSUME NEW t \in Turns, Step(t) \/ Fail(t)
          PROVE  Touchers' \subseteq Touchers
      <3>1. \E to : /\ pc' = [pc EXCEPT ![t] = to]
                    /\ to \in {"touched", "embedding", "searched", "ready"} => t \in Touchers
        BY <1>2, <2>1 DEF Step, BeginPrepare, Refuse, InsertQuestion, Retrieve, Embed, ReadHistory,
           CommitQuestion, Generate, BeginStore, InsertReply, CommitReply, Fail, Goto, Touchers,
           Preparing
      <3> QED
        BY <3>1 DEF Types, Touchers
    <2>2. CASE Restart
      BY <2>2 DEF Restart, Types, Touchers, Preparing, Prepared, Storing
    <2>3. CASE UNCHANGED vars
      BY <2>3 DEF vars, Touchers
    <2> QED
      BY <2>1, <2>2, <2>3 DEF Next, Finished
  <1> QED
    BY <1>1, <1>2 DEF OneToucher

\* A turn that has begun a transaction stays counted.
LEMMA CountsGrow ==
    ASSUME Types, [Next]_vars
    PROVE  Begun \subseteq Begun' /\ Answered \subseteq Answered'
  <1>1. ASSUME NEW t \in Turns, Step(t) \/ Fail(t)
        PROVE  Begun \subseteq Begun' /\ Answered \subseteq Answered'
    <2>1. \E to : /\ pc' = [pc EXCEPT ![t] = to] /\ to # "asked"
                  /\ t \in Answered => to \in Storing \cup {"over"}
      BY <1>1 DEF Step, BeginPrepare, Refuse, InsertQuestion, Touch, Retrieve, Embed, ReadHistory,
         CommitQuestion, Generate, BeginStore, InsertReply, CommitReply, Fail, Goto, Answered,
         Preparing, Storing
    <2> QED
      BY <2>1 DEF Types, Begun, Answered
  <1>2. CASE Restart
    BY <1>2 DEF Restart, Types, Begun, Answered, Preparing, Prepared, Storing
  <1>3. CASE UNCHANGED vars
    BY <1>3 DEF vars, Begun, Answered
  <1> QED
    BY <1>1, <1>2, <1>3 DEF Next, Finished

LEMMA CountsAreFinite ==
    ASSUME NEW S \in SUBSET Turns
    PROVE  /\ IsFiniteSet(S) /\ Cardinality(S) \in Nat
           /\ Cardinality(Turns) \in Nat /\ Cardinality(S) <= Cardinality(Turns)
  BY ConversationAssumption, FS_CardinalityType, FS_Subset

LEMMA ClockIsBounded == Types /\ ClockInv /\ [Next]_vars => ClockInv'
  <1> SUFFICES ASSUME Types, ClockInv, [Next]_vars
               PROVE  ClockInv'
    OBVIOUS
  <1> DEFINE b == Cardinality(Begun)
             a == Cardinality(Answered)
  <1>1. /\ IsFiniteSet(Begun) /\ b \in Nat /\ IsFiniteSet(Answered) /\ a \in Nat
        /\ IsFiniteSet(Begun') /\ b' \in Nat /\ IsFiniteSet(Answered') /\ a' \in Nat
    <2>1. /\ Begun \in SUBSET Turns /\ Answered \in SUBSET Turns
          /\ Begun' \in SUBSET Turns /\ Answered' \in SUBSET Turns
      BY DEF Begun, Answered
    <2> QED
      BY <2>1, CountsAreFinite
  <1>2. b <= b' /\ a <= a'
    BY <1>1, CountsGrow, FS_Subset
  <1>3. ASSUME NEW t \in Turns, BeginPrepare(t)
        PROVE  ClockInv'
    <2>1. t \notin Begun /\ Begun' = Begun \cup {t}
      BY <1>3 DEF BeginPrepare, Goto, Types, Begun
    <2>2. b' = b + 1
      BY <1>1, <2>1, FS_AddElement
    <2>3. clock' = clock + 1
      BY <1>3 DEF BeginPrepare, BeginTransaction
    <2> QED
      BY <1>1, <1>2, <2>2, <2>3 DEF ClockInv, Types
  <1>4. ASSUME NEW t \in Turns, BeginStore(t)
        PROVE  ClockInv'
    <2>1. t \notin Answered /\ Answered' = Answered \cup {t}
      BY <1>4 DEF BeginStore, Goto, Types, Answered, Storing
    <2>2. a' = a + 1
      BY <1>1, <2>1, FS_AddElement
    <2>3. clock' = clock + 1
      BY <1>4 DEF BeginStore, BeginTransaction
    <2> QED
      BY <1>1, <1>2, <2>2, <2>3 DEF ClockInv, Types
  <1>5. CASE clock' = clock
    BY <1>1, <1>2, <1>5 DEF ClockInv, Types
  <1>6. clock' = clock \/ \E t \in Turns : BeginPrepare(t) \/ BeginStore(t)
    BY DEF Next, Step, Refuse, InsertQuestion, Touch, Retrieve, Embed, ReadHistory,
       CommitQuestion, Generate, InsertReply, CommitReply, Fail, Restart, Finished, vars
  <1> QED
    BY <1>3, <1>4, <1>5, <1>6

\* Types, one holder of the conversation's row lock at a time
\* (ConversationRepository.touch), and rows only in an open transaction.
THEOREM TypeCorrect == Spec => []TypeOK
  <1>0. Begun \in SUBSET Turns /\ Answered \in SUBSET Turns
    BY DEF Begun, Answered
  <1>1. Init => OneToucher /\ ClockInv
    BY <1>0, CountsAreFinite DEF Init, OneToucher, Touchers, ClockInv
  <1>2. IInv /\ OneToucher /\ ClockInv => TypeOK
    <2> SUFFICES ASSUME IInv, OneToucher, ClockInv
                 PROVE  TypeOK
      OBVIOUS
    <2>1. clock \in 0..(2 * Cardinality(Turns))
      BY <1>0, CountsAreFinite DEF IInv, Types, ClockInv
    <2>2. Cardinality(Touchers) <= 1
      <3>1. CASE Touchers = {}
        BY <3>1, FS_EmptySet
      <3>2. CASE Touchers # {}
        <4>1. PICK t : Touchers = {t}
          BY <3>2 DEF OneToucher
        <4>2. Cardinality({t}) = 1
          BY FS_Singleton
        <4> QED
          BY <4>1, <4>2
      <3> QED
        BY <3>1, <3>2
    <2>3. \A t \in Turns : pending[t] # {} => t \in Holders
      BY DEF IInv, Turn, Written, Holders, Preparing, Storing
    <2> QED
      BY <2>1, <2>2, <2>3 DEF IInv, Types, TypeOK
  <1>3. IInv => Types
    BY DEF IInv
  <1> QED
    BY <1>1, <1>2, <1>3, LockIsExclusive, ClockIsBounded, MessagesInvariance, PTL DEF Spec

=============================================================================
