---------------------------- MODULE TallyProofs ----------------------------
(* The laws of sums that the proofs about money need (a sum is a number, one
   entry can be split off or changed, entries can be renamed), and what stands
   in for induction over numbers and sequences. *)
EXTENDS Tallies, SequencesExt, FiniteSetTheorems, FunctionTheorems,
        NaturalsInduction, SequenceTheorems, WellFoundedInduction, TLAPS

Below == {ss \in Nat \X Nat : ss[1] < ss[2]}

(* A set that has 0 and the successor of each of its naturals has every natural:
   induction, with a set in place of the predicate the provers cannot take. *)
LEMMA Induction ==
  ASSUME NEW S, 0 \in S, \A n \in Nat : n \in S => n + 1 \in S
  PROVE  Nat \subseteq S
<1>. DEFINE missing == Nat \ S
<1>. SUFFICES ASSUME missing # {} PROVE FALSE
  OBVIOUS
<1>1. IsWellFoundedOn(Below, Nat)
  BY NatLessThanWellFounded, Zenon DEF Below, OpToRel
<1>2. missing \subseteq Nat
  OBVIOUS
<1>3. ASSUME NEW x \in Nat, NEW y \in Nat, y < x
      PROVE  <<y, x>> \in Below
  BY <1>3 DEF Below
<1>. HIDE DEF Below, missing
<1>4. PICK x \in missing : \A y \in missing : <<y, x>> \notin Below
  BY <1>1, <1>2, WFMin
<1>5. x \in Nat /\ x # 0 /\ x - 1 \in Nat
  BY DEF missing
<1>6. x - 1 < x
  BY <1>5
<1>7. <<x - 1, x>> \in Below
  BY <1>3, <1>5, <1>6
<1>8. x - 1 \notin missing
  BY <1>4, <1>7
<1>9. x - 1 + 1 \in S
  BY <1>5, <1>8 DEF missing
<1>10. QED
  BY <1>5, <1>9 DEF missing

-----------------------------------------------------------------------------
AllBut(f, x) == [y \in DOMAIN f \ {x} |-> f[y]]

(* The units of one entry. *)
LEMMA EntryUnits ==
  ASSUME NEW x, NEW n \in Nat
  PROVE  IsFiniteSet({x} \X (1..n)) /\ Cardinality({x} \X (1..n)) = n
<1>1. IsFiniteSet({x}) /\ Cardinality({x}) = 1
  BY FS_Singleton
<1>2. IsFiniteSet(1..n) /\ Cardinality(1..n) = n
  BY FS_Interval
<1>3. /\ IsFiniteSet({x} \X (1..n))
      /\ Cardinality({x} \X (1..n)) = Cardinality({x}) * Cardinality(1..n)
  BY <1>1, <1>2, FS_Product
<1>4. QED
  BY <1>1, <1>2, <1>3

(* Finitely many amounts have finitely many units. *)
LEMMA UnitsFinite ==
  ASSUME NEW S, IsFiniteSet(S), NEW f \in [S -> Nat]
  PROVE  IsFiniteSet(Units(f))
<1>. DEFINE heap == [x \in S |-> {x} \X (1..f[x])]
            heaps == {{x} \X (1..f[x]) : x \in S}
<1>1. heap \in Surjection(S, heaps)
  BY DEF Surjection
<1>2. IsFiniteSet(heaps)
  BY <1>1, FS_Surjection
<1>3. \A x \in S : IsFiniteSet({x} \X (1..f[x]))
  BY EntryUnits
<1>4. \A T \in heaps : IsFiniteSet(T)
  BY <1>3
<1>. HIDE DEF heaps, heap
<1>5. IsFiniteSet(UNION heaps)
  BY <1>2, <1>4, FS_UNION
<1>6. QED
  BY <1>5 DEF Units, heaps

(* A sum of finitely many naturals is a natural. *)
LEMMA TallyType ==
  ASSUME NEW S, IsFiniteSet(S), NEW f \in [S -> Nat]
  PROVE  Tally(f) \in Nat
BY UnitsFinite, FS_CardinalityType DEF Tally

(* Nothing adds up to nothing. *)
LEMMA TallyZero ==
  ASSUME NEW S, NEW f \in [S -> Nat], \A x \in S : f[x] = 0
  PROVE  Tally(f) = 0
<1>1. \A x \in S : {x} \X (1..f[x]) = {}
  OBVIOUS
<1>2. Units(f) = {}
  BY <1>1 DEF Units
<1>3. QED
  BY <1>2, FS_EmptySet DEF Tally

(* One entry can be split off. *)
LEMMA TallySplit ==
  ASSUME NEW S, IsFiniteSet(S), NEW f \in [S -> Nat], NEW x \in S
  PROVE  /\ AllBut(f, x) \in [S \ {x} -> Nat]
         /\ Tally(AllBut(f, x)) \in Nat
         /\ Tally(f) = Tally(AllBut(f, x)) + f[x]
<1>. DEFINE rest == AllBut(f, x)
            own == {x} \X (1..f[x])
<1>1. rest \in [S \ {x} -> Nat] /\ \A y \in S \ {x} : rest[y] = f[y]
  BY DEF AllBut
<1>2. IsFiniteSet(S \ {x})
  BY FS_RemoveElement
<1>3. IsFiniteSet(Units(rest))
  BY <1>1, <1>2, UnitsFinite
<1>4. Units(f) = Units(rest) \cup own
  BY <1>1 DEF Units
<1>5. Units(rest) \cap own = {}
  BY <1>1 DEF Units
<1>6. IsFiniteSet(own) /\ Cardinality(own) = f[x]
  BY EntryUnits
<1>7. Cardinality(Units(rest)) \in Nat
  BY <1>3, FS_CardinalityType
<1>. HIDE DEF rest, own
<1>8. Cardinality(Units(rest) \cup own)
        = Cardinality(Units(rest)) + Cardinality(own) - Cardinality({})
  BY <1>3, <1>5, <1>6, FS_Union
<1>9. QED
  BY <1>1, <1>4, <1>6, <1>7, <1>8, FS_EmptySet DEF Tally, rest

(* No entry is above the sum. *)
LEMMA TallyAbove ==
  ASSUME NEW S, IsFiniteSet(S), NEW f \in [S -> Nat], NEW x \in S
  PROVE  f[x] <= Tally(f)
<1>1. Tally(AllBut(f, x)) \in Nat /\ Tally(f) = Tally(AllBut(f, x)) + f[x]
  BY TallySplit
<1>2. f[x] \in Nat
  OBVIOUS
<1>3. QED
  BY <1>1, <1>2

(* Changing one entry changes the sum by as much. *)
LEMMA TallyChange ==
  ASSUME NEW S, IsFiniteSet(S), NEW f \in [S -> Nat], NEW g \in [S -> Nat], NEW x \in S,
         \A y \in S \ {x} : g[y] = f[y]
  PROVE  Tally(g) = Tally(f) + g[x] - f[x]
<1>1. AllBut(f, x) = AllBut(g, x)
  BY DEF AllBut
<1>2. Tally(AllBut(f, x)) \in Nat /\ Tally(f) = Tally(AllBut(f, x)) + f[x]
  BY ONLY TallySplit, IsFiniteSet(S), f \in [S -> Nat], x \in S
<1>3. Tally(g) = Tally(AllBut(g, x)) + g[x]
  BY ONLY TallySplit, IsFiniteSet(S), g \in [S -> Nat], x \in S
<1>4. f[x] \in Nat /\ g[x] \in Nat
  OBVIOUS
<1>5. QED
  BY <1>1, <1>2, <1>3, <1>4

(* Renaming the entries leaves the sum alone. *)
LEMMA TallyRename ==
  ASSUME NEW S, NEW T, IsFiniteSet(S), NEW f \in [S -> Nat], NEW g \in [T -> Nat],
         NEW b \in Bijection(S, T), \A x \in S : g[b[x]] = f[x]
  PROVE  Tally(g) = Tally(f)
<1>. DEFINE move == [u \in Units(f) |-> <<b[u[1]], u[2]>>]
<1>1. /\ b \in [S -> T]
      /\ \A x, y \in S : b[x] = b[y] => x = y
      /\ \A t \in T : \E x \in S : b[x] = t
  BY Fun_BijectionProperties, Fun_InjectionProperties, Fun_SurjectionProperties
<1>2. \A u : u \in Units(f) <=> \E x \in S : \E n \in 1..f[x] : u = <<x, n>>
  BY DEF Units
<1>3. \A u : u \in Units(g) <=> \E t \in T : \E n \in 1..g[t] : u = <<t, n>>
  BY DEF Units
<1>4. \A x \in S : \A n \in 1..f[x] : /\ <<x, n>> \in Units(f)
                                      /\ move[<<x, n>>] = <<b[x], n>>
                                      /\ <<b[x], n>> \in Units(g)
  BY <1>1, <1>2, <1>3
<1>5. move \in [Units(f) -> Units(g)]
  <2>1. ASSUME NEW u \in Units(f)
        PROVE  move[u] \in Units(g)
    <3>1. PICK x \in S : \E n \in 1..f[x] : u = <<x, n>>
      BY <1>2
    <3>2. PICK n \in 1..f[x] : u = <<x, n>>
      BY <3>1
    <3>3. QED
      BY <3>2, <1>4
  <2>2. QED
    BY <2>1
<1>6. ASSUME NEW u \in Units(f), NEW v \in Units(f), move[u] = move[v]
      PROVE  u = v
  <2>1. \E x, y \in S : \E n \in 1..f[x], m \in 1..f[y] : u = <<x, n>> /\ v = <<y, m>>
    BY <1>2
  <2>2. PICK x \in S, y \in S : \E n \in 1..f[x], m \in 1..f[y] : u = <<x, n>> /\ v = <<y, m>>
    BY <2>1
  <2>3. PICK n \in 1..f[x], m \in 1..f[y] : u = <<x, n>> /\ v = <<y, m>>
    BY <2>2
  <2>4. b[x] = b[y] /\ n = m
    BY <2>3, <1>4, <1>6
  <2>5. QED
    BY <2>3, <2>4, <1>1
<1>7. ASSUME NEW v \in Units(g)
      PROVE  \E u \in Units(f) : move[u] = v
  <2>0. PICK t \in T : \E n \in 1..g[t] : v = <<t, n>>
    BY <1>3
  <2>1. PICK n \in 1..g[t] : v = <<t, n>>
    BY <2>0
  <2>2. PICK x \in S : b[x] = t
    BY <1>1
  <2>3. n \in 1..f[x]
    BY <2>1, <2>2
  <2>4. QED
    BY <2>1, <2>2, <2>3, <1>4
<1>. HIDE DEF move
<1>8. move \in Bijection(Units(f), Units(g))
  BY <1>5, <1>6, <1>7, Fun_IsBij
<1>9. QED
  BY <1>8, UnitsFinite, FS_Bijection DEF Tally, ExistsBijection

(* A sequence that gets a new last element. *)
LEMMA TallyAppend ==
  ASSUME NEW n \in Nat, NEW f \in [1..n -> Nat], NEW g \in [1..(n + 1) -> Nat],
         \A i \in 1..n : g[i] = f[i]
  PROVE  Tally(g) = Tally(f) + g[n + 1]
<1>. DEFINE all == 1..(n + 1)
            last == n + 1
<1>1. IsFiniteSet(1..(n + 1)) /\ n + 1 \in 1..(n + 1)
  BY FS_Interval
<1>2. IsFiniteSet(all) /\ last \in all /\ g \in [all -> Nat]
  BY <1>1
<1>3. AllBut(g, last) = f
  BY DEF AllBut
<1>. HIDE DEF all, last
<1>4. Tally(g) = Tally(AllBut(g, last)) + g[last]
  BY ONLY <1>2, TallySplit
<1>5. QED
  BY <1>3, <1>4 DEF last

(* An entry that is new, next to entries that are renamed. *)
LEMMA TallyShift ==
  ASSUME NEW S, NEW T, IsFiniteSet(S), IsFiniteSet(T), NEW x \in T,
         NEW f, f \in [S -> Nat], NEW g, g \in [T -> Nat],
         NEW b, b \in Bijection(S, T \ {x}), \A y \in S : g[b[y]] = f[y]
  PROVE  Tally(g) = g[x] + Tally(f)
<1>. DEFINE others == T \ {x}
            rest == AllBut(g, x)
<1>1. rest \in [others -> Nat] /\ Tally(rest) \in Nat /\ Tally(g) = Tally(rest) + g[x]
  BY ONLY TallySplit, IsFiniteSet(T), g \in [T -> Nat], x \in T
<1>2. \A y \in S : b[y] \in others
  BY DEF Bijection, Injection
<1>3. \A y \in S : rest[b[y]] = f[y]
  BY <1>2 DEF AllBut
<1>4. b \in Bijection(S, others)
  OBVIOUS
<1>. HIDE DEF others, rest
<1>5. Tally(rest) = Tally(f)
  BY ONLY <1>1, <1>3, <1>4, TallyRename, IsFiniteSet(S), f \in [S -> Nat]
<1>6. g[x] \in Nat
  OBVIOUS
<1>7. QED
  BY <1>1, <1>5, <1>6

(* A sequence that gets a new first element. *)
LEMMA TallyPush ==
  ASSUME NEW n \in Nat, NEW f, f \in [1..n -> Nat], NEW g, g \in [1..(n + 1) -> Nat],
         \A i \in 1..n : g[i + 1] = f[i]
  PROVE  Tally(g) = g[1] + Tally(f)
<1>. DEFINE next == [i \in 1..n |-> i + 1]
            old == 1..n
            new == 1..(n + 1)
            first == 1
<1>1. next \in [old -> new \ {first}]
  OBVIOUS
<1>2. \A i, j \in old : next[i] = next[j] => i = j
  OBVIOUS
<1>3. ASSUME NEW k \in new \ {first}
      PROVE  \E i \in old : next[i] = k
  <2>1. k - 1 \in old /\ next[k - 1] = k
    OBVIOUS
  <2>2. QED
    BY <2>1
<1>4. IsFiniteSet(1..n) /\ IsFiniteSet(1..(n + 1))
  BY FS_Interval
<1>5. /\ IsFiniteSet(old) /\ IsFiniteSet(new) /\ first \in new
      /\ f \in [old -> Nat] /\ g \in [new -> Nat]
  BY <1>4
<1>6. \A i \in old : g[next[i]] = f[i]
  OBVIOUS
<1>. HIDE DEF next, old, new, first
<1>7. next \in Bijection(old, new \ {first})
  BY <1>1, <1>2, <1>3, Fun_IsBij
<1>8. Tally(g) = g[first] + Tally(f)
  BY ONLY <1>5, <1>6, <1>7, TallyShift
<1>9. QED
  BY <1>8 DEF first

-----------------------------------------------------------------------------
(* Two computations that start alike and step alike stay alike. *)
LEMMA SameSteps ==
  ASSUME NEW n \in Nat, NEW f, NEW g, f[0] = g[0],
         \A i \in 1..n : f[i - 1] = g[i - 1] => f[i] = g[i]
  PROVE  \A i \in 0..n : f[i] = g[i]
<1>. DEFINE alike == {i \in Nat : i <= n => f[i] = g[i]}
<1>1. 0 \in alike
  OBVIOUS
<1>2. ASSUME NEW i \in Nat, i \in alike
      PROVE  i + 1 \in alike
  <2>1. SUFFICES ASSUME i + 1 <= n PROVE f[i + 1] = g[i + 1]
    OBVIOUS
  <2>2. i + 1 \in 1..n /\ i + 1 - 1 = i /\ f[i] = g[i]
    BY <1>2, <2>1
  <2>3. QED
    BY <2>2
<1>. HIDE DEF alike
<1>3. Nat \subseteq alike
  BY <1>1, <1>2, Induction
<1>4. QED
  BY <1>3 DEF alike

(* What SumOf adds up, step by step. *)
LEMMA SumSteps ==
  ASSUME NEW s, Len(s) \in Nat
  PROVE  \E sum : /\ SumOf(s) = sum[Len(s)] /\ sum[0] = 0
                  /\ \A i \in 1..Len(s) : sum[i] = sum[i - 1] + s[i]
<1>. DEFINE n == Len(s)
            sum == CHOOSE g : g = [i \in 0..n |-> IF i = 0 THEN 0 ELSE g[i - 1] + s[i]]
<1>1. FiniteNatInductiveDefHypothesis(sum, 0, LAMBDA so, i : so + s[i], 0, n)
  BY DEF FiniteNatInductiveDefHypothesis
<1>2. FiniteNatInductiveDefConclusion(sum, 0, LAMBDA so, i : so + s[i], 0, n)
  BY <1>1, FiniteNatInductiveDef
<1>3. sum = [i \in 0..n |-> IF i = 0 THEN 0 ELSE sum[i - 1] + s[i]]
  BY <1>2 DEF FiniteNatInductiveDefConclusion
<1>4. SumOf(s) = sum[n]
  BY DEF SumOf
<1>5. n \in Nat
  OBVIOUS
<1>. HIDE DEF sum, n
<1>6. sum[0] = 0
  BY <1>3, <1>5
<1>7. ASSUME NEW i \in 1..n PROVE sum[i] = sum[i - 1] + s[i]
  <2>1. i \in 0..n /\ i # 0
    BY <1>5
  <2>2. QED
    BY <1>3, <2>1
<1>8. QED
  BY <1>4, <1>6, <1>7 DEF n

(* The sum of nothing, and of one entry more. *)
LEMMA SumEmpty == SumOf(<<>>) = 0
BY SumSteps

LEMMA SumAppend ==
  ASSUME NEW S, NEW s \in Seq(S), NEW x
  PROVE  SumOf(Append(s, x)) = SumOf(s) + x
<1>. DEFINE t == Append(s, x)
            n == Len(s)
<1>1. /\ n \in Nat /\ Len(t) = n + 1 /\ t[n + 1] = x
      /\ \A i \in 1..n : t[i] = s[i]
  OBVIOUS
<1>2. PICK f : /\ SumOf(s) = f[n] /\ f[0] = 0
               /\ \A i \in 1..n : f[i] = f[i - 1] + s[i]
  BY <1>1, SumSteps
<1>. HIDE DEF t, n
<1>3. PICK g : /\ SumOf(t) = g[n + 1] /\ g[0] = 0
               /\ \A i \in 1..(n + 1) : g[i] = g[i - 1] + t[i]
  <2>1. Len(t) \in Nat /\ Len(t) = n + 1
    BY <1>1
  <2>2. \E g : /\ SumOf(t) = g[Len(t)] /\ g[0] = 0
               /\ \A i \in 1..Len(t) : g[i] = g[i - 1] + t[i]
    BY ONLY <2>1, SumSteps
  <2>3. QED
    BY ONLY <2>1, <2>2
<1>4. \A i \in 0..n : f[i] = g[i]
  <2>1. \A i \in 1..n : i \in 1..(n + 1)
    BY <1>1
  <2>2. \A i \in 1..n : f[i - 1] = g[i - 1] => f[i] = g[i]
    BY <1>1, <1>2, <1>3, <2>1
  <2>3. n \in Nat /\ f[0] = g[0]
    BY <1>1, <1>2, <1>3
  <2>4. QED
    BY ONLY <2>2, <2>3, SameSteps, SMTT(60)
<1>5. n + 1 \in 1..(n + 1) /\ n + 1 - 1 = n /\ n \in 0..n
  BY <1>1
<1>6. SumOf(t) = SumOf(s) + x
  BY <1>1, <1>2, <1>3, <1>4, <1>5
<1>7. QED
  BY <1>6 DEF t

(* A sequence of a finite set's elements, each once, has them all. *)
LEMMA AllInOrder ==
  ASSUME NEW S, IsFiniteSet(S), NEW s \in SetToSeqs(S)
  PROVE  s \in Seq(S) /\ DOMAIN s = 1..Len(s) /\ ToSet(s) = S
<1> DEFINE D == 1..Cardinality(S)
<1>1. /\ s \in [D -> S] /\ \A i, j \in D : i # j => s[i] # s[j]
      /\ Cardinality(S) \in Nat
  BY FS_CardinalityType DEF SetToSeqs
<1>2. s \in Injection(D, S)
  BY <1>1 DEF Injection, IsInjective
<1>. HIDE DEF D
<1>3. Cardinality(D) = Cardinality(S)
  BY <1>1, FS_Interval DEF D
<1>4. s \in Surjection(D, S)
  BY <1>2, <1>3, FS_Injection
<1>5. s \in Seq(S) /\ Len(s) = Cardinality(S) /\ DOMAIN s = D
  BY <1>1 DEF D
<1>6. ToSet(s) = S
  BY <1>1, <1>4 DEF ToSet, Surjection
<1>7. QED
  BY <1>5, <1>6

-----------------------------------------------------------------------------
(* A finite set can be listed. *)
LEMMA Listed ==
  ASSUME NEW S, IsFiniteSet(S)
  PROVE  /\ SetToSeq(S) \in Injection(1..Cardinality(S), S)
         /\ SetToSeq(S) \in SetToSeqs(S)
<1> DEFINE D == 1..Cardinality(S)
<1>1. ExistsBijection(D, S)
  BY FS_CardinalityType
<1>2. PICK f \in Bijection(D, S) : TRUE
  BY <1>1 DEF ExistsBijection
<1>3. f \in [D -> S] /\ IsInjective(f)
  BY <1>2 DEF Bijection, Injection, IsInjective
<1>4. SetToSeq(S) \in [D -> S] /\ IsInjective(SetToSeq(S))
  BY <1>3 DEF SetToSeq
<1>5. QED
  BY <1>4 DEF Injection, IsInjective, SetToSeqs

(* Sorting. A finite set with a strict total order has an ascending list: its
   elements at the places that the number of smaller ones gives them. *)
LEMMA Sorted ==
  ASSUME NEW S, IsFiniteSet(S), NEW order,
         \A x \in S : <<x, x>> \notin order,
         \A x, y, z \in S : <<x, y>> \in order /\ <<y, z>> \in order => <<x, z>> \in order,
         \A x, y \in S : x = y \/ <<x, y>> \in order \/ <<y, x>> \in order
  PROVE  \E s \in SetToSeqs(S) : \A i, j \in DOMAIN s : i < j => <<s[i], s[j]>> \in order
<1> DEFINE n == Cardinality(S)
           D == 1..n
           smaller == [x \in S |-> {y \in S : <<y, x>> \in order}]
           place == [x \in S |-> 1 + Cardinality(smaller[x])]
<1>1. n \in Nat /\ IsFiniteSet(D) /\ Cardinality(D) = n
  <2>1. n \in Nat
    BY FS_CardinalityType
  <2>2. QED
    BY <2>1, FS_Interval
<1>2. ASSUME NEW x \in S
      PROVE  IsFiniteSet(smaller[x]) /\ Cardinality(smaller[x]) \in Nat /\ Cardinality(smaller[x]) < n
  <2>1. smaller[x] \subseteq S \ {x}
    OBVIOUS
  <2>2. IsFiniteSet(S \ {x}) /\ Cardinality(S \ {x}) = n - 1
    BY FS_RemoveElement
  <2> HIDE DEF smaller
  <2>3. IsFiniteSet(smaller[x]) /\ Cardinality(smaller[x]) <= n - 1
    BY <2>1, <2>2, FS_Subset
  <2>4. Cardinality(smaller[x]) \in Nat
    BY <2>3, FS_CardinalityType
  <2>5. QED
    BY <1>1, <2>3, <2>4
<1>3. ASSUME NEW x \in S, NEW y \in S, <<x, y>> \in order
      PROVE  Cardinality(smaller[x]) < Cardinality(smaller[y])
  <2>1. smaller[x] \subseteq smaller[y] \ {x} /\ x \in smaller[y]
    BY <1>3
  <2> HIDE DEF smaller
  <2>2. IsFiniteSet(smaller[y] \ {x}) /\ Cardinality(smaller[y] \ {x}) = Cardinality(smaller[y]) - 1
    BY <1>2, <2>1, FS_RemoveElement
  <2>3. Cardinality(smaller[x]) <= Cardinality(smaller[y]) - 1
    BY <2>1, <2>2, FS_Subset
  <2>4. QED
    BY <1>2, <2>3
<1> HIDE DEF smaller, n
<1>4. \A x \in S : place[x] \in D /\ place[x] = 1 + Cardinality(smaller[x])
  BY <1>1, <1>2
<1>5. \A x, y \in S : <<x, y>> \in order => place[x] < place[y]
  BY <1>2, <1>3, <1>4
<1>6. place \in [S -> D]
  BY <1>4
<1> HIDE DEF place, D
<1>7. \A x, y \in S : place[x] = place[y] => x = y
  <2>1. \A x \in S : place[x] \in Int
    BY <1>1, <1>6 DEF D
  <2>2. SUFFICES ASSUME NEW x \in S, NEW y \in S, place[x] = place[y], x # y PROVE FALSE
    OBVIOUS
  <2>3. <<x, y>> \in order \/ <<y, x>> \in order
    BY <2>2
  <2>4. place[x] < place[y] \/ place[y] < place[x]
    BY <1>5, <2>3
  <2>5. QED
    BY <2>1, <2>2, <2>4
<1>8. place \in Injection(S, D)
  BY <1>6, <1>7, Fun_IsInj
<1>9. place \in Surjection(S, D)
  BY <1>1, <1>8, FS_Injection DEF n
<1>10. \A i \in D : \E x \in S : place[x] = i
  BY <1>9 DEF Surjection
<1> DEFINE s == [i \in D |-> CHOOSE x \in S : place[x] = i]
<1>11. \A i \in D : s[i] \in S /\ place[s[i]] = i
  BY <1>10
<1>12. s \in [D -> S] /\ DOMAIN s = D
  BY <1>11
<1> HIDE DEF s
<1>13. \A i, j \in D : i # j => s[i] # s[j]
  BY <1>11
<1>14. s \in SetToSeqs(S)
  BY <1>12, <1>13 DEF SetToSeqs, D, n
<1>15. ASSUME NEW i \in D, NEW j \in D, i < j
       PROVE  <<s[i], s[j]>> \in order
  <2>1. i \in Int /\ j \in Int
    BY <1>1 DEF D
  <2>2. s[i] # s[j]
    BY <1>13, <1>15, <2>1
  <2>3. <<s[j], s[i]>> \notin order
    <3>1. ~(j < i)
      BY <1>15, <2>1
    <3>2. QED
      BY <1>5, <1>11, <3>1
  <2>4. QED
    BY <1>11, <2>2, <2>3
<1>16. QED
  BY <1>12, <1>14, <1>15

(* A set of integers below a bound has a maximum. *)
LEMMA MaxExists ==
  ASSUME NEW S, S \subseteq Int, S # {}, NEW top \in Int, \A x \in S : x <= top
  PROVE  Max(S) \in S /\ \A x \in S : x <= Max(S)
<1> DEFINE gaps == {n \in Nat : \E x \in S : n = top - x}
<1>1. \A x \in S : top - x \in gaps
  OBVIOUS
<1>2. gaps \subseteq Nat /\ gaps # {}
  BY <1>1
<1>3. IsWellFoundedOn(Below, Nat)
  BY NatLessThanWellFounded, Zenon DEF Below, OpToRel
<1> HIDE DEF gaps
<1>4. PICK n \in gaps : \A m \in gaps : <<m, n>> \notin Below
  BY <1>2, <1>3, WFMin
<1>5. \A m \in gaps : m >= n
  <2>1. ASSUME NEW m \in gaps PROVE m >= n
    <3>1. m \in Nat /\ n \in Nat /\ <<m, n>> \notin Below
      BY <1>2, <1>4
    <3>2. QED
      BY <3>1 DEF Below
  <2>2. QED
    BY <2>1
<1>6. PICK x \in S : n = top - x
  BY DEF gaps
<1>7. \A y \in S : x >= y
  <2>1. ASSUME NEW y \in S PROVE x >= y
    <3>1. top - y >= top - x /\ x \in Int /\ y \in Int
      BY <1>1, <1>5, <1>6
    <3>2. QED
      BY <3>1
  <2>2. QED
    BY <2>1
<1>8. Max(S) \in S /\ \A y \in S : Max(S) >= y
  BY <1>7 DEF Max
<1>9. QED
  BY <1>8

=============================================================================
