------------------------ MODULE CollaborativeProofs ------------------------
(* Theorems about CollaborativeRunner: who is credited, with what, and when
   anybody is paid, for any contributions, surface, hash, gate and pool. *)
EXTENDS CollaborativeRunner, TallyProofs

-----------------------------------------------------------------------------
(* 1. The order of the keys. *)
LEMMA KeyOrder ==
  ASSUME NEW c \in Contributions, NEW d \in Contributions
  PROVE  FoldsBefore(c, d) <=>
           \/ RefHash(c.ref) < RefHash(d.ref)
           \/ RefHash(c.ref) = RefHash(d.ref) /\ c.ref < d.ref
           \/ RefHash(c.ref) = RefHash(d.ref) /\ c.ref = d.ref /\ c.contributor < d.contributor
<1> DEFINE key(x) == <<RefHash(x.ref), x.ref, x.contributor>>
<1>1. FoldsBefore(c, d) <=>
        \E i \in 1..3 : key(c)[i] < key(d)[i] /\ \A j \in 1..(i - 1) : key(c)[j] = key(d)[j]
  BY DEF FoldsBefore
<1>2. 1..3 = {1, 2, 3} /\ 1..(1 - 1) = {} /\ 1..(2 - 1) = {1} /\ 1..(3 - 1) = {1, 2}
  OBVIOUS
<1>3. FoldsBefore(c, d) <=>
        \/ key(c)[1] < key(d)[1]
        \/ key(c)[2] < key(d)[2] /\ key(c)[1] = key(d)[1]
        \/ key(c)[3] < key(d)[3] /\ key(c)[1] = key(d)[1] /\ key(c)[2] = key(d)[2]
  BY <1>1, <1>2
<1>4. QED
  BY <1>3

LEMMA KeyTypes ==
  ASSUME NEW c \in Contributions
  PROVE  RefHash(c.ref) \in Nat /\ c.ref \in Nat /\ c.contributor \in Nat
BY CollaborativeAssumption

LEMMA Asymmetric ==
  ASSUME NEW c \in Contributions, NEW d \in Contributions, FoldsBefore(c, d)
  PROVE  ~FoldsBefore(d, c) /\ c # d
BY KeyOrder, KeyTypes

LEMMA Connected ==
  ASSUME NEW c \in Contributions, NEW d \in Contributions, c # d
  PROVE  FoldsBefore(c, d) \/ FoldsBefore(d, c)
<1>1. c.contributor # d.contributor \/ c.ref # d.ref
  BY CollaborativeAssumption
<1>2. QED
  BY <1>1, KeyOrder, KeyTypes

(* Of a set of naturals that is not empty, the least. *)
LEMMA LeastNatural ==
  ASSUME NEW S \in SUBSET Nat, S # {}
  PROVE  \E n \in S : \A m \in S : n <= m
<1> DEFINE below == {n \in Nat : \A m \in S : n <= m}
<1> SUFFICES ASSUME \A n \in S : \E m \in S : m < n PROVE FALSE
  OBVIOUS
<1>1. 0 \in below
  OBVIOUS
<1>2. ASSUME NEW n \in Nat, n \in below PROVE n + 1 \in below
  <2>1. n \notin S
    BY <1>2
  <2>2. \A m \in S : m # n /\ n <= m /\ m \in Nat
    BY <1>2, <2>1
  <2>3. \A m \in S : n + 1 <= m
    BY <2>2
  <2>4. QED
    BY <2>3
<1> HIDE DEF below
<1>3. Nat \subseteq below
  BY <1>1, <1>2, Induction
<1>4. PICK n \in S : TRUE
  OBVIOUS
<1>5. n + 1 \in below /\ n \in Nat
  BY <1>3
<1>6. n + 1 <= n
  BY <1>5 DEF below
<1>7. QED
  BY <1>5, <1>6

(* Of any contributions, one comes first. *)
LEMMA SomeFirst ==
  ASSUME NEW S \in SUBSET Contributions, S # {}
  PROVE  \E c \in S : \A d \in S : ~FoldsBefore(d, c)
<1>1. PICK a \in S : \A d \in S : RefHash(a.ref) <= RefHash(d.ref)
  <2> DEFINE H == {RefHash(c.ref) : c \in S}
  <2>1. H \in SUBSET Nat /\ H # {}
    BY KeyTypes
  <2>2. PICK h \in H : \A k \in H : h <= k
    BY <2>1, LeastNatural
  <2>3. QED
    BY <2>2
<1> DEFINE S1 == {d \in S : RefHash(d.ref) = RefHash(a.ref)}
<1>2. PICK b \in S1 : \A d \in S1 : b.ref <= d.ref
  <2> DEFINE H == {c.ref : c \in S1}
  <2>1. H \in SUBSET Nat /\ H # {}
    BY KeyTypes
  <2>2. PICK h \in H : \A k \in H : h <= k
    BY <2>1, LeastNatural
  <2>3. QED
    BY <2>2
<1> DEFINE S2 == {d \in S1 : d.ref = b.ref}
<1>3. PICK c \in S2 : \A d \in S2 : c.contributor <= d.contributor
  <2> DEFINE H == {c.contributor : c \in S2}
  <2>1. H \in SUBSET Nat /\ H # {}
    BY KeyTypes
  <2>2. PICK h \in H : \A k \in H : h <= k
    BY <2>1, LeastNatural
  <2>3. QED
    BY <2>2
<1>4. ASSUME NEW d \in S PROVE ~FoldsBefore(d, c)
  <2>1. /\ c \in Contributions /\ d \in Contributions
        /\ RefHash(c.ref) <= RefHash(d.ref)
        /\ RefHash(c.ref) = RefHash(d.ref) => c.ref <= d.ref
        /\ RefHash(c.ref) = RefHash(d.ref) /\ c.ref = d.ref => c.contributor <= d.contributor
    BY <1>1, <1>2, <1>3
  <2>2. QED
    BY <2>1, KeyOrder, KeyTypes
<1>5. QED
  BY <1>4

(* The equations that an outcome satisfies have one solution: where two differ
   first, they agree on all that comes before. *)
THEOREM OneOutcome ==
  ASSUME NEW lift, NEW f \in SUBSET Contributions, NEW g \in SUBSET Contributions,
         NEW p, p \in [Contributions -> Int \cup {Infinite}],
         NEW q, q \in [Contributions -> Int \cup {Infinite}],
         Outcome(lift, f, p), Outcome(lift, g, q)
  PROVE  f = g /\ p = q
<1> DEFINE apart == {c \in Contributions : ~(c \in f <=> c \in g)}
           before(s, c) == {d \in s : FoldsBefore(d, c)}
<1>1. /\ \A c \in Contributions :
           /\ c \in f <=> Improves(lift[before(f, c) \cup {c}], lift[before(f, c)])
           /\ p[c] = IF c \in f THEN Gained(lift[before(f, c) \cup {c}], lift[before(f, c)]) ELSE 0
      /\ \A c \in Contributions :
           /\ c \in g <=> Improves(lift[before(g, c) \cup {c}], lift[before(g, c)])
           /\ q[c] = IF c \in g THEN Gained(lift[before(g, c) \cup {c}], lift[before(g, c)]) ELSE 0
  BY DEF Outcome
<1>2. ASSUME apart # {} PROVE FALSE
  <2>1. PICK c \in apart : \A d \in apart : ~FoldsBefore(d, c)
    BY <1>2, SomeFirst
  <2>2. before(f, c) = before(g, c)
    BY <2>1
  <2>3. QED
    BY <1>1, <2>1, <2>2
<1>3. f = g
  BY <1>2
<1>4. \A c \in Contributions : p[c] = q[c]
  BY <1>1, <1>3
<1>5. QED
  BY <1>3, <1>4

-----------------------------------------------------------------------------
(* 2. The fold. *)
Scores == Int \cup {Infinite, NotANumber}

Waiting(c) == \E i \in 1..Len(toFold) : toFold[i] = c

FoldTypes ==
  /\ surface \in Surfaces
  /\ measured \in Measurements
  /\ toFold \in Seq(Contributions)
  /\ shared \in SUBSET Contributions
  /\ marginals \in [Contributions -> Int \cup {Infinite}]

(* What waits is in order, and behind everything that does not. *)
InOrder ==
  /\ \A i, j \in 1..Len(toFold) : i < j => FoldsBefore(toFold[i], toFold[j])
  /\ \A c, d \in Contributions : ~Waiting(c) /\ Waiting(d) => FoldsBefore(c, d)

(* The equations of the outcome, for one contribution. *)
Settled(lift, folded, credit, c) ==
  LET before == {d \in folded : FoldsBefore(d, c)}
  IN  /\ c \in folded <=> Improves(lift[before \cup {c}], lift[before])
      /\ credit[c] = IF c \in folded THEN Gained(lift[before \cup {c}], lift[before]) ELSE 0

FoldInv ==
  /\ FoldTypes
  /\ InOrder
  /\ lastLift = surface[shared]
  /\ \A c \in Contributions :
       IF Waiting(c) THEN c \notin shared /\ marginals[c] = 0
       ELSE Settled(surface, shared, marginals, c)
  /\ stage = "settled" => toFold = <<>>

LEMMA SurfaceType ==
  ASSUME FoldTypes
  PROVE  surface \in [SUBSET Contributions -> Scores] /\ surface[{}] = 0
BY CollaborativeAssumption DEF FoldTypes, Scores

LEMMA FoldStarts == Init => FoldInv
<1> SUFFICES ASSUME Init PROVE FoldInv
  OBVIOUS
<1>1. ToSet(callerOrder) = Contributions
  BY AllInOrder, CollaborativeAssumption DEF Init
<1>2. toFold \in SetToSeqs(Contributions)
      /\ \A i, j \in DOMAIN toFold : i < j => FoldsBefore(toFold[i], toFold[j])
  BY <1>1 DEF Init, FoldOrders
<1>3. /\ toFold \in Seq(Contributions) /\ DOMAIN toFold = 1..Len(toFold)
      /\ ToSet(toFold) = Contributions
  BY <1>2, AllInOrder, CollaborativeAssumption
<1>4. \A c \in Contributions : Waiting(c)
  BY <1>3 DEF Waiting, ToSet
<1>5. FoldTypes
  BY <1>3 DEF Init, FoldTypes
<1>6. InOrder
  BY <1>2, <1>3, <1>4 DEF InOrder
<1>7. lastLift = surface[shared]
  BY <1>5, SurfaceType DEF Init
<1>8. QED
  BY <1>4, <1>5, <1>6, <1>7 DEF Init, FoldInv

(* What has been folded is settled for good: what comes later in the order of
   the keys is not among what comes before it. *)
LEMMA StaysSettled ==
  ASSUME NEW lift, NEW folded \in SUBSET Contributions, NEW credit, NEW more, NEW c \in Contributions,
         NEW d \in Contributions, FoldsBefore(d, c), Settled(lift, folded, credit, d),
         more[d] = credit[d]
  PROVE  Settled(lift, folded \cup {c}, more, d)
<1>1. ~FoldsBefore(c, d) /\ c # d
  BY Asymmetric
<1>2. {e \in folded \cup {c} : FoldsBefore(e, d)} = {e \in folded : FoldsBefore(e, d)}
  BY <1>1
<1>3. d \in folded \cup {c} <=> d \in folded
  BY <1>1
<1>4. QED
  BY <1>2, <1>3 DEF Settled

LEMMA FoldKeeps ==
  ASSUME FoldInv, Fold
  PROVE  FoldInv'
<1> DEFINE c == Head(toFold)
           n == Len(toFold)
<1>1. /\ FoldTypes /\ InOrder /\ lastLift = surface[shared]
      /\ toFold # <<>> /\ toFold \in Seq(Contributions) /\ surface' = surface
      /\ toFold' = Tail(toFold) /\ stage' = "folding" /\ measured' = measured
      /\ \/ Accept(c)
         \/ Reject(c)
  BY DEF FoldInv, FoldTypes, Fold, config
<1>2. /\ c \in Contributions /\ c = toFold[1] /\ n \in Nat \ {0}
      /\ toFold' \in Seq(Contributions) /\ Len(toFold') = n - 1
      /\ \A i \in 1..n - 1 : toFold'[i] = toFold[i + 1]
  BY <1>1, HeadTailProperties, EmptySeq, LenProperties
<1>3. \A d \in Contributions : Waiting(d) /\ d # c => FoldsBefore(c, d)
  BY <1>1, <1>2 DEF Waiting, InOrder
<1>4. ASSUME NEW d \in Contributions PROVE Waiting(d)' <=> Waiting(d) /\ d # c
  <2>1. Waiting(d)' <=> \E i \in 1..n - 1 : toFold[i + 1] = d
    BY <1>2 DEF Waiting
  <2>2. ASSUME NEW i \in 1..n - 1, toFold[i + 1] = d PROVE Waiting(d) /\ d # c
    <3>1. i + 1 \in 1..n /\ 1 \in 1..n /\ 1 < i + 1
      BY <1>2
    <3>2. FoldsBefore(c, d)
      BY <1>1, <1>2, <2>2, <3>1 DEF InOrder
    <3>3. QED
      BY <1>2, <2>2, <3>1, <3>2, Asymmetric DEF Waiting
  <2>3. ASSUME Waiting(d), d # c PROVE \E i \in 1..n - 1 : toFold[i + 1] = d
    <3>1. PICK k \in 1..n : toFold[k] = d
      BY <2>3 DEF Waiting
    <3>2. k - 1 \in 1..n - 1 /\ (k - 1) + 1 = k
      BY <1>2, <2>3, <3>1
    <3>3. QED
      BY <3>1, <3>2
  <2>4. QED
    BY <2>1, <2>2, <2>3
<1>5. Waiting(c)
  BY <1>2 DEF Waiting
<1>6. \A d \in Contributions : ~Waiting(d) => FoldsBefore(d, c)
  BY <1>1, <1>2, <1>5 DEF InOrder
<1>7. c \notin shared /\ marginals[c] = 0
  BY <1>2, <1>5 DEF FoldInv
<1>8. {d \in shared : FoldsBefore(d, c)} = shared
  <2>1. \A d \in shared : d \in Contributions /\ ~Waiting(d)
    BY <1>1 DEF FoldInv, FoldTypes
  <2>2. QED
    BY <1>6, <2>1
<1>9. surface[shared] \in Scores /\ surface[shared \cup {c}] \in Scores
  BY <1>1, <1>2, SurfaceType DEF FoldTypes
<1>10. InOrder'
  <2>1. ASSUME NEW i \in 1..Len(toFold'), NEW j \in 1..Len(toFold'), i < j
        PROVE  FoldsBefore(toFold'[i], toFold'[j])
    <3>1. i + 1 \in 1..n /\ j + 1 \in 1..n /\ i + 1 < j + 1
      BY <1>2, <2>1
    <3>2. i \in 1..n - 1 /\ j \in 1..n - 1
      BY <1>2
    <3>3. QED
      BY <1>1, <1>2, <3>1, <3>2 DEF InOrder
  <2>2. ASSUME NEW d \in Contributions, NEW e \in Contributions, ~Waiting(d)', Waiting(e)'
        PROVE  FoldsBefore(d, e)
    BY <1>1, <1>3, <1>4, <2>2 DEF InOrder
  <2>3. QED
    BY <2>1, <2>2 DEF InOrder
<1>11. CASE Accept(c)
  <2>1. /\ Improves(surface[shared \cup {c}], surface[shared]) /\ shared' = shared \cup {c}
        /\ marginals' = [marginals EXCEPT ![c] = Gained(surface[shared \cup {c}], surface[shared])]
        /\ lastLift' = surface[shared \cup {c}]
    BY <1>1, <1>11 DEF Accept, FoldedWith
  <2>2. Gained(surface[shared \cup {c}], surface[shared]) \in Int \cup {Infinite}
    BY <1>9, <2>1 DEF Scores, Gained, Improves, Finite
  <2>3. FoldTypes'
    BY <1>1, <1>2, <2>1, <2>2 DEF FoldTypes
  <2>4. Settled(surface, shared', marginals', c)
    <3>1. {d \in shared' : FoldsBefore(d, c)} = shared
      BY <1>2, <1>8, <2>1, Asymmetric
    <3>2. marginals'[c] = Gained(surface[shared \cup {c}], surface[shared])
      BY <1>1, <1>2, <2>1 DEF FoldTypes
    <3>3. QED
      BY <2>1, <3>1, <3>2 DEF Settled
  <2>5. ASSUME NEW d \in Contributions, ~Waiting(d), d # c
        PROVE  Settled(surface, shared', marginals', d)
    <3>1. Settled(surface, shared, marginals, d) /\ marginals'[d] = marginals[d]
      BY <1>1, <2>1, <2>5 DEF FoldInv, FoldTypes
    <3>2. QED
      BY <1>1, <1>2, <1>6, <2>1, <2>5, <3>1, StaysSettled DEF FoldTypes
  <2>6. ASSUME NEW d \in Contributions, Waiting(d), d # c
        PROVE  d \notin shared' /\ marginals'[d] = 0
    BY <1>1, <2>1, <2>6 DEF FoldInv, FoldTypes
  <2>7. \A d \in Contributions :
          IF Waiting(d)' THEN d \notin shared' /\ marginals'[d] = 0
          ELSE Settled(surface', shared', marginals', d)
    BY <1>1, <1>4, <2>4, <2>5, <2>6
  <2>8. QED
    BY <1>1, <1>10, <2>1, <2>3, <2>7 DEF FoldInv, Settled
<1>12. CASE Reject(c)
  <2>1. /\ ~Improves(surface[shared \cup {c}], surface[shared])
        /\ shared' = shared /\ marginals' = marginals /\ lastLift' = lastLift
    BY <1>1, <1>12 DEF Reject, FoldedWith
  <2>2. FoldTypes'
    BY <1>1, <1>2, <2>1 DEF FoldTypes
  <2>3. Settled(surface, shared, marginals, c)
    BY <1>7, <1>8, <2>1 DEF Settled
  <2>4. \A d \in Contributions :
          IF Waiting(d)' THEN d \notin shared /\ marginals[d] = 0
          ELSE Settled(surface, shared, marginals, d)
    BY <1>4, <2>3 DEF FoldInv
  <2>5. QED
    BY <1>1, <1>10, <2>1, <2>2, <2>4 DEF FoldInv, Settled
<1>13. QED
  BY <1>1, <1>11, <1>12

LEMMA FoldStep == FoldInv /\ [Next]_collaborativeVars => FoldInv'
<1> SUFFICES ASSUME FoldInv, [Next]_collaborativeVars PROVE FoldInv'
  OBVIOUS
<1>1. CASE UNCHANGED <<surface, measured, toFold, shared, lastLift, marginals>> /\ (stage' = "settled" => toFold = <<>>)
  <2>1. \A c : Waiting(c)' <=> Waiting(c)
    BY <1>1 DEF Waiting
  <2>2. QED
    BY <1>1, <2>1 DEF FoldInv, FoldTypes, InOrder, Settled
<1>2. QED
  BY <1>1, FoldKeeps DEF Next, Fail, Settle, config, collaborativeVars, FoldInv

LEMMA FoldIsKept == Spec => []FoldInv
  BY FoldStarts, FoldStep, PTL DEF Spec

(* However the caller lists the contributions, what they earn solves equations
   that do not mention its list; OneOutcome says that only one thing does. *)
THEOREM OrderIsIrrelevant == Spec => []CallerOrderIsIrrelevant
<1>1. ASSUME FoldInv PROVE CallerOrderIsIrrelevant
  <2> SUFFICES ASSUME stage = "settled" PROVE Outcome(surface, shared, marginals)
    BY DEF CallerOrderIsIrrelevant
  <2>1. \A c : ~Waiting(c)
    BY <1>1, EmptySeq DEF FoldInv, Waiting
  <2>2. QED
    BY <1>1, <2>1 DEF FoldInv, Outcome, Settled
<1>2. QED
  BY <1>1, FoldIsKept, PTL

-----------------------------------------------------------------------------
(* 3. What is credited and who is paid. *)
Credits == [c \in Contributions |-> Clamped(marginals[c])]

CreditInv ==
  /\ FoldInv
  /\ Finite(lastLift) => lastLift = Tally(Credits)
  /\ payouts # <<>> => stage = "settled" /\ FinalClears

LEMMA CreditsType == FoldTypes => Credits \in [Contributions -> Nat]
BY DEF FoldTypes, Credits, Clamped, Finite

LEMMA CreditStarts == Init => CreditInv
<1> SUFFICES ASSUME Init PROVE CreditInv
  OBVIOUS
<1>1. FoldInv
  BY FoldStarts
<1>2. Credits \in [Contributions -> Nat] /\ \A c \in Contributions : Credits[c] = 0
  BY DEF Init, Credits, Clamped
<1>3. Tally(Credits) = 0
  BY <1>2, TallyZero
<1>4. QED
  BY <1>1, <1>3 DEF CreditInv, Init

LEMMA GainCounts ==
  ASSUME NEW old \in Int, NEW new \in Int, new > old
  PROVE  Clamped(new - old) = new - old /\ Clamped(0) = 0
BY CollaborativeAssumption DEF Clamped, Finite

(* An accepted fold adds to the credits what it added to the lift. *)
LEMMA AcceptAdds ==
  ASSUME CreditInv, Fold, Finite(lastLift')
  PROVE  lastLift' = Tally(Credits)'
<1> DEFINE c == Head(toFold)
           f == Credits
           g == Credits'
<1>1. FoldTypes /\ toFold # <<>> /\ toFold \in Seq(Contributions)
  BY DEF CreditInv, FoldInv, FoldTypes, Fold
<1>2. c \in Contributions /\ c = toFold[1] /\ 1 \in 1..Len(toFold)
  BY <1>1, HeadTailProperties, EmptySeq, LenProperties
<1>3. marginals[c] = 0
  BY <1>2 DEF CreditInv, FoldInv, Waiting
<1>4. FoldTypes'
  BY FoldKeeps DEF CreditInv, FoldInv
<1>5. f \in [Contributions -> Nat] /\ g \in [Contributions -> Nat]
  <2>1. f \in [Contributions -> Nat]
    BY <1>1, CreditsType
  <2>2. (FoldTypes => Credits \in [Contributions -> Nat])'
    BY CreditsType, PTL
  <2>3. QED
    BY <1>4, <2>1, <2>2
<1>6. CASE Accept(c)
  <2>1. /\ Improves(lastLift', lastLift) /\ lastLift' \in Scores /\ lastLift \in Scores
        /\ marginals' = [marginals EXCEPT ![c] = Gained(lastLift', lastLift)]
    <3>1. /\ lastLift' = surface[shared \cup {c}] /\ lastLift = surface[shared]
      BY <1>6 DEF Accept, FoldedWith, CreditInv, FoldInv
    <3>2. shared \cup {c} \in SUBSET Contributions /\ shared \in SUBSET Contributions
      BY <1>1, <1>2 DEF FoldTypes
    <3>3. QED
      BY <1>1, <1>6, <3>1, <3>2, SurfaceType DEF Accept, FoldedWith
  <2>2. lastLift' \in Int /\ lastLift \in Int /\ lastLift' > lastLift
    BY <2>1 DEF Improves, Finite, Scores
  <2>3. marginals'[c] = lastLift' - lastLift
    BY <1>1, <1>2, <2>1 DEF Gained, FoldTypes
  <2>4. f[c] = 0 /\ g[c] = lastLift' - lastLift
    <3>1. f[c] = Clamped(0) /\ g[c] = Clamped(lastLift' - lastLift)
      BY <1>2, <1>3, <2>3 DEF Credits
    <3>2. QED
      BY <2>2, <3>1, GainCounts
  <2>5. \A d \in Contributions \ {c} : g[d] = f[d]
    BY <1>1, <2>1 DEF Credits, Clamped, FoldTypes
  <2> DEFINE old == lastLift
             new == lastLift'
  <2> HIDE DEF f, g, c, old, new
  <2>11. IsFiniteSet(Contributions)
    BY CollaborativeAssumption
  <2>6. Tally(g) = Tally(f) + g[c] - f[c]
    BY ONLY <2>11, <1>2, <1>5, <2>5, TallyChange, SMTT(30)
  <2>7. Tally(f) = old
    BY <2>1 DEF CreditInv, f, Improves, old
  <2>8. f[c] = 0 /\ g[c] = new - old /\ old \in Int /\ new \in Int
    BY <2>2, <2>4 DEF old, new
  <2>9. Tally(g) = new
    BY <2>6, <2>7, <2>8
  <2>10. QED
    BY <2>9 DEF g, new
<1>7. CASE Reject(c)
  <2>1. lastLift' = lastLift /\ marginals' = marginals
    BY <1>7 DEF Reject
  <2>2. Credits' = Credits
    BY <2>1 DEF Credits
  <2>3. QED
    BY <2>1, <2>2 DEF CreditInv
<1>8. QED
  BY <1>6, <1>7 DEF Fold

LEMMA CreditStep == CreditInv /\ [Next]_collaborativeVars => CreditInv'
<1> SUFFICES ASSUME CreditInv, [Next]_collaborativeVars PROVE CreditInv'
  OBVIOUS
<1>1. FoldInv'
  BY FoldStep DEF CreditInv
<1>2. Finite(lastLift') => lastLift' = Tally(Credits)'
  <2>1. CASE Fold
    BY <2>1, AcceptAdds
  <2>2. CASE lastLift' = lastLift /\ marginals' = marginals
    BY <2>2 DEF CreditInv, Credits
  <2>3. QED
    BY <2>1, <2>2 DEF Next, Fail, Settle, collaborativeVars
<1>3. payouts' # <<>> => stage' = "settled" /\ FinalClears'
  <2>1. CASE UNCHANGED payouts /\ (UNCHANGED <<stage, lastLift, shared, measured>> \/ stage = "folding")
    BY <2>1 DEF CreditInv, FinalClears, LiftOf
  <2>2. CASE Settle
    BY <2>2 DEF Settle, FinalClears, LiftOf, config
  <2>3. QED
    BY <2>1, <2>2 DEF Next, Fold, Fail, config, collaborativeVars
<1>4. QED
  BY <1>1, <1>2, <1>3 DEF CreditInv

LEMMA CreditIsKept == Spec => []CreditInv
  BY CreditStarts, CreditStep, PTL DEF Spec

(* The credits add up to the lift of what is in the artifact, however many folds
   were rolled back, unless an infinite score has got in. *)
THEOREM CreditsAddUp == Spec => []CreditsAddUpToTheLift
<1>1. CreditInv => CreditsAddUpToTheLift
  BY DEF CreditInv, FoldInv, CreditsAddUpToTheLift, TotalCredit, Credits
<1>2. QED
  BY <1>1, CreditIsKept, PTL

(* Errors that combine to a half-width: it is a natural, and covers them. *)
LEMMA QuadratureCovers ==
  ASSUME NEW a \in Nat, NEW b \in Nat
  PROVE  /\ Quadrature(a, b) \in Nat
         /\ Quadrature(a, b) * Quadrature(a, b) >= a * a + b * b
<1> DEFINE squares == a * a + b * b
           wide == {h \in 0..(a + b) : h * h >= squares}
<1>1. (a + b) * (a + b) = squares + 2 * (a * b) /\ a * b \in Nat /\ squares \in Nat
  OBVIOUS
<1>2. a + b \in wide
  BY <1>1
<1>3. PICK h \in wide : \A k \in wide : h <= k
  <2>1. wide \in SUBSET Nat /\ wide # {}
    BY <1>2
  <2> HIDE DEF wide
  <2>2. QED
    BY <2>1, LeastNatural
<1>4. \E g \in 0..(a + b) : /\ g * g >= squares
                            /\ \A k \in 0..(a + b) : k * k >= squares => g <= k
  BY <1>3
<1>5. /\ Quadrature(a, b) \in 0..(a + b)
      /\ Quadrature(a, b) * Quadrature(a, b) >= squares
  BY <1>4 DEF Quadrature
<1>6. QED
  BY <1>5

LEMMA GreaterSquares ==
  ASSUME NEW h \in Nat, NEW m \in Int, h <= m
  PROVE  m >= 0 /\ m * m >= h * h
<1>1. (m - h) * (m + h) >= 0
  OBVIOUS
<1>2. (m - h) * (m + h) = m * m - h * h
  OBVIOUS
<1>3. QED
  BY <1>1, <1>2

(* Whoever is paid, is paid for an artifact whose lift is a number, measured
   well enough, and beyond the gate's bound by more than its error. *)
THEOREM PaidWhenCertified == Spec => []PaidOnlyForCertifiedLift
<1>1. ASSUME CreditInv, payouts # <<>> PROVE PaidOnlyForCertifiedLift
  <2> DEFINE mine == measured[shared]
             base == measured[{}]
             h == Quadrature(mine.half, base.half)
             lift == surface[shared]
             margin == lift - TheGate.minLower
  <2>1. /\ FoldTypes /\ lastLift = lift /\ FinalClears /\ measured \in Measurements
    BY <1>1 DEF CreditInv, FoldInv, FoldTypes
  <2>2. /\ mine \in [half : Nat \cup {Infinite}, n : Nat, cost : Nat]
        /\ base \in [half : Nat \cup {Infinite}, n : Nat, cost : Nat]
        /\ lift \in Scores /\ TheGate \in Gate
    <3>1. shared \in SUBSET Contributions /\ {} \in SUBSET Contributions
      BY <2>1 DEF FoldTypes
    <3>2. measured \in [SUBSET Contributions -> [half : Nat \cup {Infinite}, n : Nat, cost : Nat]]
      BY <2>1, CollaborativeAssumption
    <3>3. QED
      BY <2>1, <3>1, <3>2, SurfaceType, CollaborativeAssumption
  <2>3. LiftOf(lift) =
          [finite |-> Finite(lift) /\ Infinite \notin {mine.half, base.half},
           delta |-> IF Finite(lift) THEN lift ELSE 0,
           lower |-> IF Finite(lift) /\ Infinite \notin {mine.half, base.half}
                     THEN lift - h ELSE 0,
           n |-> Lesser(mine.n, base.n), cost |-> mine.cost, size |-> mine.n]
    BY DEF LiftOf
  <2> HIDE DEF mine, base, h, lift
  <2>4. /\ Finite(lift) /\ Infinite \notin {mine.half, base.half}
        /\ TheGate.ceiling # Uncapped => mine.cost <= TheGate.ceiling * mine.n
    <3>1. Clears(TheGate, LiftOf(lift))
      BY <2>1 DEF FinalClears
    <3>2. /\ LiftOf(lift).finite
          /\ TheGate.ceiling # Uncapped =>
               LiftOf(lift).cost <= TheGate.ceiling * LiftOf(lift).size
      BY <3>1 DEF Clears
    <3>3. LiftOf(lift).finite = (Finite(lift) /\ Infinite \notin {mine.half, base.half})
      BY <2>3
    <3>4. LiftOf(lift).cost = mine.cost /\ LiftOf(lift).size = mine.n
      BY <2>3
    <3>5. QED
      BY ONLY <3>2, <3>3, <3>4
  <2>12. /\ lift - h >= TheGate.minLower /\ Lesser(mine.n, base.n) >= TheGate.minN
    BY <2>1, <2>3, <2>4 DEF FinalClears, Clears
  <2>5. /\ mine.half \in Nat /\ base.half \in Nat /\ lift \in Int /\ margin \in Int
        /\ TheGate.minLower \in Int /\ TheGate.minN \in Nat /\ mine.n \in Nat /\ base.n \in Nat
    BY <2>2, <2>4 DEF Scores, Finite, Gate
  <2>6. h \in Nat /\ h * h >= mine.half * mine.half + base.half * base.half
    BY <2>5, QuadratureCovers DEF h
  <2>7. h <= margin
    BY <2>5, <2>6, <2>12
  <2>8. margin >= 0 /\ margin * margin >= h * h
    BY <2>5, <2>6, <2>7, GreaterSquares
  <2>9. margin * margin >= mine.half * mine.half + base.half * base.half
    <3>1. mine.half * mine.half \in Nat /\ base.half * base.half \in Nat
          /\ h * h \in Nat /\ margin * margin \in Int
      BY <2>5, <2>6
    <3>2. QED
      BY <2>6, <2>8, <3>1
  <2>10. mine.n >= TheGate.minN /\ base.n >= TheGate.minN
    BY <2>5, <2>12 DEF Lesser
  <2>11. QED
    BY <2>4, <2>8, <2>9, <2>10 DEF PaidOnlyForCertifiedLift, mine, base, lift
<1>2. CreditInv => PaidOnlyForCertifiedLift
  BY <1>1 DEF PaidOnlyForCertifiedLift
<1>3. QED
  BY <1>2, CreditIsKept, PTL

=============================================================================
