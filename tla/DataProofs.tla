----------------------------- MODULE DataProofs -----------------------------
(***************************************************************************)
(* Theorems that need sums and walks over sequences.  Commands to the EC   *)
(* and their sums, for every command, context, transport and damage; the   *)
(* event log, for every length of the region, log of the firmware and      *)
(* event; and the iterator of the SMBIOS tables, for every list of tables. *)
(* Induction over a sequence is on the least place at which what is to be  *)
(* shown fails (LeastElement).                                             *)
(***************************************************************************)
EXTENDS EcTransport, EventLog, TableIter, WellFoundedInduction,
        SequenceTheorems, FiniteSetTheorems, TLAPS

LEMMA LeastElement ==
  ASSUME NEW S \in SUBSET Nat, S # {}
  PROVE  \E x \in S : \A y \in S : x <= y
  <1>1. PICK x \in S : \A y \in S : ~ (<<y, x>> \in OpToRel(<, Nat))
    BY NatLessThanWellFounded, WFMin
  <1>2. ASSUME NEW y \in S, y < x PROVE FALSE
    <2> DEFINE pair == <<y, x>>
    <2>1. pair \in Nat \X Nat /\ pair[1] < pair[2]
      BY <1>2
    <2> HIDE DEF pair
    <2>2. pair \in OpToRel(<, Nat)
      BY <2>1 DEF OpToRel
    <2>3. QED
      BY <1>1, <2>2 DEF pair
  <1>3. QED
    BY <1>2

(* Finite intervals have greatest elements, as folds choose them.          *)
LEMMA MaxOfInterval ==
  ASSUME NEW n \in Nat, NEW s \in SUBSET (1 .. n), s # {}
  PROVE  Max(s) \in s /\ \A x \in s : Max(s) >= x
  <1> DEFINE below == {y \in 0 .. n : n - y \in s}
  <1>1. \A x \in s : x \in Nat /\ n - x \in 0 .. n /\ n - (n - x) = x
    OBVIOUS
  <1>2. below # {} /\ below \in SUBSET Nat
    <2>1. PICK x \in s : TRUE
      OBVIOUS
    <2>2. n - x \in below
      BY <1>1
    <2>3. \A y \in below : y \in Nat
      OBVIOUS
    <2> HIDE DEF below
    <2>4. QED
      BY <2>2, <2>3
  <1>3. PICK y \in below : \A z \in below : y <= z
    BY <1>2, LeastElement
  <1>4. n - y \in s /\ \A x \in s : n - y >= x
    BY <1>1, <1>3
  <1>5. QED
    BY <1>4 DEF Max

(* g is a fold of the functions h over subsets of 1 .. n, as long as its   *)
(* values are in B.                                                        *)
FoldsBy(g, base, B, n, h) ==
  \A s \in SUBSET (1 .. n) :
    IF s = {} THEN g[s] = base
    ELSE g[s \ {Max(s)}] \in B => g[s] = h[Max(s)][g[s \ {Max(s)}]]

FoldOf(g, n) == g[1 .. n]

(* The values of a fold, one after the other.                              *)
StepsBy(steps, base, B, n, h) ==
  /\ steps \in [0 .. n -> B]
  /\ steps[0] = base
  /\ \A k \in 1 .. n : steps[k] = h[k][steps[k - 1]]

(* The recursion of a fold over 1 .. n has a solution: it is extended from *)
(* the subsets of 1 .. n - 1 to those that have n for their maximum.       *)
LEMMA FoldRecursion ==
  ASSUME NEW B, NEW base \in B, NEW n \in Nat,
         NEW h \in [1 .. n -> [B -> B]]
  PROVE  \E g \in [SUBSET (1 .. n) -> B] : FoldsBy(g, base, B, n, h)
  <1> DEFINE Solves(g, k) ==
               \A s \in SUBSET (1 .. k) :
                 g[s] = IF s = {} THEN base ELSE h[Max(s)][g[s \ {Max(s)}]]
             Bad == {k \in 0 .. n :
                       ~ \E g \in [SUBSET (1 .. k) -> B] : Solves(g, k)}
  <1> SUFFICES ASSUME ~ \E g \in [SUBSET (1 .. n) -> B] : Solves(g, n)
               PROVE  FALSE
    BY DEF FoldsBy
  <1>1. Bad # {} /\ Bad \in SUBSET Nat
    <2>1. n \in 0 .. n
      OBVIOUS
    <2> HIDE DEF Solves
    <2>2. n \in Bad
      BY <2>1
    <2>3. \A l \in Bad : l \in Nat
      OBVIOUS
    <2> HIDE DEF Bad
    <2>4. QED
      BY <2>2, <2>3
  <1>2. PICK k \in Bad : \A l \in Bad : k <= l
    <2> HIDE DEF Bad
    <2>1. QED
      BY <1>1, LeastElement
  <1>3. k # 0
    <2> DEFINE g0 == [s \in SUBSET (1 .. 0) |-> base]
    <2>1. SUBSET (1 .. 0) = {{}}
      <3>1. 1 .. 0 = {}
        OBVIOUS
      <3>2. QED
        BY <3>1
    <2>2. g0 \in [SUBSET (1 .. 0) -> B]
      OBVIOUS
    <2>3. Solves(g0, 0)
      BY <2>1
    <2> HIDE DEF Solves, g0
    <2>4. QED
      BY <2>2, <2>3
  <1>4. k \in 1 .. n /\ k - 1 \in 0 .. n
    <2> HIDE DEF Solves
    <2>1. k \in 0 .. n
      OBVIOUS
    <2>2. QED
      BY <1>3, <2>1
  <1>5. PICK f \in [SUBSET (1 .. k - 1) -> B] : Solves(f, k - 1)
    <2> HIDE DEF Solves
    <2>1. k - 1 \notin Bad
      <3> HIDE DEF Bad
      <3>1. QED
        BY <1>2, <1>4
    <2>2. QED
      BY <1>4, <2>1
  <1> DEFINE g == [s \in SUBSET (1 .. k) |->
                     IF s \in SUBSET (1 .. k - 1) THEN f[s]
                     ELSE h[k][f[s \ {k}]]]
  <1>6. \A s \in SUBSET (1 .. k) :
          s \notin SUBSET (1 .. k - 1) =>
            k \in s /\ Max(s) = k /\ s \ {k} \in SUBSET (1 .. k - 1)
    <2> SUFFICES ASSUME NEW s \in SUBSET (1 .. k),
                        s \notin SUBSET (1 .. k - 1)
                 PROVE  k \in s /\ Max(s) = k
                          /\ s \ {k} \in SUBSET (1 .. k - 1)
      OBVIOUS
    <2>0. k \in Nat
      BY <1>4
    <2>1. \A x \in 1 .. k : x = k \/ x \in 1 .. k - 1
      BY <2>0
    <2>2. k \in s /\ s \ {k} \in SUBSET (1 .. k - 1)
      BY <2>1
    <2>3. Max(s) \in s /\ \A x \in s : Max(s) >= x
      BY <2>0, <2>2, MaxOfInterval
    <2>4. Max(s) \in 1 .. k /\ Max(s) >= k
      BY <2>2, <2>3
    <2>5. QED
      BY <2>0, <2>2, <2>4
  <1>7. g \in [SUBSET (1 .. k) -> B]
    <2>1. ASSUME NEW s \in SUBSET (1 .. k)
          PROVE  g[s] \in B
      <3>1. CASE s \in SUBSET (1 .. k - 1)
        BY <1>5, <3>1
      <3>2. CASE s \notin SUBSET (1 .. k - 1)
        <4>1. f[s \ {k}] \in B
          BY <1>5, <1>6, <3>2
        <4>2. h[k][f[s \ {k}]] \in B
          BY <1>4, <4>1
        <4>3. QED
          BY <3>2, <4>2
      <3>3. QED
        BY <3>1, <3>2
    <2>2. QED
      BY <2>1
  <1>8. Solves(g, k)
    <2> SUFFICES ASSUME NEW s \in SUBSET (1 .. k)
                 PROVE  g[s] = IF s = {} THEN base
                               ELSE h[Max(s)][g[s \ {Max(s)}]]
      OBVIOUS
    <2>1. CASE s \in SUBSET (1 .. k - 1)
      <3>1. s \ {Max(s)} \in SUBSET (1 .. k - 1)
             /\ s \ {Max(s)} \in SUBSET (1 .. k)
        BY <2>1
      <3>2. g[s] = f[s] /\ g[s \ {Max(s)}] = f[s \ {Max(s)}]
        BY <2>1, <3>1
      <3>3. QED
        BY <1>5, <2>1, <3>2
    <2>2. CASE s \notin SUBSET (1 .. k - 1)
      <3>1. /\ Max(s) = k /\ s \ {k} \in SUBSET (1 .. k - 1) /\ s # {}
            /\ s \ {k} \in SUBSET (1 .. k)
        BY <1>6, <2>2
      <3>2. g[s] = h[k][f[s \ {k}]] /\ g[s \ {k}] = f[s \ {k}]
        BY <2>2, <3>1
      <3>3. QED
        BY <3>1, <3>2
    <2>3. QED
      BY <2>1, <2>2
  <1>9. k \notin Bad
    BY <1>7, <1>8
  <1>10. QED
    BY <1>2, <1>9

(* It gives one value after the other, from the first to the last.         *)
LEMMA FoldsAtInterval ==
  ASSUME NEW n \in Nat, NEW k \in 1 .. n, NEW B, NEW base, NEW h, NEW g,
         FoldsBy(g, base, B, n, h), FoldOf(g, k - 1) \in B
  PROVE  FoldOf(g, k) = h[k][FoldOf(g, k - 1)]
  <1> DEFINE s == 1 .. k
  <1>1. s \in SUBSET (1 .. n) /\ k \in s /\ s \ {k} = 1 .. k - 1
    <2>1. \A x \in 1 .. k : x \in 1 .. n /\ (x # k => x \in 1 .. k - 1)
      OBVIOUS
    <2>2. \A x \in 1 .. k - 1 : x \in 1 .. k /\ x # k
      OBVIOUS
    <2>3. k \in 1 .. k
      OBVIOUS
    <2>4. QED
      BY <2>1, <2>2, <2>3
  <1>2. \A x \in s : k >= x
    OBVIOUS
  <1> HIDE DEF s
  <1>3. Max(s) = k
    <2>1. Max(s) \in s /\ \A x \in s : Max(s) >= x
      BY <1>1, MaxOfInterval
    <2>2. Max(s) \in Int /\ k \in Int /\ Max(s) >= k /\ k >= Max(s)
      BY <1>1, <1>2, <2>1
    <2>3. QED
      BY <2>2
  <1>4. g[s \ {Max(s)}] \in B
    BY <1>1, <1>3 DEF FoldOf
  <1>5. g[s] = h[k][g[1 .. k - 1]]
    BY <1>1, <1>3, <1>4 DEF FoldsBy
  <1>6. QED
    BY <1>5 DEF s, FoldOf

LEMMA FoldSteps ==
  ASSUME NEW n \in Nat, NEW B, NEW base, NEW h, NEW g, NEW steps,
         FoldsBy(g, base, B, n, h), StepsBy(steps, base, B, n, h)
  PROVE  FoldOf(g, n) = steps[n]
  <1> DEFINE Wrongs == {k \in 0 .. n : FoldOf(g, k) # steps[k]}
  <1>1. ASSUME Wrongs # {} PROVE FALSE
    <2>1. Wrongs \in SUBSET Nat
      OBVIOUS
    <2>2. PICK k \in Wrongs : \A l \in Wrongs : k <= l
      <3> HIDE DEF Wrongs
      <3>1. QED
        BY <1>1, <2>1, LeastElement
    <2>3. k \in 0 .. n /\ FoldOf(g, k) # steps[k]
      OBVIOUS
    <2>4. k # 0
      <3>1. 1 .. 0 = {}
        OBVIOUS
      <3>2. g[{}] = base
        BY DEF FoldsBy
      <3>3. QED
        BY <2>3, <3>1, <3>2 DEF StepsBy, FoldOf
    <2>5. k \in Nat /\ k \in 1 .. n /\ k - 1 \in 0 .. n
      BY <2>3, <2>4
    <2>6. FoldOf(g, k - 1) = steps[k - 1] /\ steps[k - 1] \in B
      BY <2>2, <2>5 DEF StepsBy
    <2>7. FoldOf(g, k) = h[k][FoldOf(g, k - 1)]
      BY <2>5, <2>6, FoldsAtInterval
    <2>8. QED
      BY <2>3, <2>5, <2>6, <2>7 DEF StepsBy
  <1>2. n \in 0 .. n
    OBVIOUS
  <1>3. QED
    BY <1>1, <1>2

(* Bytes are numbers.                                                      *)
LEMMA BytesAreNumbers ==
  ASSUME NEW buf \in Seq(EcBytes)
  PROVE  buf \in Seq(Nat) /\ \A k \in 1 .. Len(buf) : buf[k] \in Nat
  <1>1. \A b \in EcBytes : b \in Nat
    BY DEF EcBytes
  <1>2. \A k \in 1 .. Len(buf) : buf[k] \in Nat
    BY <1>1
  <1>3. QED
    BY <1>2

LEMMA SumSteps ==
  ASSUME NEW buf \in Seq(Nat),
         NEW sums \in [0 .. Len(buf) -> Nat], sums[0] = 0,
         \A k \in 1 .. Len(buf) : sums[k] = (sums[k - 1] + buf[k]) % 256
  PROVE  rolling8_csum(buf) = sums[Len(buf)]
  <1> DEFINE n == Len(buf)
             step == [k \in 1 .. n |->
                        [sum \in Nat |-> (sum + buf[k]) % 256]]
             Sum(g) == [s \in SUBSET DOMAIN buf |->
                          IF s = {} THEN 0
                          ELSE (g[s \ {Max(s)}] + buf[Max(s)]) % 256]
             iter == CHOOSE g : g = Sum(g)
  <1>1. rolling8_csum(buf) = iter[DOMAIN buf]
    BY DEF rolling8_csum, FoldLeft, MapThenFoldSet
  <1>2. /\ n \in Nat /\ 0 \in Nat /\ DOMAIN buf = 1 .. n
        /\ \A k \in 1 .. n : buf[k] \in Nat
    OBVIOUS
  <1>3. step \in [1 .. n -> [Nat -> Nat]]
    BY <1>2
  <1>4. \A k \in 1 .. n, b \in Nat : step[k][b] = (b + buf[k]) % 256
    OBVIOUS
  <1> HIDE DEF n, step
  <1>5. PICK g \in [SUBSET (1 .. n) -> Nat] : FoldsBy(g, 0, Nat, n, step)
    BY <1>2, <1>3, FoldRecursion
  <1>6. ASSUME NEW s \in SUBSET (1 .. n), s # {}, NEW b \in Nat
        PROVE  step[Max(s)][b] = (b + buf[Max(s)]) % 256
    <2>1. Max(s) \in 1 .. n
      BY <1>2, <1>6, MaxOfInterval
    <2>2. QED
      BY <1>4, <2>1
  <1>7. g = Sum(g)
    <2>1. ASSUME NEW s \in SUBSET (1 .. n), s # {}
          PROVE  g[s] = (g[s \ {Max(s)}] + buf[Max(s)]) % 256
      <3>1. g[s \ {Max(s)}] \in Nat
        BY <1>5
      <3>2. g[s] = step[Max(s)][g[s \ {Max(s)}]]
        BY <1>5, <2>1, <3>1 DEF FoldsBy
      <3>3. QED
        BY <1>6, <2>1, <3>1, <3>2
    <2>2. g[{}] = 0
      BY <1>5 DEF FoldsBy
    <2>3. QED
      BY <1>2, <1>5, <2>1, <2>2
  <1>8. iter = Sum(iter)
    BY <1>7
  <1> DEFINE fold == iter
  <1> HIDE DEF iter, fold
  <1>9. FoldsBy(fold, 0, Nat, n, step)
    <2>1. \A s \in SUBSET (1 .. n) :
            fold[s] = IF s = {} THEN 0
                      ELSE (fold[s \ {Max(s)}] + buf[Max(s)]) % 256
      BY <1>2, <1>8 DEF fold
    <2>2. ASSUME NEW s \in SUBSET (1 .. n), s # {},
                 fold[s \ {Max(s)}] \in Nat
          PROVE  fold[s] = step[Max(s)][fold[s \ {Max(s)}]]
      <3>1. fold[s] = (fold[s \ {Max(s)}] + buf[Max(s)]) % 256
        BY <2>1, <2>2
      <3>2. QED
        BY <1>6, <2>2, <3>1
    <2>3. fold[{}] = 0
      BY <2>1
    <2>4. QED
      BY <2>2, <2>3 DEF FoldsBy
  <1>10. \A k \in 1 .. n : sums[k] = step[k][sums[k - 1]]
    <2>1. ASSUME NEW k \in 1 .. n
          PROVE  sums[k] = step[k][sums[k - 1]]
      <3>1. k - 1 \in 0 .. n
        BY <1>2
      <3>2. sums[k - 1] \in Nat
        BY <3>1 DEF n
      <3>3. sums[k] = (sums[k - 1] + buf[k]) % 256
        BY DEF n
      <3>4. QED
        BY <1>4, <3>2, <3>3
    <2>2. QED
      BY <2>1
  <1>11. FoldOf(fold, n) = sums[n]
    <2>1. sums \in [0 .. n -> Nat]
      BY DEF n
    <2>2. n \in Nat /\ 0 \in Nat /\ sums[0] = 0
      BY <1>2
    <2>3. StepsBy(sums, 0, Nat, n, step)
      BY <1>10, <2>1, <2>2 DEF StepsBy
    <2>4. QED
      BY <1>9, <2>2, <2>3, FoldSteps
  <1>12. QED
    BY <1>1, <1>2, <1>11 DEF n, fold, FoldOf

LEMMA StepsExist ==
  ASSUME NEW B, NEW base \in B, NEW n \in Nat,
         NEW h \in [1 .. n -> [B -> B]]
  PROVE  \E steps : StepsBy(steps, base, B, n, h)
  <1>1. PICK g \in [SUBSET (1 .. n) -> B] : FoldsBy(g, base, B, n, h)
    BY FoldRecursion
  <1> DEFINE steps == [k \in 0 .. n |-> FoldOf(g, k)]
  <1>2. ASSUME NEW k \in 0 .. n
        PROVE  steps[k] \in B
    <2>1. 1 .. k \in SUBSET (1 .. n)
      OBVIOUS
    <2>2. QED
      BY <2>1 DEF FoldOf
  <1>3. steps[0] = base
    <2>1. 1 .. 0 = {}
      OBVIOUS
    <2>2. g[{}] = base
      BY <1>1 DEF FoldsBy
    <2>3. QED
      BY <2>1, <2>2 DEF FoldOf
  <1>4. ASSUME NEW k \in 1 .. n
        PROVE  steps[k] = h[k][steps[k - 1]]
    <2>1. k - 1 \in 0 .. n /\ steps[k - 1] = FoldOf(g, k - 1)
      OBVIOUS
    <2>2. FoldOf(g, k) = h[k][FoldOf(g, k - 1)]
      BY <1>1, <1>2, <2>1, FoldsAtInterval
    <2>3. QED
      BY <2>1, <2>2
  <1>5. steps \in [0 .. n -> B]
    BY <1>2
  <1> HIDE DEF steps
  <1>6. QED
    BY <1>3, <1>4, <1>5 DEF StepsBy

LEMMA PrefixOf ==
  ASSUME NEW S, NEW s \in Seq(S), NEW m \in 0 .. Len(s)
  PROVE  /\ SubSeq(s, 1, m) \in Seq(S) /\ Len(SubSeq(s, 1, m)) = m
         /\ \A k \in 1 .. m : SubSeq(s, 1, m)[k] = s[k]
  BY SubSeqProperties

(* A sum is that of all bytes but the last, and the last one.              *)
LEMMA SumOfPrefix ==
  ASSUME NEW buf \in Seq(EcBytes)
  PROVE  /\ Len(buf) = 0 => rolling8_csum(buf) = 0
         /\ Len(buf) > 0 =>
              rolling8_csum(buf)
                = (rolling8_csum(SubSeq(buf, 1, Len(buf) - 1))
                     + buf[Len(buf)]) % 256
  <1> DEFINE n == Len(buf)
             step == [k \in 1 .. n |->
                        [sum \in Nat |-> (sum + buf[k]) % 256]]
  <1>1. n \in Nat /\ 0 \in Nat /\ \A k \in 1 .. n : buf[k] \in Nat
    BY BytesAreNumbers
  <1>2. step \in [1 .. n -> [Nat -> Nat]]
    BY <1>1
  <1>3. \A k \in 1 .. n, b \in Nat : step[k][b] = (b + buf[k]) % 256
    OBVIOUS
  <1> HIDE DEF step
  <1>4. PICK sums : StepsBy(sums, 0, Nat, n, step)
    BY <1>1, <1>2, StepsExist
  <1>5. /\ sums \in [0 .. n -> Nat] /\ sums[0] = 0
        /\ \A k \in 1 .. n : sums[k] = (sums[k - 1] + buf[k]) % 256
    <2>1. \A k \in 1 .. n : k - 1 \in 0 .. n
      BY <1>1
    <2>2. QED
      BY <1>3, <1>4, <2>1 DEF StepsBy
  <1>6. rolling8_csum(buf) = sums[n]
    BY <1>5, BytesAreNumbers, SumSteps
  <1>7. ASSUME n > 0
        PROVE  rolling8_csum(SubSeq(buf, 1, n - 1)) = sums[n - 1]
    <2> DEFINE part == SubSeq(buf, 1, n - 1)
               some == [k \in 0 .. n - 1 |-> sums[k]]
    <2>1. /\ part \in Seq(Nat) /\ Len(part) = n - 1
          /\ \A k \in 1 .. n - 1 : part[k] = buf[k]
      <3>1. buf \in Seq(Nat) /\ n - 1 \in 0 .. Len(buf)
        BY <1>1, <1>7, BytesAreNumbers
      <3>2. QED
        BY <3>1, PrefixOf
    <2>2. some \in [0 .. n - 1 -> Nat] /\ some[0] = 0
          /\ \A k \in 0 .. n - 1 : some[k] = sums[k]
      BY <1>1, <1>5, <1>7
    <2> HIDE DEF part, some, n
    <2>3. ASSUME NEW k \in 1 .. n - 1
          PROVE  some[k] = (some[k - 1] + part[k]) % 256
      <3>1. k \in 1 .. n /\ k - 1 \in 0 .. n - 1 /\ k \in 0 .. n - 1
        BY <1>1
      <3>2. QED
        BY <1>5, <2>1, <2>2, <3>1
    <2>4. rolling8_csum(part) = some[n - 1]
      <3>1. /\ some \in [0 .. Len(part) -> Nat]
            /\ \A k \in 1 .. Len(part) :
                 some[k] = (some[k - 1] + part[k]) % 256
        BY <2>1, <2>2, <2>3
      <3>2. rolling8_csum(part) = some[Len(part)]
        BY <2>1, <2>2, <3>1, SumSteps
      <3>3. QED
        BY <2>1, <3>2
    <2>5. n - 1 \in 0 .. n - 1
      BY <1>1, <1>7
    <2>6. QED
      BY <2>2, <2>4, <2>5 DEF part
  <1>8. QED
    BY <1>1, <1>5, <1>6, <1>7

(* The sums of the messages.                                               *)
LEMMA ShortSums ==
  ASSUME NEW buf \in Seq(EcBytes)
  PROVE  /\ Len(buf) = 1 => rolling8_csum(buf) = buf[1]
         /\ Len(buf) = 2 => rolling8_csum(buf) = (buf[1] + buf[2]) % 256
         /\ Len(buf) = 3 =>
              rolling8_csum(buf) = (((buf[1] + buf[2]) % 256) + buf[3]) % 256
  <1>1. \A a \in EcBytes : (0 + a) % 256 = a
    BY DEF EcBytes
  <1> DEFINE part(n) == SubSeq(buf, 1, n)
  <1>2. ASSUME NEW n \in 0 .. Len(buf)
        PROVE  /\ part(n) \in Seq(EcBytes) /\ Len(part(n)) = n
               /\ \A k \in 1 .. n : part(n)[k] = buf[k]
    BY SubSeqProperties
  <1>3. ASSUME NEW n \in 1 .. Len(buf)
        PROVE  SubSeq(part(n), 1, n - 1) = part(n - 1)
    <2> DEFINE left == SubSeq(part(n), 1, n - 1)
               right == part(n - 1)
    <2>1. /\ left \in Seq(EcBytes) /\ Len(left) = n - 1
          /\ \A k \in 1 .. n - 1 : left[k] = part(n)[k]
      BY <1>2, SubSeqProperties
    <2>2. /\ right \in Seq(EcBytes) /\ Len(right) = n - 1
          /\ \A k \in 1 .. n - 1 : right[k] = buf[k]
      BY <1>2
    <2>3. \A k \in 1 .. n - 1 : part(n)[k] = buf[k]
      BY <1>2
    <2> HIDE DEF left, right, part
    <2>4. left = right
      BY <2>1, <2>2, <2>3, SeqEqual
    <2>5. QED
      BY <2>4 DEF left, right
  <1>4. part(Len(buf)) = buf
    BY SubSeqFull
  <1> HIDE DEF part
  <1>5. ASSUME NEW n \in 1 .. Len(buf)
        PROVE  rolling8_csum(part(n))
                 = (rolling8_csum(part(n - 1)) + buf[n]) % 256
    <2>1. /\ part(n) \in Seq(EcBytes) /\ Len(part(n)) = n /\ n > 0
          /\ part(n)[n] = buf[n]
      BY <1>2
    <2>2. rolling8_csum(part(n))
            = (rolling8_csum(SubSeq(part(n), 1, n - 1)) + part(n)[n]) % 256
      BY <2>1, SumOfPrefix
    <2>3. QED
      BY <1>3, <2>1, <2>2
  <1>6. rolling8_csum(part(0)) = 0
    BY <1>2, SumOfPrefix
  <1>7. Len(buf) >= 1 => rolling8_csum(part(1)) = buf[1]
    <2> SUFFICES ASSUME Len(buf) >= 1
                 PROVE  rolling8_csum(part(1)) = buf[1]
      OBVIOUS
    <2>1. 1 \in 1 .. Len(buf) /\ buf[1] \in EcBytes
      OBVIOUS
    <2>2. rolling8_csum(part(1)) = (0 + buf[1]) % 256
      BY <1>5, <1>6, <2>1
    <2>3. QED
      BY <1>1, <2>1, <2>2
  <1>8. Len(buf) >= 2 => rolling8_csum(part(2)) = (buf[1] + buf[2]) % 256
    <2> SUFFICES ASSUME Len(buf) >= 2
                 PROVE  rolling8_csum(part(2)) = (buf[1] + buf[2]) % 256
      OBVIOUS
    <2>1. 2 \in 1 .. Len(buf) /\ 2 - 1 = 1
      OBVIOUS
    <2>2. QED
      BY <1>5, <1>7, <2>1
  <1>9. Len(buf) >= 3 => rolling8_csum(part(3))
                           = (((buf[1] + buf[2]) % 256) + buf[3]) % 256
    <2> SUFFICES ASSUME Len(buf) >= 3
                 PROVE  rolling8_csum(part(3))
                          = (((buf[1] + buf[2]) % 256) + buf[3]) % 256
      OBVIOUS
    <2>1. 3 \in 1 .. Len(buf) /\ 3 - 1 = 2
      OBVIOUS
    <2>2. QED
      BY <1>5, <1>8, <2>1
  <1>10. CASE Len(buf) = 1
    BY <1>4, <1>7, <1>10
  <1>11. CASE Len(buf) = 2
    BY <1>4, <1>8, <1>11
  <1>12. CASE Len(buf) = 3
    BY <1>4, <1>9, <1>12
  <1>13. QED
    BY <1>10, <1>11, <1>12
-----------------------------------------------------------------------------
(* What is on the wires when the EC has taken a command, ...               *)
LEMMA AcceptedOld ==
  ASSUME NEW req, NEW d \in EcBytes, req.version = 0
  PROVE  LET answer == Accepts(req, <<d>>)
         IN  /\ answer \in Seq(EcBytes) /\ Len(answer) = 3
             /\ answer[1] = 0 /\ answer[2] = d /\ answer[3] = d
  <1>1. /\ <<d>> \in Seq(EcBytes) /\ Len(<<d>>) = 1 /\ <<d>>[1] = d
        /\ <<0>> \in Seq(EcBytes) /\ Len(<<0>>) = 1 /\ <<0>>[1] = 0
        /\ <<d>> \in Seq(Nat)
    BY DEF EcBytes
  <1>2. rolling8_csum(<<d>>) = d
    BY <1>1, ShortSums
  <1> DEFINE sent == WithSum(<<d>>)
             zero == <<0>>
  <1>3. /\ sent \in Seq(EcBytes) /\ Len(sent) = 2
        /\ sent[1] = d /\ sent[2] = d
    BY <1>1, <1>2, AppendProperties DEF WithSum
  <1>4. zero \in Seq(EcBytes) /\ Len(zero) = 1 /\ zero[1] = 0
    BY <1>1
  <1> HIDE DEF sent, zero
  <1>5. /\ zero \o sent \in Seq(EcBytes) /\ Len(zero \o sent) = 3
        /\ \A k \in 1 .. 3 : (zero \o sent)[k] = IF k <= 1 THEN zero[k]
                                                 ELSE sent[k - 1]
    <2>1. /\ zero \o sent \in Seq(EcBytes)
          /\ Len(zero \o sent) = Len(zero) + Len(sent)
          /\ \A k \in 1 .. Len(zero) + Len(sent) :
               (zero \o sent)[k] = IF k <= Len(zero) THEN zero[k]
                                   ELSE sent[k - Len(zero)]
      BY <1>3, <1>4, ConcatProperties
    <2>2. QED
      BY <1>3, <1>4, <2>1
  <1>6. /\ (zero \o sent)[1] = 0 /\ (zero \o sent)[2] = d
        /\ (zero \o sent)[3] = d
    BY <1>3, <1>4, <1>5
  <1>7. Accepts(req, <<d>>) = zero \o sent
    BY DEF Accepts, sent, zero
  <1>8. QED
    BY <1>5, <1>6, <1>7

Carries(answer, bytes) ==
  /\ answer \in Seq(EcBytes) /\ Len(answer) = 3 + Len(bytes)
  /\ answer[1] = 0 /\ answer[2] = Len(bytes)
  /\ Len(bytes) = 0 => answer[3] = 0
  /\ Len(bytes) = 1 => /\ answer[3] = bytes[1]
                      /\ answer[4] = (1 + bytes[1]) % 256

LEMMA AcceptedNew ==
  ASSUME NEW req, NEW bytes \in Seq(EcBytes),
         req.version = 1, Len(bytes) \in {0, 1}
  PROVE  Carries(Accepts(req, bytes), bytes)
  <1> DEFINE head == <<0, Len(bytes)>>
             summed == head \o bytes
  <1>1. /\ head \in Seq(EcBytes) /\ Len(head) = 2
        /\ head[1] = 0 /\ head[2] = Len(bytes)
    BY DEF EcBytes
  <1> HIDE DEF head
  <1>2. /\ summed \in Seq(EcBytes) /\ Len(summed) = 2 + Len(bytes)
        /\ summed[1] = 0 /\ summed[2] = Len(bytes)
        /\ Len(bytes) = 1 => summed[3] = bytes[1]
    <2>1. /\ summed \in Seq(EcBytes) /\ Len(summed) = 2 + Len(bytes)
          /\ \A k \in 1 .. 2 + Len(bytes) :
               summed[k] = IF k <= 2 THEN head[k] ELSE bytes[k - 2]
      <3>1. /\ summed \in Seq(EcBytes) /\ Len(summed) = Len(head) + Len(bytes)
            /\ \A k \in 1 .. Len(head) + Len(bytes) :
                 summed[k] = IF k <= Len(head) THEN head[k]
                             ELSE bytes[k - Len(head)]
        BY <1>1, ConcatProperties
      <3> HIDE DEF summed
      <3>2. QED
        BY <1>1, <3>1
    <2> HIDE DEF summed
    <2>2. QED
      BY <1>1, <2>1
  <1> HIDE DEF summed
  <1>3. /\ Len(bytes) = 0 => rolling8_csum(summed) = 0
        /\ Len(bytes) = 1 => rolling8_csum(summed) = (1 + bytes[1]) % 256
    <2>1. CASE Len(bytes) = 0
      <3>1. rolling8_csum(summed) = (0 + 0) % 256
        BY <1>2, <2>1, ShortSums
      <3>2. QED
        BY <2>1, <3>1
    <2>2. CASE Len(bytes) = 1
      <3>1. rolling8_csum(summed) = (((0 + 1) % 256) + bytes[1]) % 256
        BY <1>2, <2>2, ShortSums
      <3>2. (0 + 1) % 256 = 1
        OBVIOUS
      <3>3. QED
        BY <2>2, <3>1, <3>2
    <2>3. QED
      BY <2>1, <2>2
  <1>4. rolling8_csum(summed) \in EcBytes
    <2>1. ASSUME Len(bytes) = 1 PROVE bytes[1] \in EcBytes
      <3>1. 1 \in 1 .. Len(bytes)
        BY <2>1
      <3>2. QED
        BY <3>1, ElementOfSeq
    <2>2. 0 \in EcBytes /\ \A a \in EcBytes : (1 + a) % 256 \in EcBytes
      BY DEF EcBytes
    <2>3. QED
      BY <1>3, <2>1, <2>2
  <1>5. Accepts(req, bytes) = Append(summed, rolling8_csum(summed))
    BY DEF Accepts, WithSum, summed, head
  <1> HIDE DEF summed
  <1>6. LET whole == Append(summed, rolling8_csum(summed))
        IN  /\ whole \in Seq(EcBytes) /\ Len(whole) = Len(summed) + 1
            /\ \A k \in 1 .. Len(summed) : whole[k] = summed[k]
            /\ whole[Len(summed) + 1] = rolling8_csum(summed)
    BY <1>2, <1>4, AppendProperties
  <1> DEFINE whole == Append(summed, rolling8_csum(summed))
  <1>7. /\ whole \in Seq(EcBytes) /\ Len(whole) = Len(summed) + 1
        /\ \A k \in 1 .. Len(summed) : whole[k] = summed[k]
        /\ whole[Len(summed) + 1] = rolling8_csum(summed)
    BY <1>6
  <1>8. Accepts(req, bytes) = whole
    BY <1>5
  <1> HIDE DEF whole
  <1>9. CASE Len(bytes) = 0
    BY <1>2, <1>3, <1>7, <1>8, <1>9 DEF Carries
  <1>10. CASE Len(bytes) = 1
    BY <1>2, <1>3, <1>7, <1>8, <1>10 DEF Carries
  <1>11. QED
    BY <1>9, <1>10

(* ... and when it refuses one.                                            *)
LEMMA Refused ==
  ASSUME NEW req, NEW code \in EcBytes, NEW pad \in EcBytes,
         \/ req.version = 0 /\ req.insize = 1
         \/ req.version = 1 /\ req.insize \in {0, 1}
  PROVE  LET answer == Padded(Refuses(req, code), req, pad)
         IN  /\ answer \in Seq(EcBytes) /\ answer[1] = code
             /\ Len(answer) = 3 + (IF req.version = 0 THEN 0 ELSE req.insize)
             /\ req.version = 1 => answer[2] = 0 /\ answer[3] = code
  <1> DEFINE n == resp_len(req)
             first == Refuses(req, code)
             more == [k \in 1 .. n |-> pad]
             all == first \o more
  <1>1. n \in {3, 4}
        /\ n = 3 + (IF req.version = 0 THEN 0 ELSE req.insize)
    BY DEF resp_len
  <1> HIDE DEF n
  <1>2. more \in Seq(EcBytes) /\ Len(more) = n
    BY <1>1
  <1>3. /\ first \in Seq(EcBytes) /\ Len(first) \in {1, 3}
        /\ first[1] = code
        /\ req.version = 1 => /\ Len(first) = 3
                              /\ first[2] = 0 /\ first[3] = code
    <2>1. 0 \in EcBytes
      BY DEF EcBytes
    <2>2. CASE req.version = 0
      <3>1. first = <<code>>
        BY <2>2 DEF Refuses
      <3>2. QED
        BY <2>2, <3>1
    <2>3. CASE req.version = 1
      <3>1. first = <<code, 0, code>>
        BY <2>3 DEF Refuses
      <3> HIDE DEF first
      <3>2. QED
        BY <2>1, <2>3, <3>1
    <2>4. QED
      BY <2>2, <2>3
  <1> HIDE DEF first, more
  <1>4. /\ all \in Seq(EcBytes) /\ Len(all) >= n
        /\ \A k \in 1 .. Len(first) : all[k] = first[k]
    BY <1>1, <1>2, <1>3, ConcatProperties
  <1> HIDE DEF all
  <1>5. /\ SubSeq(all, 1, n) \in Seq(EcBytes) /\ Len(SubSeq(all, 1, n)) = n
        /\ \A k \in 1 .. n : SubSeq(all, 1, n)[k] = all[k]
    BY <1>1, <1>4, SubSeqProperties
  <1>6. Padded(Refuses(req, code), req, pad) = SubSeq(all, 1, n)
    BY DEF Padded, all, first, more, n
  <1> DEFINE answer == SubSeq(all, 1, n)
  <1>7. /\ answer \in Seq(EcBytes) /\ Len(answer) = n /\ answer[1] = code
        /\ req.version = 1 => answer[2] = 0 /\ answer[3] = code
    <2>1. /\ 1 \in 1 .. Len(first) /\ 1 \in 1 .. n
          /\ req.version = 1 => /\ 2 \in 1 .. Len(first) /\ 2 \in 1 .. n
                                /\ 3 \in 1 .. Len(first) /\ 3 \in 1 .. n
      BY <1>1, <1>3
    <2>2. QED
      BY <1>3, <1>4, <1>5, <2>1
  <1> HIDE DEF answer
  <1>8. Padded(Refuses(req, code), req, pad) = answer
    BY <1>6 DEF answer
  <1>9. QED
    BY <1>1, <1>7, <1>8

LEMMA NextByte ==
  ASSUME NEW a \in EcBytes, NEW b \in EcBytes,
         (1 + a) % 256 = (1 + b) % 256
  PROVE  a = b
  <1>1. ASSUME NEW c \in EcBytes
        PROVE  (1 + c) % 256 = IF c = 255 THEN 0 ELSE c + 1
    <2>1. CASE c = 255
      BY <2>1
    <2>2. CASE c # 255
      <3>1. c \in Int /\ 0 <= 1 + c /\ 1 + c < 256
        BY <2>2 DEF EcBytes
      <3>2. \A x \in Int : 0 <= x /\ x < 256 => x % 256 = x
        OBVIOUS
      <3>3. (1 + c) % 256 = 1 + c /\ 1 + c = c + 1
        BY <3>1, <3>2
      <3>4. QED
        BY <2>2, <3>3
    <2>3. QED
      BY <2>1, <2>2
  <1>2. (IF a = 255 THEN 0 ELSE a + 1) = (IF b = 255 THEN 0 ELSE b + 1)
    BY <1>1
  <1>3. a \in 0 .. 255 /\ b \in 0 .. 255
    BY DEF EcBytes
  <1>4. CASE a = 255 \/ b = 255
    BY <1>2, <1>3, <1>4
  <1>5. CASE a # 255 /\ b # 255
    BY <1>2, <1>3, <1>5
  <1>6. QED
    BY <1>4, <1>5

LEMMA OneByte ==
  ASSUME NEW s \in Seq(EcBytes), Len(s) = 1
  PROVE  s = <<s[1]>>
  OBVIOUS

(* What the checks let through.                                            *)
LEMMA OldChecks ==
  ASSUME NEW buf \in Seq(EcBytes), Len(buf) = 3
  PROVE  LET parsed == ParseOld(buf, 1)
         IN  /\ parsed.ret \in EcBytes \cup {-1}
             /\ parsed.ret = 0 => /\ buf[1] = 0 /\ buf[2] = buf[3]
                                  /\ parsed.data = <<buf[2]>>
  <1> DEFINE part == SubSeq(buf, 2, 2)
  <1>1. /\ buf[1] \in EcBytes /\ buf[2] \in EcBytes
        /\ part \in Seq(EcBytes) /\ Len(part) = 1 /\ part[1] = buf[2]
    BY SubSeqProperties
  <1> HIDE DEF part
  <1>2. rolling8_csum(part) = buf[2] /\ part = <<buf[2]>>
    BY <1>1, ShortSums
  <1>3. ParseOld(buf, 1) = IF buf[2] # buf[3] THEN Parsed(-1, <<>>)
                           ELSE Parsed(buf[1], <<buf[2]>>)
    <2>1. 1 + 1 = 2 /\ 1 # 0
      OBVIOUS
    <2>2. QED
      BY <1>2, <2>1 DEF ParseOld, part
  <1>4. QED
    BY <1>1, <1>3 DEF Parsed

LEMMA NewChecks ==
  ASSUME NEW insize \in {0, 1},
         NEW buf \in Seq(EcBytes), Len(buf) = 3 + insize
  PROVE  LET parsed == ParseNew(buf, insize)
         IN  /\ parsed.ret \in EcBytes \cup {-1}
             /\ parsed.ret = 0 =>
                  /\ buf[1] = 0 /\ buf[2] = insize
                  /\ insize = 0 => buf[3] = 0 /\ parsed.data = <<>>
                  /\ insize = 1 => /\ buf[4] = (1 + buf[3]) % 256
                                   /\ parsed.data = <<buf[3]>>
  <1> DEFINE part == SubSeq(buf, 1, 2 + insize)
             bytes == SubSeq(buf, 3, 2 + insize)
  <1>1. /\ buf[1] \in EcBytes /\ buf[2] \in EcBytes /\ buf[3] \in EcBytes
    OBVIOUS
  <1>2. /\ part \in Seq(EcBytes) /\ Len(part) = 2 + insize
        /\ \A k \in 1 .. 2 + insize : part[k] = buf[k]
    BY SubSeqProperties
  <1>3. /\ bytes \in Seq(EcBytes) /\ Len(bytes) = insize
        /\ insize = 1 => bytes[1] = buf[3]
    BY SubSeqProperties
  <1>4. ParseNew(buf, insize) =
          IF buf[1] # 0 THEN Parsed(buf[1], <<>>)
          ELSE IF buf[2] # insize THEN Parsed(-1, <<>>)
          ELSE IF rolling8_csum(part) # buf[3 + insize] THEN Parsed(-1, <<>>)
          ELSE Parsed(0, bytes)
    BY DEF ParseNew
  <1> HIDE DEF part, bytes
  <1>5. CASE buf[1] # 0 \/ buf[2] # insize
    BY <1>1, <1>4, <1>5 DEF Parsed
  <1>6. CASE buf[1] = 0 /\ buf[2] = 0 /\ insize = 0
    <2>1. rolling8_csum(part) = (0 + 0) % 256
      BY <1>2, <1>6, ShortSums
    <2>2. bytes \in Seq(EcBytes) /\ Len(bytes) = 0
      BY <1>3, <1>6
    <2>3. bytes = <<>>
      BY <2>2, EmptySeq
    <2>4. QED
      BY <1>4, <1>6, <2>1, <2>3 DEF Parsed
  <1>7. CASE buf[1] = 0 /\ buf[2] = 1 /\ insize = 1
    <2>1. rolling8_csum(part) = (((0 + 1) % 256) + buf[3]) % 256
      BY <1>2, <1>7, ShortSums
    <2>2. (0 + 1) % 256 = 1
      OBVIOUS
    <2>3. bytes = <<buf[3]>>
      <3>1. bytes \in Seq(EcBytes) /\ Len(bytes) = 1 /\ bytes[1] = buf[3]
        BY <1>3, <1>7
      <3>2. QED
        BY <3>1, OneByte
    <2>4. QED
      BY <1>4, <1>7, <2>1, <2>2, <2>3 DEF Parsed
  <1>8. QED
    BY <1>5, <1>6, <1>7
-----------------------------------------------------------------------------
(* The commands of cros_ec.c.                                              *)
LEMMA CommandShape ==
  ASSUME NEW req \in EcCommands
  PROVE  /\ req.version \in {0, 1} /\ req.insize \in {0, 1}
         /\ req.version = 0 => req.insize = 1
  BY DEF EcCommands, Hello, GetVersion, ReadContext, WriteContext,
         PdChipInfo, EcRequest

LEMMA AnswerShape ==
  ASSUME NEW req \in EcCommands, ec_context \in EcBytes
  PROVE  AnswerTo(req) \in Seq(EcBytes) /\ Len(AnswerTo(req)) = req.insize
  <1>1. \A a \in EcBytes : <<a>> \in Seq(EcBytes) /\ Len(<<a>>) = 1
    OBVIOUS
  <1>2. <<>> \in Seq(EcBytes) /\ Len(<<>>) = 0
    OBVIOUS
  <1>3. {7, 42, (192 + 4) % 256} \subseteq EcBytes
    BY DEF EcBytes
  <1>4. CASE req = Hello
    <2>1. /\ req.command = 1 /\ req.outdata = <<192>>
          /\ req.insize = 1
      BY <1>4 DEF Hello, EcRequest, EC_CMD_HELLO
    <2>2. /\ req # ReadContext /\ ~ IsWrite(req)
      BY <2>1 DEF ReadContext, EcRequest, IsWrite, EC_CMD_VBNV_CONTEXT
    <2>3. req.outdata[1] = 192
      BY <2>1
    <2>4. AnswerTo(req) = <<(192 + 4) % 256>>
      BY <2>1, <2>2, <2>3
      DEF AnswerTo, EC_CMD_HELLO, EC_CMD_GET_VERSION, EC_CMD_PD_CHIP_INFO
    <2>5. QED
      BY <1>1, <1>3, <2>1, <2>4
  <1>5. CASE req = GetVersion
    <2>1. AnswerTo(req) = <<42>> /\ req.insize = 1
      BY <1>5 DEF AnswerTo, GetVersion, EcRequest, EC_CMD_HELLO,
                  EC_CMD_GET_VERSION, IsWrite, EC_CMD_VBNV_CONTEXT,
                  ReadContext, EC_CMD_PD_CHIP_INFO
    <2>2. QED
      BY <1>1, <1>3, <2>1
  <1>6. CASE req = ReadContext
    <2>1. AnswerTo(req) = <<ec_context>> /\ req.insize = 1
      BY <1>6 DEF AnswerTo, EcRequest, EC_CMD_HELLO, EC_CMD_GET_VERSION,
                  IsWrite, EC_CMD_VBNV_CONTEXT, ReadContext,
                  EC_CMD_PD_CHIP_INFO
    <2>2. QED
      BY <1>1, <2>1
  <1>7. ASSUME NEW b \in Contexts, req = WriteContext(b)
        PROVE  AnswerTo(req) = <<>> /\ req.insize = 0
    <2>1. req.insize = 0 /\ ReadContext.insize = 1
      BY <1>7 DEF WriteContext, ReadContext, EcRequest
    <2>2. req.command = 23 /\ req.outdata = <<1, b>> /\ req # ReadContext
      BY <1>7, <2>1 DEF WriteContext, EcRequest, EC_CMD_VBNV_CONTEXT
    <2>3. req.outdata[1] = 1
      BY <2>2
    <2>4. QED
      BY <2>1, <2>2, <2>3
      DEF AnswerTo, IsWrite, EC_CMD_HELLO, EC_CMD_GET_VERSION,
          EC_CMD_VBNV_CONTEXT, EC_CMD_PD_CHIP_INFO
  <1>8. CASE req = PdChipInfo
    <2>1. AnswerTo(req) = <<7>> /\ req.insize = 1
      BY <1>8 DEF AnswerTo, PdChipInfo, EcRequest, EC_CMD_HELLO,
                  EC_CMD_GET_VERSION, IsWrite, EC_CMD_VBNV_CONTEXT,
                  ReadContext, EC_CMD_PD_CHIP_INFO
    <2>2. QED
      BY <1>1, <1>3, <2>1
  <1>9. QED
    BY <1>2, <1>4, <1>5, <1>6, <1>7, <1>8 DEF EcCommands

LEMMA WrittenIsContext ==
  ASSUME NEW req \in EcCommands, IsWrite(req)
  PROVE  req.outdata[2] \in Contexts
  BY DEF IsWrite, EcCommands, Hello, GetVersion, ReadContext, WriteContext,
         PdChipInfo, EcRequest, EC_CMD_HELLO, EC_CMD_GET_VERSION,
         EC_CMD_VBNV_CONTEXT, EC_CMD_PD_CHIP_INFO

(* The bytes that are on the wires between the two messages of a transfer, *)
(* after a command without version ...                                     *)
OldOnWire ==
  /\ Len(wire) = 3
  /\ \/ fate = "other"
     \/ fate = "refused" /\ wire[1] # 0
     \/ /\ fate = "done" /\ wire[1] = 0 /\ wire[2] = wire[3]
        /\ ec_answer = <<wire[2]>>

(* ... and after one with a version.                                       *)
NewOnWire ==
  LET n == ec_request.insize
  IN  /\ Len(wire) = 3 + n
      /\ \/ fate = "refused" /\ wire[1] # 0 /\ wire[2] = 0
              /\ wire[3] = wire[1]
         \/ /\ fate = "done" /\ wire[1] = 0 /\ wire[2] = n
            /\ n = 0 => ec_answer = <<>>
            /\ n = 1 => /\ ec_answer = <<wire[3]>>
                        /\ wire[4] = (1 + wire[3]) % 256

EcSent ==
  ec_pc = "sent" =>
    /\ transport = "i2c" /\ ec_request \in EcCommands
    /\ ec_rc = NoRc
    /\ wire \in Seq(EcBytes)
    /\ ec_request.version = 0 => OldOnWire
    /\ ec_request.version = 1 => NewOnWire

(* Nothing was returned before a command ends.                             *)
EcIdle == ec_pc = "idle" => ec_rc = NoRc

EcInv == AnswerTrue /\ EcIdle /\ EcSent

LEMMA EcInitInv == EcInit => EcInv
  BY DEF EcInit, EcInv, AnswerTrue, EcTypeOK, EcIdle, EcSent, NoRc

(* The first message, ...                                                  *)
LEMMA SendsStep ==
  ASSUME EcInv, EcTransportAssumption,
         NEW req \in EcCommands, I2cSends(req)
  PROVE  EcInv'
  <1>1. EcTypeOK /\ ec_rc = NoRc /\ ec_rc' = NoRc
    BY DEF EcInv, AnswerTrue, EcIdle, I2cSends
  <1>2. /\ transport = "i2c" /\ transport' = "i2c"
        /\ ec_pc' = "sent" /\ ec_request' = req
        /\ EcCommands' = EcCommands
    BY DEF I2cSends, EcCommands
  <1>3. ec_context \in EcBytes
    BY <1>1 DEF EcTypeOK, EcTransportAssumption
  <1>4. /\ req.version \in {0, 1} /\ req.insize \in {0, 1}
        /\ req.version = 0 => req.insize = 1
        /\ AnswerTo(req) \in Seq(EcBytes)
        /\ Len(AnswerTo(req)) = req.insize
    BY <1>3, CommandShape, AnswerShape
  <1>5. ec_context' \in Contexts
        /\ fate' \in {"lost", "again", "refused", "other", "done"}
    <2>1. IsWrite(req) => req.outdata[2] \in Contexts
      BY WrittenIsContext
    <2>2. QED
      BY <1>1, <2>1 DEF I2cSends, EcDoes, EcDoesNot, EcExecuted, Misheard,
                        EcTypeOK
  <1>6. EcTypeOK'
    BY <1>1, <1>2, <1>5 DEF EcTypeOK, I2cSends, EcCommands
  <1>7. \/ /\ fate' = "done" /\ ec_answer' = AnswerTo(req)
           /\ wire' = Accepts(req, AnswerTo(req))
        \/ /\ fate' = "refused"
           /\ \E c \in {1, 7}, pad \in Pads :
                wire' = Padded(Refuses(req, c), req, pad)
        \/ /\ fate' = "other" /\ req.version = 0
           /\ \E d \in Wrong : wire' = Accepts(req, <<d>>)
    BY DEF I2cSends, EcDoes, EcDoesNot, Misheard, EC_RES_INVALID_COMMAND,
           EC_RES_INVALID_CHECKSUM
  <1>8. CASE fate' = "other" /\ req.version = 0
             /\ \E d \in Wrong : wire' = Accepts(req, <<d>>)
    <2>1. PICK d \in Wrong : wire' = Accepts(req, <<d>>)
      BY <1>8
    <2>2. d \in EcBytes
      BY DEF EcTransportAssumption
    <2>3. wire' \in Seq(EcBytes) /\ Len(wire') = 3
      BY <1>8, <2>1, <2>2, AcceptedOld
    <2>4. QED
      BY <1>1, <1>2, <1>6, <1>8, <2>3
      DEF EcInv, AnswerTrue, EcIdle, EcSent, OldOnWire, NoRc
  <1>9. CASE /\ fate' = "refused"
             /\ \E c \in {1, 7}, pad \in Pads :
                  wire' = Padded(Refuses(req, c), req, pad)
    <2>1. PICK c \in {1, 7}, pad \in Pads :
                 wire' = Padded(Refuses(req, c), req, pad)
      BY <1>9
    <2>2. c \in EcBytes /\ c # 0 /\ pad \in EcBytes
      BY DEF EcTransportAssumption, EcBytes
    <2>3. /\ wire' \in Seq(EcBytes) /\ wire'[1] = c
          /\ Len(wire') = 3 + (IF req.version = 0 THEN 0 ELSE req.insize)
          /\ req.version = 1 => wire'[2] = 0 /\ wire'[3] = c
      BY <1>4, <2>1, <2>2, Refused
    <2>4. QED
      BY <1>1, <1>2, <1>4, <1>6, <1>9, <2>2, <2>3
      DEF EcInv, AnswerTrue, EcIdle, EcSent, OldOnWire, NewOnWire, NoRc
  <1>10. CASE /\ fate' = "done" /\ ec_answer' = AnswerTo(req)
              /\ wire' = Accepts(req, AnswerTo(req))
    <2> DEFINE answer == AnswerTo(req)
    <2>1. answer \in Seq(EcBytes) /\ Len(answer) = req.insize
      BY <1>4
    <2>2. ec_answer' = answer /\ wire' = Accepts(req, answer)
      BY <1>10
    <2> HIDE DEF answer
    <2>3. req.insize = 1 => answer = <<answer[1]>> /\ answer[1] \in EcBytes
      BY <2>1, OneByte
    <2>4. req.insize = 0 => answer = <<>>
      BY <2>1, EmptySeq
    <2>5. CASE req.version = 0
      <3>1. answer = <<answer[1]>> /\ answer[1] \in EcBytes
        BY <1>4, <2>3, <2>5
      <3>2. /\ wire' \in Seq(EcBytes) /\ Len(wire') = 3
            /\ wire'[1] = 0 /\ wire'[2] = answer[1] /\ wire'[3] = answer[1]
        BY <2>2, <2>5, <3>1, AcceptedOld
      <3>3. ec_answer' = <<wire'[2]>>
        BY <2>2, <3>1, <3>2
      <3>4. QED
        BY <1>1, <1>2, <1>6, <1>10, <2>5, <3>2, <3>3
        DEF EcInv, AnswerTrue, EcIdle, EcSent, OldOnWire, NoRc
    <2>6. CASE req.version = 1
      <3>1. /\ wire' \in Seq(EcBytes) /\ Len(wire') = 3 + req.insize
            /\ wire'[1] = 0 /\ wire'[2] = req.insize
            /\ req.insize = 1 => /\ wire'[3] = answer[1]
                                 /\ wire'[4] = (1 + answer[1]) % 256
        <4>1. Len(answer) \in {0, 1}
          BY <1>4, <2>1
        <4>2. Carries(Accepts(req, answer), answer)
          BY <2>1, <2>6, <4>1, AcceptedNew
        <4>3. Carries(wire', answer)
          BY <2>2, <4>2
        <4>4. QED
          BY <2>1, <4>3 DEF Carries
      <3>2. /\ req.insize = 0 => ec_answer' = <<>>
            /\ req.insize = 1 => ec_answer' = <<wire'[3]>>
        BY <2>2, <2>3, <2>4, <3>1
      <3>3. req.insize = 1 => wire'[4] = (1 + wire'[3]) % 256
        BY <3>1
      <3> HIDE DEF answer
      <3>4. QED
        BY <1>1, <1>2, <1>6, <1>10, <2>6, <3>1, <3>2, <3>3
        DEF EcInv, AnswerTrue, EcIdle, EcSent, NewOnWire, NoRc
    <2>7. QED
      BY <1>4, <2>5, <2>6
  <1>11. QED
    BY <1>7, <1>8, <1>9, <1>10

(* ... the second one, one byte of which may be damaged, ...               *)
LEMMA ReceivesStep ==
  ASSUME EcInv, EcTransportAssumption, I2cReceives
  PROVE  EcInv'
  <1> DEFINE req == ec_request
             n == ec_request.insize
  <1>1. /\ EcTypeOK /\ transport = "i2c" /\ req \in EcCommands
        /\ wire \in Seq(EcBytes)
        /\ req.version = 0 => OldOnWire
        /\ req.version = 1 => NewOnWire
    BY DEF EcInv, AnswerTrue, EcSent, I2cReceives
  <1>2. /\ ec_pc' = "done" /\ transport' = transport
        /\ ec_request' = req /\ fate' = fate /\ ec_answer' = ec_answer
        /\ EcCommands' = EcCommands
        /\ ec_context' = ec_context /\ ec_pending' = ec_pending
    BY DEF I2cReceives, EcReturns, ecKeeps, EcCommands
  <1>3. /\ req.version \in {0, 1} /\ n \in {0, 1}
        /\ req.version = 0 => n = 1
    BY <1>1, CommandShape
  <1>4. PICK k \in 0 .. Len(wire), w \in Wrong :
          LET buf == IF k = 0 THEN wire ELSE [wire EXCEPT ![k] = w]
              parsed == IF ec_request.version > 0 THEN ParseNew(buf, n)
                        ELSE ParseOld(buf, n)
          IN  /\ hurt' = IF k = 0 THEN "none"
                         ELSE IF k = 1 THEN "status" ELSE "rest"
              /\ ec_rc' = parsed.ret /\ indata' = parsed.data
    BY DEF I2cReceives, EcReturns
  <1> DEFINE buf == IF k = 0 THEN wire ELSE [wire EXCEPT ![k] = w]
  <1>5. /\ buf \in Seq(EcBytes) /\ Len(buf) = Len(wire)
        /\ \A j \in 1 .. Len(wire) : buf[j] = wire[j] \/ j = k
    <2>1. w \in EcBytes
      BY DEF EcTransportAssumption
    <2>2. QED
      BY <1>1, <2>1
  <1>6. /\ hurt' = IF k = 0 THEN "none" ELSE IF k = 1 THEN "status" ELSE "rest"
        /\ req.version = 0 => /\ ec_rc' = ParseOld(buf, 1).ret
                              /\ indata' = ParseOld(buf, 1).data
        /\ req.version = 1 => /\ ec_rc' = ParseNew(buf, n).ret
                              /\ indata' = ParseNew(buf, n).data
    BY <1>3, <1>4
  <1> HIDE DEF buf
  <1>7. CASE req.version = 0
    <2>1. Len(buf) = 3 /\ OldOnWire
      BY <1>1, <1>5, <1>7 DEF OldOnWire
    <2>2. /\ ec_rc' \in EcBytes \cup {-1}
          /\ ec_rc' = 0 => /\ buf[1] = 0 /\ buf[2] = buf[3]
                           /\ indata' = <<buf[2]>>
      BY <1>5, <1>6, <1>7, <2>1, OldChecks
    <2>3. ASSUME ec_rc' = 0, fate # "other", k # 1
          PROVE  fate = "done" /\ indata' = ec_answer
      <3>1. /\ buf[1] = wire[1]
            /\ buf[2] = wire[2] \/ buf[3] = wire[3]
        <4>1. /\ 1 \in 1 .. Len(wire) /\ 2 \in 1 .. Len(wire)
              /\ 3 \in 1 .. Len(wire)
          BY <1>5, <2>1
        <4>2. QED
          BY <1>5, <2>3, <4>1
      <3>2. fate = "done" /\ wire[2] = wire[3] /\ ec_answer = <<wire[2]>>
        BY <2>1, <2>2, <2>3, <3>1 DEF OldOnWire
      <3>3. buf[2] = wire[2]
        BY <2>2, <2>3, <3>1, <3>2
      <3>4. QED
        BY <2>2, <2>3, <3>2, <3>3
    <2>4. EcTypeOK'
      BY <1>1, <1>2, <1>6, <2>2 DEF EcTypeOK
    <2>5. fate' = "other" \/ k = 1 => Unchecked'
      BY <1>1, <1>2, <1>6, <1>7 DEF Unchecked
    <2>6. QED
      BY <1>2, <2>3, <2>4, <2>5 DEF EcInv, AnswerTrue, EcIdle, EcSent
  <1>8. CASE req.version = 1
    <2>1. Len(buf) = 3 + n /\ NewOnWire
      BY <1>1, <1>5, <1>8 DEF NewOnWire
    <2>2. /\ ec_rc' \in EcBytes \cup {-1}
          /\ ec_rc' = 0 =>
               /\ buf[1] = 0 /\ buf[2] = n
               /\ n = 0 => buf[3] = 0 /\ indata' = <<>>
               /\ n = 1 => /\ buf[4] = (1 + buf[3]) % 256
                           /\ indata' = <<buf[3]>>
      <3> HIDE DEF n
      <3> DEFINE parsed == ParseNew(buf, n)
      <3>1. n \in {0, 1} /\ buf \in Seq(EcBytes) /\ Len(buf) = 3 + n
        BY <1>3, <1>5, <2>1
      <3>2. /\ parsed.ret \in EcBytes \cup {-1}
            /\ parsed.ret = 0 =>
                 /\ buf[1] = 0 /\ buf[2] = n
                 /\ n = 0 => buf[3] = 0 /\ parsed.data = <<>>
                 /\ n = 1 => /\ buf[4] = (1 + buf[3]) % 256
                             /\ parsed.data = <<buf[3]>>
        BY <3>1, NewChecks
      <3>3. ec_rc' = parsed.ret /\ indata' = parsed.data
        BY <1>6, <1>8
      <3> HIDE DEF parsed
      <3>4. QED
        BY <3>2, <3>3
    <2>3. /\ k # 1 => buf[1] = wire[1]
          /\ k # 2 => buf[2] = wire[2]
          /\ k # 3 => buf[3] = wire[3]
          /\ n = 1 /\ k # 4 => buf[4] = wire[4]
      <3>1. /\ 1 \in 1 .. Len(wire) /\ 2 \in 1 .. Len(wire)
            /\ 3 \in 1 .. Len(wire)
            /\ n = 1 => 4 \in 1 .. Len(wire)
        BY <1>3, <1>5, <2>1
      <3>2. QED
        BY <1>5, <3>1
    <2>4. ASSUME ec_rc' = 0
          PROVE  fate = "done"
      <3>1. CASE k # 1
        BY <2>1, <2>2, <2>3, <2>4, <3>1 DEF NewOnWire
      <3>2. CASE k = 1
        BY <1>3, <2>1, <2>2, <2>3, <2>4, <3>2 DEF NewOnWire
      <3>3. QED
        BY <3>1, <3>2
    <2>5. ASSUME ec_rc' = 0
          PROVE  indata' = ec_answer
      <3>1. CASE n = 0
        BY <2>1, <2>2, <2>4, <2>5, <3>1 DEF NewOnWire
      <3>2. CASE n = 1
        <4>1. /\ ec_answer = <<wire[3]>>
              /\ wire[4] = (1 + wire[3]) % 256
          BY <2>1, <2>4, <2>5, <3>2 DEF NewOnWire
        <4>2. wire[3] \in EcBytes /\ buf[3] \in EcBytes
          <5>1. 3 \in 1 .. Len(wire) /\ 3 \in 1 .. Len(buf)
            BY <1>3, <1>5, <2>1
          <5>2. QED
            BY <1>1, <1>5, <5>1, ElementOfSeq
        <4>3. (1 + buf[3]) % 256 = (1 + wire[3]) % 256 => buf[3] = wire[3]
          BY <4>2, NextByte
        <4>4. buf[3] = wire[3]
          BY <2>2, <2>3, <2>5, <3>2, <4>1, <4>3
        <4>5. QED
          BY <2>2, <2>5, <3>2, <4>1, <4>4
      <3>3. QED
        BY <1>3, <3>1, <3>2
    <2>6. EcTypeOK'
      BY <1>1, <1>2, <1>6, <2>2 DEF EcTypeOK
    <2>7. QED
      BY <1>2, <2>4, <2>5, <2>6 DEF EcInv, AnswerTrue, EcIdle, EcSent
  <1>9. QED
    BY <1>3, <1>7, <1>8

(* ... and the other steps.                                                *)
LEMMA DevStep ==
  ASSUME EcInv, EcTransportAssumption, NEW req \in EcCommands,
         DevTransferred(req) \/ DevFails(req) \/ DevAgain(req)
  PROVE  EcInv'
  <1>1. EcTypeOK
    BY DEF EcInv, AnswerTrue
  <1>2. /\ transport # "i2c" /\ transport' = transport
        /\ ec_request' = req /\ hurt' = hurt /\ ec_pc' = "done"
        /\ EcCommands' = EcCommands
    BY DEF DevTransferred, DevFails, DevAgain, DevCommand, EcReturns,
           EcCommands
  <1>3. IsWrite(req) => req.outdata[2] \in Contexts
    BY WrittenIsContext
  <1>4. /\ ec_context' \in Contexts
        /\ ec_pending' \in EcCommands \cup {NoEcRequest}
        /\ fate' \in {"lost", "again", "refused", "other", "done"}
    BY <1>1, <1>3 DEF DevTransferred, DevFails, DevAgain, EcDoes, EcDoesNot,
                      EcExecuted, EcTypeOK
  <1>5. \/ ec_rc' = 0 /\ fate' = "done" /\ indata' = ec_answer'
        \/ /\ ec_rc' = 0 /\ fate' = "refused"
           /\ req.command # EC_CMD_PD_CHIP_INFO
        \/ ec_rc' \in {-2, -1001}
    BY DEF DevTransferred, DevFails, DevAgain, EcDoes, EcDoesNot, EcReturns,
           DevResult, AgainResult, EC_RES_ERROR, EECRESULT,
           EC_RES_INVALID_COMMAND
  <1>6. EcTypeOK'
    <2>1. ec_rc' \in {NoRc, -1, -EC_RES_ERROR,
                      -EECRESULT - EC_RES_INVALID_COMMAND} \cup EcBytes
      BY <1>5 DEF EC_RES_ERROR, EECRESULT, EC_RES_INVALID_COMMAND, EcBytes
    <2>2. QED
      BY <1>1, <1>2, <1>4, <2>1 DEF EcTypeOK
  <1>7. AnswerTrue'
    BY <1>2, <1>5, <1>6 DEF AnswerTrue, Unchecked
  <1>8. QED
    BY <1>2, <1>7 DEF EcInv, EcIdle, EcSent

LEMMA FailsStep ==
  ASSUME EcInv, NEW req \in EcCommands, I2cFails(req)
  PROVE  EcInv'
  <1>1. EcTypeOK
    BY DEF EcInv, AnswerTrue
  <1>2. EcTypeOK' /\ ec_rc' = -1 /\ ec_pc' = "done"
    BY <1>1 DEF EcTypeOK, I2cFails, EcDoesNot, EcReturns, EcCommands
  <1>3. QED
    BY <1>2 DEF EcInv, AnswerTrue, EcIdle, EcSent

LEMMA RestStep ==
  ASSUME EcInv, EcFinishes \/ EcCommandEnds
  PROVE  EcInv'
  <1>1. EcTypeOK
    BY DEF EcInv, AnswerTrue
  <1>2. CASE EcFinishes
    <2>1. ec_pending \in EcCommands
      BY <1>1, <1>2 DEF EcFinishes, EcTypeOK
    <2>2. IsWrite(ec_pending) => ec_pending.outdata[2] \in Contexts
      BY <2>1, WrittenIsContext
    <2>3. /\ UNCHANGED <<transport, ec_pc, ec_request, fate, ec_answer, wire,
                         hurt, indata, ec_rc>>
          /\ EcCommands' = EcCommands
      BY <1>2 DEF EcFinishes, ecCall, EcCommands
    <2>4. EcTypeOK'
      BY <1>1, <1>2, <2>2, <2>3 DEF EcFinishes, EcExecuted, EcTypeOK
    <2>5. AnswerTrue'
      BY <2>3, <2>4 DEF EcInv, AnswerTrue, Unchecked
    <2>6. EcSent'
      BY <2>3 DEF EcInv, EcSent, OldOnWire, NewOnWire
    <2>7. QED
      BY <2>3, <2>5, <2>6 DEF EcInv, EcIdle
  <1>3. CASE EcCommandEnds
    <2>1. EcTypeOK' /\ ec_rc' = NoRc /\ ec_pc' = "idle"
      BY <1>1, <1>3 DEF EcTypeOK, EcCommandEnds, ecKeeps, EcCommands
    <2>2. QED
      BY <2>1 DEF EcInv, AnswerTrue, EcIdle, EcSent, NoRc
  <1>4. QED
    BY <1>2, <1>3

LEMMA EcStutter == EcInv /\ UNCHANGED ecTransportVars => EcInv'
  BY DEF EcInv, AnswerTrue, EcTypeOK, Unchecked, EcIdle, EcSent, OldOnWire,
         NewOnWire, EcCommands, ecTransportVars, ecKeeps, ecCall

LEMMA EcStep == EcInv /\ [EcNext]_ecTransportVars => EcInv'
  <1> SUFFICES ASSUME EcInv, [EcNext]_ecTransportVars PROVE EcInv'
    OBVIOUS
  <1> USE EcTransportAssumption
  <1>1. ASSUME NEW req \in EcCommands, I2cSends(req) PROVE EcInv'
    BY <1>1, SendsStep
  <1>2. ASSUME NEW req \in EcCommands, I2cFails(req) PROVE EcInv'
    BY <1>2, FailsStep
  <1>3. ASSUME NEW req \in EcCommands,
               DevTransferred(req) \/ DevFails(req) \/ DevAgain(req)
        PROVE  EcInv'
    BY <1>3, DevStep
  <1>4. I2cReceives => EcInv'
    BY ReceivesStep
  <1>5. EcFinishes \/ EcCommandEnds => EcInv'
    BY RestStep
  <1>6. QED
    BY <1>1, <1>2, <1>3, <1>4, <1>5, EcStutter DEF EcNext

LEMMA EcInvariant == EcSpec => []EcInv
  BY EcInitInv, EcStep, PTL DEF EcSpec

(* A command that returned 0 was executed by the EC and its answer is in   *)
(* the caller's buffer, whatever the wires did to one byte of each message *)
(* and wherever the transfer failed, save for what the checks leave out:   *)
(* for every transport, every context and every damage                     *)
(* (cros_ec_command_i2c, cros_ec_command_dev, cros_ec_command_dev_v2).     *)
THEOREM EcAnswerTrue == EcSpec => []AnswerTrue
  <1>1. EcInv => AnswerTrue
    BY DEF EcInv
  <1>2. QED
    BY <1>1, EcInvariant, PTL
-----------------------------------------------------------------------------
(* The event log.                                                          *)

(* A row: entries one behind the other from the beginning, only the last   *)
(* of which may have length 0, and none of which reaches the end.          *)
Row(r) ==
  /\ r \in Seq(Entries)
  /\ \A i \in 1 .. Len(r) :
       r[i].off = IF i = 1 THEN 0 ELSE r[i - 1].off + r[i - 1].len
  /\ \A i \in 1 .. Len(r) : i # Len(r) => r[i].len # 0
  /\ \A i \in 1 .. Len(r) : data_offset + r[i].off + r[i].len < Length

EndOf(r) == IF Len(r) = 0 THEN 0 ELSE r[Len(r)].off + r[Len(r)].len
ImageOf(r) == {r[i] : i \in 1 .. Len(r)}

LEMMA LengthIsNat ==
  /\ Length \in Nat /\ full_threshold \in Nat /\ shrink_size \in Nat
  /\ data_offset = 8 /\ LogClearSize = 13
  /\ full_threshold + 8 < Length /\ shrink_size <= full_threshold
  /\ MaxEvents \in Nat /\ EndLogSize = 9 /\ EndLog = -1
  BY EventLogAssumption
  DEF full_threshold, shrink_size, data_offset, LogClearSize, EndLogSize,
      EndLog

LEMMA EntryTypes ==
  ASSUME NEW e \in Entries
  PROVE  /\ e.off \in Nat /\ e.id \in Nat /\ e.len \in Nat /\ e.len <= 255
         /\ e.off \in 0 .. Length /\ e.len \in {0} \cup (9 .. 255)
         /\ e.id \in 0 .. MaxEvents
         /\ e = Entry(e.off, e.len, e.id)
  <1>1. /\ e.off \in 0 .. Length /\ e.len \in {0} \cup (9 .. 255)
        /\ e.id \in 0 .. MaxEvents
        /\ e = Entry(e.off, e.len, e.id)
    BY DEF Entries, Entry
  <1>2. \A l \in {0} \cup (9 .. 255) : l \in Nat /\ l <= 255
    OBVIOUS
  <1>3. \A n \in Nat : \A k \in 0 .. n : k \in Nat
    OBVIOUS
  <1>4. QED
    BY <1>1, <1>2, <1>3, LengthIsNat

LEMMA EndTypes ==
  ASSUME NEW e \in EndEntries
  PROVE  /\ e.off \in Nat /\ e.len \in Nat /\ e.len = 9 /\ e.id = EndLog
         /\ e.off \in 0 .. Length
  <1>1. e.off \in 0 .. Length /\ e.len = 9 /\ e.id = EndLog
    BY LengthIsNat DEF EndEntries
  <1>2. QED
    BY <1>1, LengthIsNat

LEMMA AnyTypes ==
  ASSUME NEW e \in AnyEntries
  PROVE  /\ e.off \in Nat /\ e.len \in Nat
         /\ e.id = EndLog => e \in EndEntries
         /\ e.id # EndLog => e \in Entries
  BY EntryTypes, EndTypes, LengthIsNat DEF AnyEntries

LEMMA SumInPlace ==
  ASSUME NEW a \in Nat, NEW b \in Nat
  PROVE  data_offset + a + b = data_offset + (a + b)
  BY LengthIsNat

LEMMA RowTypes ==
  ASSUME NEW r, Row(r)
  PROVE  /\ r \in Seq(Entries) /\ Len(r) \in Nat
         /\ \A i \in 1 .. Len(r) :
              /\ r[i] \in Entries /\ r[i].off \in Nat /\ r[i].id \in Nat
              /\ r[i].len \in Nat /\ r[i].len <= 255
              /\ r[i] = Entry(r[i].off, r[i].len, r[i].id)
         /\ EndOf(r) \in Nat
  <1>1. r \in Seq(Entries) /\ Len(r) \in Nat
    BY DEF Row
  <1>2. \A i \in 1 .. Len(r) :
          /\ r[i] \in Entries /\ r[i].off \in Nat /\ r[i].id \in Nat
          /\ r[i].len \in Nat /\ r[i].len <= 255
          /\ r[i] = Entry(r[i].off, r[i].len, r[i].id)
    BY <1>1, EntryTypes
  <1>3. EndOf(r) \in Nat
    BY <1>1, <1>2 DEF EndOf
  <1>4. QED
    BY <1>1, <1>2, <1>3

(* The entries of a row do not overlap.                                    *)
LEMMA RowAscends ==
  ASSUME NEW r, Row(r), NEW j \in 1 .. Len(r)
  PROVE  /\ \A i \in 1 .. Len(r) : i < j => r[i].off + r[i].len <= r[j].off
         /\ \A i \in 1 .. Len(r) : i < j => r[i].off < r[j].off
  <1> DEFINE n == Len(r)
             S == {k \in 0 .. n : \E i \in 1 .. n :
                     /\ i < k /\ k >= 1
                     /\ ~(r[i].off + r[i].len <= r[k].off)}
  <1>0. /\ n \in Nat
        /\ \A i \in 1 .. n : r[i].off \in Nat /\ r[i].len \in Nat
        /\ \A i \in 1 .. n :
             r[i].off = IF i = 1 THEN 0 ELSE r[i - 1].off + r[i - 1].len
        /\ \A i \in 1 .. n : i # n => r[i].len # 0
    BY RowTypes DEF Row
  <1> HIDE DEF n
  <1>1. ASSUME S # {} PROVE FALSE
    <2>1. S \in SUBSET Nat
      BY <1>0
    <2>2. PICK k \in S : \A l \in S : k <= l
      <3> HIDE DEF S
      <3>1. QED
        BY <1>1, <2>1, LeastElement
    <2>3. PICK i \in 1 .. n : /\ i < k /\ k >= 1
                              /\ ~(r[i].off + r[i].len <= r[k].off)
      OBVIOUS
    <2>4. /\ k \in 1 .. n /\ k # 1 /\ k - 1 \in 1 .. n
          /\ k - 1 \in 0 .. n /\ i <= k - 1
      BY <1>0, <2>3
    <2>5. r[k].off = r[k - 1].off + r[k - 1].len
      BY <1>0, <2>4
    <2>6. CASE i = k - 1
      BY <1>0, <2>3, <2>4, <2>5, <2>6
    <2>7. CASE i < k - 1
      <3>1. r[i].off + r[i].len <= r[k - 1].off
        <4>1. k - 1 \notin S
          <5> HIDE DEF S
          <5>1. k \in Nat /\ ~(k <= k - 1)
            BY <2>4
          <5>2. QED
            BY <2>2, <5>1
        <4>2. QED
          BY <2>4, <2>7, <4>1
      <3>2. /\ r[i].off \in Nat /\ r[i].len \in Nat
            /\ r[k - 1].off \in Nat /\ r[k - 1].len \in Nat
        BY <1>0, <2>4
      <3>3. \A a, b, c, d \in Nat : a + b <= c => a + b <= c + d
        OBVIOUS
      <3>4. r[i].off + r[i].len <= r[k - 1].off + r[k - 1].len
        BY <3>1, <3>2, <3>3
      <3>5. QED
        BY <2>3, <2>5, <3>4
    <2>8. QED
      BY <2>4, <2>6, <2>7
  <1>2. \A i \in 1 .. n : i < j => r[i].off + r[i].len <= r[j].off
    <2>1. j \in 0 .. n /\ j >= 1 /\ j \notin S
      <3> HIDE DEF S
      <3>1. QED
        BY <1>0, <1>1 DEF n
    <2>2. QED
      BY <2>1
  <1>3. \A i \in 1 .. n : i < j => r[i].len > 0
    BY <1>0 DEF n
  <1>4. ASSUME NEW i \in 1 .. n, i < j
        PROVE  r[i].off < r[j].off
    <2>1. /\ r[i].off \in Nat /\ r[i].len \in Nat /\ r[j].off \in Nat
          /\ r[i].len > 0 /\ r[i].off + r[i].len <= r[j].off
      BY <1>0, <1>2, <1>3, <1>4 DEF n
    <2>2. QED
      BY <2>1
  <1>5. QED
    BY <1>2, <1>4 DEF n

LEMMA RowEnds ==
  ASSUME NEW r, Row(r)
  PROVE  /\ \A i \in 1 .. Len(r) : r[i].off + r[i].len <= EndOf(r)
         /\ data_offset + EndOf(r) < Length
  <1>1. CASE Len(r) = 0
    BY <1>1, LengthIsNat DEF EndOf
  <1>2. CASE Len(r) # 0
    <2> DEFINE n == Len(r)
    <2>1. n \in 1 .. Len(r) /\ n \in Nat
      BY <1>2, RowTypes
    <2>2. EndOf(r) = r[n].off + r[n].len
      BY <1>2 DEF EndOf
    <2>3. \A i \in 1 .. n : i < n => r[i].off + r[i].len <= r[n].off
      BY <2>1, RowAscends
    <2>4. \A i \in 1 .. n : /\ r[i].off \in Nat /\ r[i].len \in Nat
                            /\ i = n \/ i < n
      BY <2>1, RowTypes
    <2>5. data_offset + r[n].off + r[n].len < Length
      BY <2>1 DEF Row
    <2>6. data_offset + EndOf(r) < Length
      BY <2>1, <2>2, <2>4, <2>5, LengthIsNat
    <2>7. \A i \in 1 .. n : r[i].off + r[i].len <= EndOf(r)
      BY <2>1, <2>2, <2>3, <2>4
    <2>8. QED
      BY <2>6, <2>7
  <1>3. QED
    BY <1>1, <1>2

(* The bytes of entries, one after the other.                              *)
LEMMA BytesSteps ==
  ASSUME NEW s, NEW n \in Nat, NEW ends \in [0 .. n -> Nat],
         DOMAIN s = 1 .. n, \A k \in 1 .. n : s[k].len \in Nat,
         ends[0] = 0,
         \A k \in 1 .. n : ends[k] = ends[k - 1] + s[k].len
  PROVE  Bytes(s) = ends[n]
  <1> DEFINE step == [k \in 1 .. n |->
                        [sum \in Nat |-> sum + s[k].len]]
             Sum(g) == [t \in SUBSET DOMAIN s |->
                          IF t = {} THEN 0
                          ELSE g[t \ {Max(t)}] + s[Max(t)].len]
             iter == CHOOSE g : g = Sum(g)
  <1>1. Bytes(s) = iter[DOMAIN s]
    BY DEF Bytes, FoldLeft, MapThenFoldSet
  <1>2. step \in [1 .. n -> [Nat -> Nat]]
    OBVIOUS
  <1>3. \A k \in 1 .. n, b \in Nat : step[k][b] = b + s[k].len
    OBVIOUS
  <1> HIDE DEF step
  <1>4. PICK g \in [SUBSET (1 .. n) -> Nat] : FoldsBy(g, 0, Nat, n, step)
    <2>1. 0 \in Nat
      OBVIOUS
    <2>2. QED
      BY <1>2, <2>1, FoldRecursion
  <1>5. ASSUME NEW t \in SUBSET (1 .. n), t # {}, NEW b \in Nat
        PROVE  step[Max(t)][b] = b + s[Max(t)].len
    <2>1. Max(t) \in 1 .. n
      BY <1>5, MaxOfInterval
    <2>2. QED
      BY <1>3, <2>1
  <1>6. g = Sum(g)
    <2>1. ASSUME NEW t \in SUBSET (1 .. n), t # {}
          PROVE  g[t] = g[t \ {Max(t)}] + s[Max(t)].len
      <3>1. g[t \ {Max(t)}] \in Nat
        BY <1>4
      <3>2. g[t] = step[Max(t)][g[t \ {Max(t)}]]
        BY <1>4, <2>1, <3>1 DEF FoldsBy
      <3>3. QED
        BY <1>5, <2>1, <3>1, <3>2
    <2>2. g[{}] = 0
      BY <1>4 DEF FoldsBy
    <2>3. QED
      BY <1>4, <2>1, <2>2
  <1>7. iter = Sum(iter)
    BY <1>6
  <1> DEFINE fold == iter
  <1> HIDE DEF iter, fold
  <1>8. FoldsBy(fold, 0, Nat, n, step)
    <2>1. \A t \in SUBSET (1 .. n) :
            fold[t] = IF t = {} THEN 0
                      ELSE fold[t \ {Max(t)}] + s[Max(t)].len
      BY <1>7 DEF fold
    <2>2. ASSUME NEW t \in SUBSET (1 .. n), t # {},
                 fold[t \ {Max(t)}] \in Nat
          PROVE  fold[t] = step[Max(t)][fold[t \ {Max(t)}]]
      <3>1. fold[t] = fold[t \ {Max(t)}] + s[Max(t)].len
        BY <2>1, <2>2
      <3>2. QED
        BY <1>5, <2>2, <3>1
    <2>3. fold[{}] = 0
      BY <2>1
    <2>4. QED
      BY <2>2, <2>3 DEF FoldsBy
  <1>9. ASSUME NEW k \in 1 .. n
        PROVE  ends[k] = step[k][ends[k - 1]]
    <2>1. k - 1 \in 0 .. n
      OBVIOUS
    <2>2. ends[k - 1] \in Nat
      BY <2>1
    <2>3. QED
      BY <1>3, <2>2
  <1>10. StepsBy(ends, 0, Nat, n, step)
    BY <1>9 DEF StepsBy
  <1>11. FoldOf(fold, n) = ends[n]
    BY <1>8, <1>10, FoldSteps
  <1>12. QED
    BY <1>1, <1>11 DEF fold, FoldOf

(* An entry put behind the last one.                                       *)
LEMMA AppendIsRow ==
  ASSUME NEW r, NEW e \in Entries, Row(r),
         \A i \in 1 .. Len(r) : r[i].len # 0,
         e.off = EndOf(r), data_offset + e.off + e.len < Length
  PROVE  /\ Row(Append(r, e)) /\ Len(Append(r, e)) = Len(r) + 1
         /\ \A i \in 1 .. Len(r) : Append(r, e)[i] = r[i]
         /\ Append(r, e)[Len(r) + 1] = e
         /\ EndOf(Append(r, e)) = e.off + e.len
         /\ e.len # 0 => Put(ImageOf(r), e) = ImageOf(Append(r, e))
  <1> DEFINE n == Len(r)
             s == Append(r, e)
  <1>1. r \in Seq(Entries) /\ n \in Nat
    BY DEF Row
  <1>2. /\ s \in Seq(Entries) /\ Len(s) = n + 1
        /\ \A i \in 1 .. n : s[i] = r[i]
        /\ s[n + 1] = e
    BY <1>1, AppendProperties
  <1>3. /\ \A i \in 1 .. n :
             r[i].off = IF i = 1 THEN 0 ELSE r[i - 1].off + r[i - 1].len
        /\ \A i \in 1 .. n : r[i].len # 0
        /\ \A i \in 1 .. n : data_offset + r[i].off + r[i].len < Length
        /\ e.off = IF n = 0 THEN 0 ELSE r[n].off + r[n].len
    BY DEF Row, EndOf
  <1>4. /\ \A i \in 1 .. n : r[i].off \in Nat /\ r[i].len \in Nat
        /\ \A i \in 1 .. n : r[i].off + r[i].len <= e.off
        /\ e.off \in Nat /\ e.len \in Nat
    BY RowTypes, RowEnds, EntryTypes
  <1> HIDE DEF s, n
  <1>5. \A i \in 1 .. n + 1 : /\ i \in 1 .. n \/ i = n + 1
                              /\ i # 1 => i - 1 \in 1 .. n
    BY <1>1
  <1>6. Row(s)
    <2>1. ASSUME NEW i \in 1 .. n + 1
          PROVE  s[i].off = IF i = 1 THEN 0 ELSE s[i - 1].off + s[i - 1].len
      <3>1. CASE i \in 1 .. n
        BY <1>2, <1>3, <1>5, <3>1
      <3>2. CASE i = n + 1
        <4>1. CASE n = 0
          BY <1>2, <1>3, <3>2, <4>1
        <4>2. CASE n # 0
          <5>1. n \in 1 .. n /\ i - 1 = n /\ i # 1
            BY <1>1, <3>2, <4>2
          <5>2. QED
            BY <1>2, <1>3, <3>2, <4>2, <5>1
        <4>3. QED
          BY <4>1, <4>2
      <3>3. QED
        BY <1>5, <3>1, <3>2
    <2>2. \A i \in 1 .. n + 1 : i # n + 1 => s[i].len # 0
      BY <1>2, <1>3, <1>5
    <2>3. \A i \in 1 .. n + 1 : data_offset + s[i].off + s[i].len < Length
      BY <1>2, <1>3, <1>5
    <2>4. QED
      BY <1>2, <2>1, <2>2, <2>3 DEF Row
  <1>7. EndOf(s) = e.off + e.len
    BY <1>1, <1>2 DEF EndOf
  <1>8. ASSUME e.len # 0
        PROVE  Put(ImageOf(r), e) = ImageOf(s)
    <2>1. Put(ImageOf(r), e) = ImageOf(r) \cup {e}
      BY <1>4 DEF Put, ImageOf, n
    <2>2. ImageOf(s) = {s[i] : i \in 1 .. n + 1}
      BY <1>2 DEF ImageOf
    <2>3. ImageOf(r) = {r[i] : i \in 1 .. n}
      BY DEF ImageOf, n
    <2>4. n + 1 \in 1 .. n + 1 /\ \A i \in 1 .. n : i \in 1 .. n + 1
      BY <1>1
    <2>5. QED
      BY <1>2, <1>5, <2>1, <2>2, <2>3, <2>4
  <1>9. QED
    BY <1>2, <1>6, <1>7, <1>8 DEF s, n

(* The bytes of the first m of them.                                       *)
LEMMA BytesOfPrefix ==
  ASSUME NEW s, NEW n \in Nat, NEW ends \in [0 .. n -> Nat], NEW m \in 0 .. n,
         s \in Seq(Entries), Len(s) = n,
         \A k \in 1 .. n : s[k].len \in Nat,
         ends[0] = 0,
         \A k \in 1 .. n : ends[k] = ends[k - 1] + s[k].len
  PROVE  Bytes(SubSeq(s, 1, m)) = ends[m]
  <1> DEFINE part == SubSeq(s, 1, m)
             some == [j \in 0 .. m |-> ends[j]]
  <1>1. /\ part \in Seq(Entries) /\ Len(part) = m
        /\ \A j \in 1 .. m : part[j] = s[j]
    BY PrefixOf
  <1>2. m \in Nat /\ DOMAIN part = 1 .. m
    BY <1>1
  <1>3. \A j \in 0 .. m : j \in 0 .. n /\ some[j] = ends[j]
    BY <1>2
  <1>4. some \in [0 .. m -> Nat]
    BY <1>3
  <1> HIDE DEF some, part
  <1>5. \A j \in 1 .. m : /\ j \in 1 .. n /\ j \in 0 .. m
                          /\ j - 1 \in 0 .. m
    BY <1>2
  <1>6. \A j \in 1 .. m : part[j].len \in Nat
    BY <1>1, <1>5
  <1>7. \A j \in 1 .. m : some[j] = some[j - 1] + part[j].len
    BY <1>1, <1>3, <1>5
  <1>8. some[0] = 0 /\ some[m] = ends[m]
    BY <1>2, <1>3
  <1>9. Bytes(part) = some[m]
    BY <1>2, <1>4, <1>6, <1>7, <1>8, BytesSteps
  <1>10. QED
    BY <1>8, <1>9 DEF part

(* The row a layout is.                                                    *)
LaidOut(s, n, ends) ==
  \E r : /\ Row(r) /\ Len(r) = n /\ Layout(s) = ImageOf(r)
         /\ EndOf(r) = ends[n]
         /\ \A k \in 1 .. n : r[k].len = s[k].len /\ r[k].id = s[k].id

(* Entries of any origin, laid out.                                        *)
LEMMA LayoutIsRow ==
  ASSUME NEW s, NEW n \in Nat, NEW ends \in [0 .. n -> Nat],
         s \in Seq(Entries), Len(s) = n,
         \A k \in 1 .. n : k # n => s[k].len # 0,
         ends[0] = 0,
         \A k \in 1 .. n : ends[k] = ends[k - 1] + s[k].len,
         \A k \in 1 .. n : data_offset + ends[k] < Length
  PROVE  LaidOut(s, n, ends)
  <1> DEFINE r == [k \in 1 .. n |-> Entry(ends[k - 1], s[k].len, s[k].id)]
  <1>1. \A k \in 1 .. n : /\ k - 1 \in 0 .. n /\ k \in 0 .. n
                          /\ ends[k - 1] \in Nat /\ ends[k] \in Nat
                          /\ k # 1 => k - 1 \in 1 .. n
    OBVIOUS
  <1>2. \A k \in 1 .. n : /\ s[k] \in Entries /\ s[k].len \in Nat
                          /\ s[k].len \in {0} \cup (9 .. 255)
                          /\ s[k].id \in 0 .. MaxEvents
    <2>1. \A k \in 1 .. n : s[k] \in Entries
      OBVIOUS
    <2>2. QED
      BY <2>1, EntryTypes
  <1>3. ASSUME NEW k \in 1 .. n
        PROVE  /\ r[k] = Entry(ends[k - 1], s[k].len, s[k].id)
               /\ r[k].off = ends[k - 1] /\ r[k].len = s[k].len
               /\ r[k].id = s[k].id
               /\ r[k].off + r[k].len = ends[k]
    BY DEF Entry
  <1>4. ASSUME NEW k \in 1 .. n
        PROVE  r[k] \in Entries
    <2>1. ends[k - 1] <= ends[k]
      <3>1. \A a, b \in Nat : a <= a + b
        OBVIOUS
      <3>2. ends[k - 1] \in Nat /\ s[k].len \in Nat
        BY <1>1, <1>2
      <3>3. ends[k] = ends[k - 1] + s[k].len
        OBVIOUS
      <3>4. QED
        BY <3>1, <3>2, <3>3
    <2>2. ends[k - 1] \in 0 .. Length
      <3>1. data_offset + ends[k] < Length /\ ends[k] \in Nat
        BY <1>1
      <3>2. QED
        BY <1>1, <2>1, <3>1, LengthIsNat
    <2>3. QED
      BY <1>2, <1>3, <2>2 DEF Entry, Entries
  <1>5. r \in Seq(Entries) /\ Len(r) = n
    BY <1>4
  <1> HIDE DEF r
  <1>6. Row(r)
    <2>1. ASSUME NEW k \in 1 .. n
          PROVE  r[k].off = IF k = 1 THEN 0 ELSE r[k - 1].off + r[k - 1].len
      <3>1. CASE k = 1
        BY <1>3, <3>1
      <3>2. CASE k # 1
        BY <1>1, <1>3, <3>2
      <3>3. QED
        BY <3>1, <3>2
    <2>2. ASSUME NEW k \in 1 .. n
          PROVE  data_offset + r[k].off + r[k].len < Length
      <3>1. /\ data_offset + ends[k] < Length /\ ends[k] \in Nat
            /\ r[k].off + r[k].len = ends[k]
            /\ r[k].off \in Nat /\ r[k].len \in Nat
        BY <1>1, <1>2, <1>3
      <3>2. QED
        BY <3>1, SumInPlace
    <2>3. \A k \in 1 .. n : k # n => r[k].len # 0
      BY <1>3
    <2>4. QED
      BY <1>5, <2>1, <2>2, <2>3 DEF Row
  <1>7. ASSUME NEW k \in 1 .. n
        PROVE  Bytes(SubSeq(s, 1, k - 1)) = ends[k - 1]
    <2>1. k - 1 \in 0 .. n
      OBVIOUS
    <2>2. \A j \in 1 .. n : s[j].len \in Nat
      BY <1>2
    <2> HIDE DEF r
    <2>3. QED
      BY <2>1, <2>2, BytesOfPrefix
  <1>8. Layout(s) = ImageOf(r)
    <2>1. DOMAIN s = 1 .. n
      OBVIOUS
    <2>2. \A x : x \in Layout(s) <=>
                   \E k \in 1 .. n :
                     x = Entry(Bytes(SubSeq(s, 1, k - 1)), s[k].len, s[k].id)
      BY <2>1 DEF Layout
    <2>3. \A x : x \in Layout(s) <=>
                   \E k \in 1 .. n : x = Entry(ends[k - 1], s[k].len, s[k].id)
      BY <1>7, <2>2
    <2>4. \A x : x \in ImageOf(r) <=> \E k \in 1 .. n : x = r[k]
      BY <1>5 DEF ImageOf
    <2>5. \A x : x \in Layout(s) <=> x \in ImageOf(r)
      BY <1>3, <2>3, <2>4
    <2>6. QED
      BY <2>5
  <1>9. EndOf(r) = ends[n]
    <2>1. n # 0 => n \in 1 .. n
      OBVIOUS
    <2>2. QED
      BY <1>3, <1>5, <2>1 DEF EndOf
  <1>10. QED
    BY <1>3, <1>5, <1>6, <1>8, <1>9 DEF LaidOut

(* What the walk over the entries does at an offset.                       *)
Scan(image, f) ==
  [off \in 0 .. Length |->
     LET here == {e \in image : e.off = off
                                /\ data_offset + off + e.len < Length}
     IN  IF here = {} THEN <<>>
         ELSE LET e == CHOOSE x \in here : TRUE
              IN  IF e.len = 0 THEN <<e>> ELSE <<e>> \o f[off + e.len]]

LEMMA TailsOf ==
  ASSUME NEW S, NEW s \in Seq(S), NEW i \in 1 .. Len(s)
  PROVE  /\ <<s[i]>> \o SubSeq(s, i + 1, Len(s)) = SubSeq(s, i, Len(s))
         /\ SubSeq(s, Len(s), Len(s)) = <<s[Len(s)]>>
         /\ <<s[i]>> \o <<>> = <<s[i]>>
         /\ SubSeq(s, 1, Len(s)) = s
  <1> DEFINE n == Len(s)
             front == <<s[i]>>
             rest == SubSeq(s, i + 1, n)
             all == SubSeq(s, i, n)
             whole == SubSeq(s, 1, n)
             last == SubSeq(s, n, n)
  <1>1. /\ n \in Nat /\ i \in 1 .. n /\ i \in Int /\ i + 1 \in Int /\ n \in Int
        /\ \A k \in 1 .. n : s[k] \in S
    OBVIOUS
  <1>2. /\ front \in Seq(S) /\ Len(front) = 1 /\ front[1] = s[i]
    BY <1>1
  <1>3. /\ rest \in Seq(S) /\ Len(rest) = n - i
        /\ \A k \in 1 .. n - i : rest[k] = s[i + k]
    <2>1. \A k \in i + 1 .. n : s[k] \in S
      BY <1>1
    <2>2. /\ rest \in Seq(S)
          /\ Len(rest) = IF i + 1 <= n THEN n - (i + 1) + 1 ELSE 0
          /\ \A k \in 1 .. n - (i + 1) + 1 : rest[k] = s[(i + 1) + k - 1]
      BY <1>1, <2>1, SubSeqProperties
    <2> HIDE DEF rest
    <2>3. Len(rest) = n - i
      BY <1>1, <2>2
    <2>4. ASSUME NEW k \in 1 .. n - i
          PROVE  rest[k] = s[i + k]
      <3>1. k \in 1 .. n - (i + 1) + 1 /\ (i + 1) + k - 1 = i + k
        BY <1>1
      <3>2. rest[k] = s[(i + 1) + k - 1]
        BY <2>2, <3>1
      <3>3. QED
        BY <3>1, <3>2
    <2>5. QED
      BY <2>2, <2>3, <2>4
  <1>4. /\ all \in Seq(S) /\ Len(all) = n - i + 1
        /\ \A k \in 1 .. n - i + 1 : all[k] = s[i + k - 1]
    <2>1. \A k \in i .. n : s[k] \in S
      BY <1>1
    <2>2. QED
      BY <1>1, <2>1, SubSeqProperties
  <1>5. /\ whole \in Seq(S) /\ Len(whole) = n
        /\ \A k \in 1 .. n : whole[k] = s[k]
    BY <1>1, PrefixOf
  <1>6. /\ last \in Seq(S) /\ Len(last) = 1 /\ last[1] = s[n]
    <2>1. \A k \in n .. n : s[k] \in S
      BY <1>1
    <2>2. /\ last \in Seq(S) /\ Len(last) = IF n <= n THEN n - n + 1 ELSE 0
          /\ \A k \in 1 .. n - n + 1 : last[k] = s[n + k - 1]
      BY <1>1, <2>1, SubSeqProperties
    <2>3. n - n + 1 = 1 /\ n + 1 - 1 = n /\ n <= n /\ 1 \in 1 .. 1
      BY <1>1
    <2> HIDE DEF last
    <2>4. QED
      BY <2>2, <2>3
  <1> HIDE DEF front, rest, all, whole, last
  <1>7. front \o rest = all
    <2> DEFINE both == front \o rest
    <2>0. /\ both \in Seq(S) /\ Len(both) = Len(front) + Len(rest)
          /\ \A k \in 1 .. Len(front) + Len(rest) :
               both[k] = IF k <= Len(front) THEN front[k]
                         ELSE rest[k - Len(front)]
      BY <1>2, <1>3, ConcatProperties
    <2> HIDE DEF both
    <2>1. /\ both \in Seq(S) /\ Len(both) = 1 + (n - i)
          /\ \A k \in 1 .. 1 + (n - i) :
               both[k] = IF k <= 1 THEN front[k] ELSE rest[k - 1]
      BY <1>2, <1>3, <2>0
    <2>2. Len(both) = Len(all)
      BY <1>1, <1>4, <2>1
    <2>3. ASSUME NEW k \in 1 .. Len(both)
          PROVE  both[k] = all[k]
      <3>1. k \in 1 .. 1 + (n - i) /\ k \in 1 .. n - i + 1
        BY <1>1, <2>1
      <3>2. CASE k = 1
        BY <1>1, <1>2, <1>4, <2>1, <3>1, <3>2
      <3>3. CASE k # 1
        <4>1. k - 1 \in 1 .. n - i /\ ~(k <= 1) /\ i + (k - 1) = i + k - 1
          BY <1>1, <3>1, <3>3
        <4>2. QED
          BY <1>3, <1>4, <2>1, <3>1, <4>1
      <3>4. QED
        BY <3>2, <3>3
    <2>4. both = all
      BY <1>4, <2>1, <2>2, <2>3, SeqEqual
    <2>5. QED
      BY <2>4 DEF both
  <1>8. whole = s
    BY <1>1, <1>5, SeqEqual
  <1>9. last = <<s[n]>>
    <2> DEFINE one == <<s[n]>>
    <2>1. n \in 1 .. n
      BY <1>1
    <2>2. one \in Seq(S) /\ Len(one) = 1 /\ one[1] = s[n]
      BY <1>1, <2>1
    <2> HIDE DEF one
    <2>3. last = one
      <3>1. \A k \in 1 .. Len(last) : k = 1
        BY <1>6
      <3>2. QED
        BY <1>6, <2>2, <3>1, SeqEqual
    <2>4. QED
      BY <2>3 DEF one
  <1>10. front \o <<>> = front
    BY <1>2, ConcatEmptySeq
  <1>11. QED
    BY <1>7, <1>8, <1>9, <1>10 DEF front, rest, all, whole, last

(* The walk over a row: at each entry it goes on with the next.            *)
LEMMA ScanOfRow ==
  ASSUME NEW r, NEW f, Row(r)
  PROVE  /\ \A i \in 1 .. Len(r) :
              Scan(ImageOf(r), f)[r[i].off]
                = IF r[i].len = 0 THEN <<r[i]>>
                  ELSE <<r[i]>> \o f[r[i].off + r[i].len]
         /\ \A off \in 0 .. Length :
              (\A i \in 1 .. Len(r) : r[i].off # off)
                => Scan(ImageOf(r), f)[off] = <<>>
  <1> DEFINE n == Len(r)
             image == ImageOf(r)
             Here(off) == {e \in image : e.off = off
                             /\ data_offset + off + e.len < Length}
  <1>1. \A i \in 1 .. n : r[i] \in Entries /\ r[i].off \in 0 .. Length
    <2>1. \A i \in 1 .. n : r[i] \in Entries
      BY RowTypes
    <2>2. QED
      BY <2>1, EntryTypes
  <1>2. \A x : x \in image <=> \E i \in 1 .. n : x = r[i]
    BY DEF ImageOf
  <1>3. \A off \in 0 .. Length :
          Scan(image, f)[off]
            = IF Here(off) = {} THEN <<>>
              ELSE LET e == CHOOSE x \in Here(off) : TRUE
                   IN  IF e.len = 0 THEN <<e>> ELSE <<e>> \o f[off + e.len]
    BY DEF Scan
  <1>4. ASSUME NEW i \in 1 .. n, NEW j \in 1 .. n, r[i].off = r[j].off
        PROVE  i = j
    <2>1. i \in Nat /\ j \in Nat /\ r[i].off \in Nat /\ r[j].off \in Nat
      BY RowTypes
    <2>2. \A k \in 1 .. n : \A l \in 1 .. n : l < k => r[l].off < r[k].off
      BY RowAscends
    <2>3. ~(i < j) /\ ~(j < i)
      BY <1>4, <2>1, <2>2
    <2>4. QED
      BY <2>1, <2>3
  <1>5. ASSUME NEW i \in 1 .. n
        PROVE  Here(r[i].off) = {r[i]}
    <2>1. data_offset + r[i].off + r[i].len < Length
      BY DEF Row
    <2> HIDE DEF image
    <2>2. \A x : x \in Here(r[i].off) <=> x = r[i]
      BY <1>2, <1>4, <2>1
    <2>3. QED
      BY <2>2
  <1>6. ASSUME NEW off, \A i \in 1 .. n : r[i].off # off
        PROVE  Here(off) = {}
    BY <1>2, <1>6
  <1> HIDE DEF Here, image, n
  <1>7. ASSUME NEW i \in 1 .. n
        PROVE  Scan(image, f)[r[i].off]
                 = IF r[i].len = 0 THEN <<r[i]>>
                   ELSE <<r[i]>> \o f[r[i].off + r[i].len]
    <2>1. Here(r[i].off) = {r[i]}
      BY <1>5
    <2>2. (CHOOSE x \in Here(r[i].off) : TRUE) = r[i]
      BY <2>1
    <2>3. Here(r[i].off) # {} /\ r[i].off \in 0 .. Length
      BY <1>1, <2>1
    <2>4. QED
      BY <1>3, <2>2, <2>3
  <1>8. \A off \in 0 .. Length :
          (\A i \in 1 .. n : r[i].off # off) => Scan(image, f)[off] = <<>>
    BY <1>3, <1>6
  <1>9. QED
    BY <1>7, <1>8 DEF image, n

LEMMA WalkIsScan ==
  ASSUME NEW image
  PROVE  Walk(image) = (CHOOSE f : f = Scan(image, f))[0]
  BY DEF Walk, Scan

LEMMA WalkOfRow ==
  ASSUME NEW r, Row(r)
  PROVE  Walk(ImageOf(r)) = r
  <1> DEFINE n == Len(r)
             image == ImageOf(r)
             At(off) == CHOOSE i \in 1 .. n : r[i].off = off
             rest == [off \in 0 .. Length |->
                        IF \E i \in 1 .. n : r[i].off = off
                        THEN SubSeq(r, At(off), n) ELSE <<>>]
             walk == CHOOSE f : f = Scan(image, f)
  <1>1. /\ n \in Nat /\ r \in Seq(Entries)
        /\ \A i \in 1 .. n : /\ r[i].off \in Nat /\ r[i].len \in Nat
                             /\ r[i] \in Entries
    BY RowTypes
  <1>2. \A i \in 1 .. n : r[i].off \in 0 .. Length
    BY <1>1, EntryTypes
  <1>3. ASSUME NEW i \in 1 .. n, NEW j \in 1 .. n, r[i].off = r[j].off
        PROVE  i = j
    <2>1. \A k \in 1 .. n : \A l \in 1 .. n : l < k => r[l].off < r[k].off
      BY RowAscends
    <2>2. ~(i < j) /\ ~(j < i)
      BY <1>1, <1>3, <2>1
    <2>3. QED
      BY <2>2
  (* Where the entry behind an entry is.                                   *)
  <1>4. ASSUME NEW i \in 1 .. n, r[i].len # 0
        PROVE  /\ i # n => /\ i + 1 \in 1 .. n
                           /\ r[i + 1].off = r[i].off + r[i].len
               /\ i = n => \A j \in 1 .. n : r[j].off # r[i].off + r[i].len
               /\ r[i].off + r[i].len \in 0 .. Length
    <2>1. i # n => /\ i + 1 \in 1 .. n /\ i + 1 # 1 /\ (i + 1) - 1 = i
      BY <1>1
    <2>2. i # n => r[i + 1].off = r[i].off + r[i].len
      BY <2>1 DEF Row
    <2>3. r[i].off + r[i].len \in 0 .. Length
      <3>1. data_offset + r[i].off + r[i].len < Length
        BY DEF Row
      <3>2. QED
        BY <1>1, <3>1, LengthIsNat
    <2>4. ASSUME i = n, NEW j \in 1 .. n
          PROVE  r[j].off # r[i].off + r[i].len
      <3>1. j < n => r[j].off < r[n].off
        BY <2>4, RowAscends
      <3>2. /\ r[j].off \in Nat /\ r[n].off \in Nat /\ r[n].len \in Nat
            /\ r[n].len # 0 /\ (j = n \/ j < n)
        BY <1>1, <1>4, <2>4
      <3>3. QED
        BY <2>4, <3>1, <3>2
    <2>5. QED
      BY <2>1, <2>2, <2>3, <2>4
  <1>5. ASSUME NEW i \in 1 .. n
        PROVE  rest[r[i].off] = SubSeq(r, i, n)
    <2>1. At(r[i].off) = i
      BY <1>3
    <2>2. QED
      BY <1>2, <2>1
  <1>6. ASSUME NEW off \in 0 .. Length, \A i \in 1 .. n : r[i].off # off
        PROVE  rest[off] = <<>>
    BY <1>6
  <1> HIDE DEF rest, At
  <1>7. /\ \A i \in 1 .. n :
             /\ <<r[i]>> \o SubSeq(r, i + 1, n) = SubSeq(r, i, n)
             /\ <<r[i]>> \o <<>> = <<r[i]>>
             /\ i = n => SubSeq(r, i, n) = <<r[i]>>
        /\ n # 0 => SubSeq(r, 1, n) = r
    <2>1. \A i \in 1 .. n :
            /\ <<r[i]>> \o SubSeq(r, i + 1, n) = SubSeq(r, i, n)
            /\ <<r[i]>> \o <<>> = <<r[i]>>
            /\ SubSeq(r, n, n) = <<r[n]>>
            /\ SubSeq(r, 1, n) = r
      BY <1>1, TailsOf
    <2>2. n # 0 => 1 \in 1 .. n
      BY <1>1
    <2>3. QED
      BY <2>1, <2>2
  <1>8. ASSUME NEW f
        PROVE  /\ \A i \in 1 .. n :
                    Scan(image, f)[r[i].off]
                      = IF r[i].len = 0 THEN <<r[i]>>
                        ELSE <<r[i]>> \o f[r[i].off + r[i].len]
               /\ \A off \in 0 .. Length :
                    (\A i \in 1 .. n : r[i].off # off)
                      => Scan(image, f)[off] = <<>>
    BY ScanOfRow
  <1>9. \A i \in 1 .. n : r[i].len = 0 => i = n
    BY DEF Row
  <1>10. 0 \in 0 .. Length
    BY LengthIsNat
  <1>11. n # 0 => 1 \in 1 .. n /\ r[1].off = 0
    BY <1>1 DEF Row
  <1>12. Walk(image) = walk[0]
    BY WalkIsScan
  <1> HIDE DEF image, n
  (* Such a walk exists ...                                                *)
  <1>13. rest = Scan(image, rest)
    <2>1. ASSUME NEW i \in 1 .. n
          PROVE  rest[r[i].off] = Scan(image, rest)[r[i].off]
      <3>1. CASE r[i].len = 0
        BY <1>5, <1>7, <1>8, <1>9, <3>1
      <3>2. CASE r[i].len # 0 /\ i = n
        <4>1. rest[r[i].off + r[i].len] = <<>>
          BY <1>4, <1>6, <3>2
        <4>2. QED
          BY <1>5, <1>7, <1>8, <3>2, <4>1
      <3>3. CASE r[i].len # 0 /\ i # n
        <4>1. rest[r[i].off + r[i].len] = SubSeq(r, i + 1, n)
          BY <1>4, <1>5, <3>3
        <4>2. QED
          BY <1>5, <1>7, <1>8, <3>3, <4>1
      <3>4. QED
        BY <3>1, <3>2, <3>3
    <2>2. ASSUME NEW off \in 0 .. Length
          PROVE  rest[off] = Scan(image, rest)[off]
      <3>1. CASE \E i \in 1 .. n : r[i].off = off
        BY <2>1, <3>1
      <3>2. CASE \A i \in 1 .. n : r[i].off # off
        BY <1>6, <1>8, <3>2
      <3>3. QED
        BY <3>1, <3>2
    <2>3. QED
      BY <2>2 DEF rest, Scan
  <1>14. walk = Scan(image, walk)
    BY <1>13
  <1> HIDE DEF walk
  (* ... and is the only one, at the entries from the last to the first.   *)
  <1>15. ASSUME NEW i \in 1 .. n
         PROVE  walk[r[i].off] = SubSeq(r, i, n)
    <2> DEFINE S == {k \in 0 .. n : \E j \in 1 .. n :
                       /\ j = n - k
                       /\ walk[r[j].off] # SubSeq(r, j, n)}
    <2>1. ASSUME S # {} PROVE FALSE
      <3>1. S \in SUBSET Nat
        BY <1>1
      <3>2. PICK k \in S : \A l \in S : k <= l
        <4> HIDE DEF S
        <4>1. QED
          BY <2>1, <3>1, LeastElement
      <3>3. PICK j \in 1 .. n : j = n - k /\ walk[r[j].off] # SubSeq(r, j, n)
        OBVIOUS
      <3>4. walk[r[j].off] = IF r[j].len = 0 THEN <<r[j]>>
                             ELSE <<r[j]>> \o walk[r[j].off + r[j].len]
        BY <1>8, <1>14
      <3>5. CASE r[j].len = 0
        BY <1>7, <1>9, <3>3, <3>4, <3>5
      <3>6. CASE r[j].len # 0 /\ j = n
        <4>1. walk[r[j].off + r[j].len] = <<>>
          BY <1>4, <1>8, <1>14, <3>6
        <4>2. QED
          BY <1>7, <3>3, <3>4, <3>6, <4>1
      <3>7. CASE r[j].len # 0 /\ j # n
        <4>1. /\ j + 1 \in 1 .. n /\ r[j + 1].off = r[j].off + r[j].len
          BY <1>4, <3>7
        <4>2. k \in 0 .. n /\ k - 1 \in 0 .. n /\ j + 1 = n - (k - 1)
              /\ ~(k <= k - 1)
          BY <1>1, <3>3, <4>1
        <4>3. k - 1 \notin S
          <5> HIDE DEF S
          <5>1. QED
            BY <3>2, <4>2
        <4>4. walk[r[j + 1].off] = SubSeq(r, j + 1, n)
          BY <4>1, <4>2, <4>3
        <4>5. QED
          BY <1>7, <3>3, <3>4, <3>7, <4>1, <4>4
      <3>8. QED
        BY <3>5, <3>6, <3>7
    <2>2. n - i \in 0 .. n /\ i = n - (n - i) /\ n - i \notin S
      <3>1. n - i \in 0 .. n /\ i = n - (n - i)
        BY <1>1
      <3> HIDE DEF S
      <3>2. QED
        BY <2>1, <3>1
    <2>3. QED
      BY <2>2
  <1>16. walk[0] = r
    <2>1. CASE n = 0
      <3>1. walk[0] = <<>>
        BY <1>8, <1>14, <1>10, <2>1
      <3>2. r = <<>>
        BY <1>1, <2>1 DEF n
      <3>3. QED
        BY <3>1, <3>2
    <2>2. CASE n # 0
      BY <1>7, <1>15, <1>11, <2>2
    <2>3. QED
      BY <2>1, <2>2
  <1>17. QED
    BY <1>16, <1>12 DEF image

(* The ends of the entries of a row are the sums of their lengths.         *)
LEMMA RowSums ==
  ASSUME NEW r, Row(r)
  PROVE  \E ends \in [0 .. Len(r) -> Nat] :
           /\ ends[0] = 0 /\ ends[Len(r)] = EndOf(r)
           /\ \A k \in 1 .. Len(r) : /\ ends[k] = ends[k - 1] + r[k].len
                                     /\ ends[k] = r[k].off + r[k].len
                                     /\ data_offset + ends[k] < Length
           /\ \A m \in 0 .. Len(r) : Bytes(SubSeq(r, 1, m)) = ends[m]
           /\ \A m \in 0 .. Len(r), k \in 0 .. Len(r) :
                m <= k => ends[m] <= ends[k]
  <1> DEFINE n == Len(r)
             ends == [k \in 0 .. n |-> IF k = 0 THEN 0
                                       ELSE r[k].off + r[k].len]
  <1>1. /\ n \in Nat /\ r \in Seq(Entries)
        /\ \A i \in 1 .. n : r[i].off \in Nat /\ r[i].len \in Nat
        /\ \A i \in 1 .. n :
             r[i].off = IF i = 1 THEN 0 ELSE r[i - 1].off + r[i - 1].len
        /\ \A i \in 1 .. n : data_offset + r[i].off + r[i].len < Length
    BY RowTypes DEF Row
  <1>2. EndOf(r) = IF n = 0 THEN 0 ELSE r[n].off + r[n].len
    BY DEF EndOf
  <1>3. \A m \in 1 .. n, k \in 1 .. n :
          m < k => r[m].off + r[m].len <= r[k].off
    BY RowAscends
  <1> HIDE DEF n
  <1>4. \A k \in 0 .. n : ends[k] = IF k = 0 THEN 0 ELSE r[k].off + r[k].len
    OBVIOUS
  <1>5. \A k \in 0 .. n : k = 0 \/ k \in 1 .. n
    BY <1>1
  <1>6. ends \in [0 .. n -> Nat]
    <2>1. ASSUME NEW k \in 0 .. n
          PROVE  (IF k = 0 THEN 0 ELSE r[k].off + r[k].len) \in Nat
      BY <1>1, <1>5
    <2>2. QED
      BY <2>1
  <1> HIDE DEF ends
  <1>7. ends[0] = 0 /\ ends[n] = EndOf(r)
    <2>1. 0 \in 0 .. n /\ n \in 0 .. n
      BY <1>1
    <2>2. QED
      BY <1>2, <1>4, <2>1
  <1>8. ASSUME NEW k \in 1 .. n
        PROVE  /\ ends[k] = r[k].off + r[k].len
               /\ ends[k] = ends[k - 1] + r[k].len
               /\ data_offset + ends[k] < Length
    <2>1. k \in 0 .. n /\ k - 1 \in 0 .. n /\ k # 0
      BY <1>1
    <2>2. ends[k] = r[k].off + r[k].len
      BY <1>4, <2>1
    <2>3. ends[k - 1] = r[k].off
      <3>1. CASE k = 1
        BY <1>1, <1>7, <3>1
      <3>2. CASE k # 1
        <4>1. k - 1 # 0
          BY <2>1, <3>2
        <4>2. QED
          BY <1>1, <1>4, <2>1, <3>2, <4>1
      <3>3. QED
        BY <3>1, <3>2
    <2>4. data_offset + ends[k] < Length
      <3>1. /\ data_offset + r[k].off + r[k].len < Length
            /\ r[k].off \in Nat /\ r[k].len \in Nat
        BY <1>1
      <3>2. QED
        BY <2>2, <3>1, SumInPlace
    <2>5. QED
      BY <2>2, <2>3, <2>4
  <1>9. ASSUME NEW m \in 0 .. n, NEW k \in 0 .. n, m <= k
        PROVE  ends[m] <= ends[k]
    <2>1. ends[m] \in Nat /\ ends[k] \in Nat
      BY <1>6
    <2>2. CASE m = 0 \/ m = k
      BY <1>7, <2>1, <2>2
    <2>3. CASE m # 0 /\ m # k
      <3>1. m \in 1 .. n /\ k \in 1 .. n /\ m < k
        BY <1>1, <1>9, <2>3
      <3>2. /\ ends[m] <= r[k].off /\ r[k].off \in Nat /\ r[k].len \in Nat
            /\ ends[k] = r[k].off + r[k].len
        BY <1>1, <1>3, <1>8, <3>1
      <3>3. QED
        BY <2>1, <3>2
    <2>4. QED
      BY <2>2, <2>3
  <1>10. \A m \in 0 .. n : Bytes(SubSeq(r, 1, m)) = ends[m]
    <2>1. \A k \in 1 .. n : /\ r[k].len \in Nat
                            /\ ends[k] = ends[k - 1] + r[k].len
      BY <1>1, <1>8
    <2>2. Len(r) = n
      BY DEF n
    <2>3. QED
      BY <1>1, <1>6, <1>7, <2>1, <2>2, BytesOfPrefix
  <1>11. QED
    BY <1>6, <1>7, <1>8, <1>9, <1>10 DEF n

LEMMA BytesOfRow ==
  ASSUME NEW r, Row(r)
  PROVE  Bytes(r) = EndOf(r)
  <1>1. PICK ends \in [0 .. Len(r) -> Nat] :
          /\ ends[Len(r)] = EndOf(r)
          /\ \A m \in 0 .. Len(r) : Bytes(SubSeq(r, 1, m)) = ends[m]
    BY RowSums
  <1>2. r \in Seq(Entries) /\ Len(r) \in 0 .. Len(r)
    BY RowTypes
  <1>3. SubSeq(r, 1, Len(r)) = r
    BY <1>2, PrefixOf, SeqEqual
  <1>4. QED
    BY <1>1, <1>2, <1>3

(* What is not of the end type.                                            *)
Shown(image) == {e \in image : e.id # EndLog}

(* Behind the entries there is at most an event of the end type.           *)
EndsAt(image, off) ==
  \A e \in image : e.id = EndLog => /\ e \in EndEntries /\ e.off = off
                                   /\ data_offset + e.off + e.len < Length

(* A log: a row of entries and nothing else that is shown.                 *)
IsLog(image) ==
  /\ Row(Visited(image)) /\ Shown(image) = ImageOf(Visited(image))
  /\ EndsAt(image, EndOf(Visited(image)))

Ordered(image) ==
  \A i, j \in Sound(Visited(image)) :
    i < j /\ Visited(image)[i].id # 0 /\ Visited(image)[j].id # 0
      => Visited(image)[i].id < Visited(image)[j].id

UpTo(image, n) ==
  \A i \in DOMAIN Visited(image) : Visited(image)[i].id <= n

EndsWith(image, e) ==
  /\ Visited(image) # <<>>
  /\ Last(Visited(image)).id = e.id /\ Last(Visited(image)).len # 0

(* The flash holds a log in the order of the ids given out, with every     *)
(* event that was in it or reported and has not been dropped.              *)
FlashInv ==
  /\ IsLog(flash) /\ Ordered(flash) /\ UpTo(flash, used)
  /\ added \subseteq 1 .. used
  /\ NoEventLost

Running(p) == pc[p] \notin {"idle", "end"}
HasRead(p) == pc[p] = "retake" \/ (pc[p] = "use" /\ got[p] # NoImage)

EventInv(p) ==
  /\ op[p] = "clear" => event[p].id = 0
  /\ op[p] = "add" /\ pc[p] # "idle"
       => /\ event[p].len \in EventSizes /\ event[p].len \in 9 .. 255
          /\ used # 0
          /\ \/ event[p].id = used
             \/ event[p].id = EndLog /\ event[p].len = EndLogSize
  /\ stage[p] = "skip" => op[p] = "clear"
  /\ stage[p] \in {"size", "copy"} => op[p] = "add"

(* Until the write nothing has changed since the first fetch.              *)
ReadInv(p) ==
  /\ op[p] = "add" /\ Running(p) /\ stage[p] # "write"
       => UpTo(flash, used - 1)
  /\ stage[p] \in {"size", "copy"} /\ Running(p)
       => event[p].len <= shrink_size /\ data[p] = flash
  /\ stage[p] = "copy" /\ Running(p)
       => ~Corrupt(flash) /\ events_size[p] = Bytes(Visited(flash))
  /\ stage[p] # "write" /\ HasRead(p) => got[p] = flash

(* The image to write is a log with the event as the last one, unless it   *)
(* is one no list shows.                                                   *)
WriteInv(p) ==
  /\ IsLog(data[p])
  /\ stage[p] = "write" /\ pc[p] \in {"drop", "tool"}
       => /\ Ordered(data[p]) /\ UpTo(data[p], used)
          /\ added \subseteq Listed(data[p]) \cup dropped \cup cut[p]
          /\ op[p] = "add" /\ event[p].id # EndLog
               => EndsWith(data[p], event[p])
  /\ stage[p] = "write" /\ HasRead(p) /\ op[p] = "add"
          /\ event[p].id # EndLog
       => EndsWith(flash, event[p])
  /\ result[p] = "ok"
       => /\ ~Running(p)
          /\ op[p] = "add" /\ event[p].id # EndLog => EndsWith(flash, event[p])

ElogInv ==
  /\ TypeOK /\ FlashInv
  /\ \A p \in Procs : EventInv(p) /\ ReadInv(p) /\ WriteInv(p)

LEMMA LogWithEnd ==
  ASSUME NEW r, NEW image, Row(r), Shown(image) = ImageOf(r),
         EndsAt(image, EndOf(r))
  PROVE  IsLog(image) /\ Visited(image) = r
  <1>1. Walk(ImageOf(r)) = r
    BY WalkOfRow
  <1>2. Visited(image) = r
    BY <1>1 DEF Visited, Shown
  <1>3. QED
    BY <1>2 DEF IsLog

(* A row is the log it lays out.                                           *)
LEMMA LogOfRow ==
  ASSUME NEW r, Row(r)
  PROVE  IsLog(ImageOf(r)) /\ Visited(ImageOf(r)) = r
  <1> DEFINE image == ImageOf(r)
  <1>1. \A e \in image : e \in Entries
    BY RowTypes DEF ImageOf
  <1>2. \A e \in image : e.id # EndLog
    BY <1>1, EntryTypes, LengthIsNat
  <1>3. Shown(image) = image
    BY <1>2 DEF Shown
  <1>4. EndsAt(image, EndOf(r))
    BY <1>2 DEF EndsAt
  <1> HIDE DEF image
  <1>5. QED
    BY <1>3, <1>4, LogWithEnd DEF image

LEMMA LogTypes ==
  ASSUME NEW image, IsLog(image)
  PROVE  /\ Visited(image) \in Seq(Entries) /\ Len(Visited(image)) \in Nat
         /\ DOMAIN Visited(image) = 1 .. Len(Visited(image))
         /\ image \subseteq AnyEntries
         /\ \A e \in image : /\ e.off \in Nat /\ e.len \in Nat
                            /\ data_offset + e.off + e.len < Length
         /\ Bytes(Visited(image)) \in Nat
         /\ data_offset + Bytes(Visited(image)) < Length
  <1> DEFINE r == Visited(image)
  <1>1. Row(r) /\ Shown(image) = ImageOf(r) /\ EndsAt(image, EndOf(r))
    BY DEF IsLog
  <1> HIDE DEF r
  <1>2. /\ r \in Seq(Entries) /\ Len(r) \in Nat /\ DOMAIN r = 1 .. Len(r)
        /\ \A i \in 1 .. Len(r) : /\ r[i] \in Entries /\ r[i].off \in Nat
                                  /\ r[i].len \in Nat
                                  /\ data_offset + r[i].off + r[i].len < Length
    BY <1>1, RowTypes DEF Row
  <1>3. Bytes(r) \in Nat /\ data_offset + Bytes(r) < Length
    BY <1>1, RowTypes, RowEnds, BytesOfRow
  <1>4. ASSUME NEW e \in image
        PROVE  /\ e \in AnyEntries /\ e.off \in Nat /\ e.len \in Nat
               /\ data_offset + e.off + e.len < Length
    <2>1. CASE e.id = EndLog
      <3>1. e \in EndEntries /\ data_offset + e.off + e.len < Length
        BY <1>1, <2>1 DEF EndsAt
      <3>2. e \in AnyEntries /\ e.off \in Nat /\ e.len \in Nat
        BY <3>1, EndTypes DEF AnyEntries
      <3>3. QED
        BY <3>1, <3>2
    <2>2. CASE e.id # EndLog
      <3>1. e \in ImageOf(r)
        BY <1>1, <2>2 DEF Shown
      <3>2. QED
        BY <1>2, <3>1 DEF ImageOf, AnyEntries
    <2>3. QED
      BY <2>1, <2>2
  <1>5. QED
    BY <1>1, <1>2, <1>3, <1>4 DEF r

LEMMA UpToMore ==
  ASSUME NEW image, NEW n \in Int, IsLog(image), UpTo(image, n - 1)
  PROVE  UpTo(image, n)
  <1>1. \A i \in DOMAIN Visited(image) : Visited(image)[i].id \in Nat
    BY LogTypes, EntryTypes
  <1>2. QED
    BY <1>1 DEF UpTo

LEMMA EmptyLog == IsLog(ErasedImage) /\ Visited(ErasedImage) = <<>>
  <1>1. Row(<<>>) /\ ImageOf(<<>>) = ErasedImage
    BY DEF Row, ImageOf, ErasedImage
  <1>2. QED
    BY <1>1, LogOfRow

(* What `clear` leaves.                                                    *)
LEMMA ClearedLog ==
  LET image == {LogClear(0)}
  IN  IsLog(image) /\ Visited(image) = <<LogClear(0)>>
  <1> DEFINE r == <<LogClear(0)>>
  <1>1. LogClear(0) \in Entries
    BY LengthIsNat DEF Entries, LogClear, Entry
  <1>2. LogClear(0).off = 0 /\ LogClear(0).len = 13
    BY LengthIsNat DEF LogClear, Entry
  <1>3. 8 + 0 + 13 < Length
    BY EventLogAssumption DEF full_threshold, data_offset
  <1>4. Row(r)
    BY <1>1, <1>2, <1>3, LengthIsNat DEF Row
  <1>5. ImageOf(r) = {LogClear(0)}
    BY DEF ImageOf
  <1>6. QED
    BY <1>4, <1>5, LogOfRow

(* An entry behind the last one: what is listed then, and in which order.  *)
LEMMA AddedLog ==
  ASSUME NEW image, NEW e \in Entries, IsLog(image), ~Corrupt(image),
         e.off = Bytes(Visited(image)), e.len # 0,
         data_offset + e.off + e.len < Length
  PROVE  /\ IsLog(Put(image, e)) /\ ~Corrupt(Put(image, e))
         /\ Bytes(Visited(Put(image, e))) = e.off + e.len
         /\ Visited(Put(image, e)) = Append(Visited(image), e)
         /\ EndsWith(Put(image, e), e)
         /\ Listed(image) \subseteq Listed(Put(image, e))
  <1> DEFINE r == Visited(image)
             n == Len(r)
             new == Put(image, e)
             s == Append(r, e)
  <1>1. Row(r) /\ Shown(image) = ImageOf(r) /\ EndsAt(image, EndOf(r))
    BY DEF IsLog
  <1>2. n \in Nat /\ r \in Seq(Entries) /\ DOMAIN r = 1 .. n
    BY LogTypes
  <1>3. \A i \in 1 .. n : r[i].len # 0
    BY <1>2 DEF Corrupt
  <1> HIDE DEF r
  <1>4. e.off = EndOf(r)
    BY <1>1, BytesOfRow DEF r
  <1>5. /\ Row(s) /\ Len(s) = n + 1
        /\ \A i \in 1 .. n : s[i] = r[i]
        /\ s[n + 1] = e
        /\ EndOf(s) = e.off + e.len
        /\ Put(ImageOf(r), e) = ImageOf(s)
    BY <1>1, <1>3, <1>4, AppendIsRow
  <1> HIDE DEF s
  <1>6. IsLog(new) /\ Visited(new) = s
    <2>1. /\ e.off \in Nat /\ e.len \in Nat /\ e.id # EndLog
          /\ e.len \in 9 .. 255
      BY EntryTypes, LengthIsNat
    <2>2. ASSUME NEW x \in image, x.id = EndLog
          PROVE  ~(x.off + x.len <= e.off) /\ ~(x.off >= e.off + e.len)
      <3>1. x.off = e.off /\ x.len = 9
        BY <1>1, <1>4, <2>2, EndTypes DEF EndsAt
      <3>2. QED
        BY <2>1, <3>1
    <2>3. \A x \in new : x.id # EndLog
      BY <2>1, <2>2 DEF Put
    <2>4. Shown(new) = Put(Shown(image), e)
      BY <2>1 DEF Shown, Put
    <2>5. EndsAt(new, EndOf(s))
      BY <2>3 DEF EndsAt
    <2> HIDE DEF new
    <2>6. QED
      BY <1>1, <1>5, <2>4, <2>5, LogWithEnd
  <1> HIDE DEF new
  <1>7. Bytes(s) = e.off + e.len
    BY <1>5, BytesOfRow
  <1>8. s \in Seq(Entries) /\ DOMAIN s = 1 .. n + 1
    BY <1>2, <1>5, RowTypes
  <1> HIDE DEF n
  <1>9. ~Corrupt(new)
    <2>1. \A i \in 1 .. n + 1 : i \in 1 .. n \/ i = n + 1
      BY <1>2
    <2>2. QED
      BY <1>3, <1>5, <1>6, <1>8, <2>1 DEF Corrupt
  <1>10. EndsWith(new, e)
    <2>1. s # <<>>
      BY <1>2, <1>8
    <2>2. Last(s) = e
      BY <1>5 DEF Last
    <2>3. QED
      BY <1>6, <2>1, <2>2 DEF EndsWith
  <1>11. Listed(image) \subseteq Listed(new)
    <2>1. Listed(image) = {r[i].id : i \in Sound(r)} \ {0}
      BY DEF Listed, r
    <2>2. Listed(new) = {s[i].id : i \in Sound(s)} \ {0}
      BY <1>6 DEF Listed
    <2>3. \A i \in Sound(r) : i \in Sound(s) /\ s[i].id = r[i].id
      <3>1. \A i \in 1 .. n : i \in 1 .. n + 1
        BY <1>2
      <3>2. QED
        BY <1>2, <1>5, <1>8, <3>1 DEF Sound
    <2>4. QED
      BY <2>1, <2>2, <2>3
  <1>12. QED
    BY <1>6, <1>7, <1>9, <1>10, <1>11 DEF s, new, r

(* An event of the end type behind the last entry: nothing is listed that  *)
(* was not listed before, and nothing is lost.                             *)
LEMMA EndedLog ==
  ASSUME NEW image, NEW e \in EndEntries, IsLog(image),
         e.off = Bytes(Visited(image)),
         data_offset + e.off + e.len < Length
  PROVE  IsLog(Put(image, e)) /\ Visited(Put(image, e)) = Visited(image)
  <1> DEFINE r == Visited(image)
             new == Put(image, e)
  <1>1. Row(r) /\ Shown(image) = ImageOf(r) /\ EndsAt(image, EndOf(r))
    BY DEF IsLog
  <1> HIDE DEF r
  <1>2. e.off = EndOf(r)
    BY <1>1, BytesOfRow DEF r
  <1>3. e.off \in Nat /\ e.len = 9 /\ e.id = EndLog
    BY EndTypes
  <1>4. \A x \in ImageOf(r) : x.off + x.len <= e.off
    BY <1>1, <1>2, RowEnds DEF ImageOf
  <1>5. Shown(new) = ImageOf(r)
    BY <1>1, <1>3, <1>4 DEF Shown, Put
  <1>6. EndsAt(new, EndOf(r))
    BY <1>1, <1>2 DEF EndsAt, Put
  <1> HIDE DEF new
  <1>7. IsLog(new) /\ Visited(new) = r
    BY <1>1, <1>5, <1>6, LogWithEnd
  <1>8. QED
    BY <1>7 DEF new, r

LEMMA AddedOrder ==
  ASSUME NEW image, NEW e \in Entries, NEW m \in Nat,
         IsLog(image), ~Corrupt(image),
         e.off = Bytes(Visited(image)), e.len # 0,
         data_offset + e.off + e.len < Length,
         Ordered(image), UpTo(image, m), e.id = 0 \/ e.id > m
  PROVE  /\ Ordered(Put(image, e))
         /\ UpTo(Put(image, e), IF e.id = 0 THEN m ELSE e.id)
  <1> DEFINE r == Visited(image)
             n == Len(r)
             new == Put(image, e)
             s == Visited(new)
  <1>1. n \in Nat /\ r \in Seq(Entries) /\ DOMAIN r = 1 .. n
    BY LogTypes
  <1>2. /\ Len(s) = n + 1 /\ DOMAIN s = 1 .. n + 1
        /\ \A i \in 1 .. n : s[i] = r[i]
        /\ s[n + 1] = e
    <2>1. s = Append(r, e)
      BY AddedLog
    <2> HIDE DEF s, r
    <2>2. QED
      BY <1>1, <2>1, AppendProperties
  <1>3. /\ \A i \in 1 .. n : r[i].id <= m /\ r[i].id \in Nat /\ r[i].len # 0
        /\ e.id \in Nat
    <2>1. \A i \in 1 .. n : r[i].id \in Nat
      <3> HIDE DEF r
      <3>1. QED
        BY <1>1, EntryTypes
    <2>2. QED
      BY <1>1, <2>1, EntryTypes DEF UpTo, Corrupt
  <1>4. \A i \in 1 .. n : \A j \in 1 .. n :
          i < j /\ r[i].id # 0 /\ r[j].id # 0 => r[i].id < r[j].id
    BY <1>1, <1>3 DEF Ordered, Sound
  <1> HIDE DEF r, n, new
  <1>5. \A i \in 1 .. n + 1 : i \in 1 .. n \/ i = n + 1
    BY <1>1
  <1>6. UpTo(new, IF e.id = 0 THEN m ELSE e.id)
    <2>1. \A i \in 1 .. n + 1 : s[i].id <= IF e.id = 0 THEN m ELSE e.id
      BY <1>2, <1>3, <1>5
    <2>2. QED
      BY <1>2, <2>1 DEF UpTo
  <1>7. Ordered(new)
    <2>1. ASSUME NEW i \in 1 .. n + 1, NEW j \in 1 .. n + 1, i < j,
                 s[i].id # 0, s[j].id # 0
          PROVE  s[i].id < s[j].id
      <3>1. i \in 1 .. n
        BY <1>1, <1>5, <2>1
      <3>2. CASE j \in 1 .. n
        BY <1>2, <1>4, <2>1, <3>1, <3>2
      <3>3. CASE j = n + 1
        BY <1>2, <1>3, <2>1, <3>1, <3>3
      <3>4. QED
        BY <1>5, <3>2, <3>3
    <2>2. QED
      BY <1>2, <2>1 DEF Ordered, Sound
  <1>8. QED
    BY <1>6, <1>7 DEF new

LEMMA SkippedEnough ==
  ASSUME NEW r, Row(r), NEW to_skip \in Nat
  PROVE  /\ Skipped(r, to_skip) \in 0 .. Len(r)
         /\ \/ Skipped(r, to_skip) = Len(r)
            \/ Bytes(SubSeq(r, 1, Skipped(r, to_skip))) >= to_skip
  <1> DEFINE n == Len(r)
             B(k) == Bytes(SubSeq(r, 1, k))
             S == {k \in 0 .. n : k = n \/ B(k) >= to_skip}
  <1>1. n \in Nat
    BY RowTypes
  <1>2. \A k \in 0 .. n : B(k) \in Nat
    <2>1. PICK ends \in [0 .. n -> Nat] : \A m \in 0 .. n : B(m) = ends[m]
      BY RowSums
    <2> HIDE DEF B, n
    <2>2. QED
      BY <2>1
  <1> HIDE DEF B, n
  <1>3. PICK k \in S : \A l \in S : k <= l
    <2>1. S \in SUBSET Nat
      BY <1>1
    <2>2. n \in S
      BY <1>1
    <2> HIDE DEF S
    <2>3. QED
      BY <2>1, <2>2, LeastElement
  <1>4. k \in 0 .. n /\ (k = n \/ B(k) >= to_skip)
    OBVIOUS
  <1>5. \A l \in 0 .. k - 1 : B(l) < to_skip
    <2>1. ASSUME NEW l \in 0 .. k - 1
          PROVE  B(l) < to_skip
      <3>1. l \in 0 .. n /\ ~(k <= l)
        BY <1>1, <1>4
      <3>2. l \notin S
        <4> HIDE DEF S
        <4>1. QED
          BY <1>3, <3>1
      <3>3. ~(B(l) >= to_skip)
        BY <3>1, <3>2
      <3>4. B(l) \in Nat
        BY <1>2, <3>1
      <3>5. QED
        BY <3>3, <3>4
    <2>2. QED
      BY <2>1
  <1> DEFINE Enough(m) == /\ \A l \in 0 .. m - 1 : B(l) < to_skip
                          /\ m = n \/ B(m) >= to_skip
  <1>6. Enough(k)
    BY <1>4, <1>5
  <1>7. Skipped(r, to_skip) = CHOOSE m \in 0 .. n : Enough(m)
    BY DEF Skipped, B, n
  <1> HIDE DEF Enough
  <1>8. Skipped(r, to_skip) \in 0 .. n /\ Enough(Skipped(r, to_skip))
    BY <1>4, <1>6, <1>7
  <1>9. QED
    BY <1>8 DEF Enough, B, n

(* What is kept of a log when its first entries go.                        *)
LEMMA KeptLog ==
  ASSUME NEW image, NEW n \in 0 .. Len(Visited(image)),
         IsLog(image), ~Corrupt(image)
  PROVE  LET entries == Visited(image)
             kept == Layout(SubSeq(entries, n + 1, Len(entries)))
         IN  /\ IsLog(kept) /\ ~Corrupt(kept)
             /\ Bytes(Visited(kept))
                  = Bytes(entries) - Bytes(SubSeq(entries, 1, n))
             /\ Ordered(image) => Ordered(kept)
             /\ \A m \in Nat : UpTo(image, m) => UpTo(kept, m)
             /\ Listed(image)
                  \subseteq Listed(kept) \cup Ids(SubSeq(entries, 1, n))
  <1> DEFINE r == Visited(image)
             N == Len(r)
             s == SubSeq(r, n + 1, N)
             first == SubSeq(r, 1, n)
             kept == Layout(s)
             m == N - n
  <1>1. Row(r)
    BY DEF IsLog
  <1>2. /\ N \in Nat /\ r \in Seq(Entries) /\ DOMAIN r = 1 .. N
        /\ n \in 0 .. N /\ m \in Nat /\ m = N - n /\ n \in Nat
    BY LogTypes
  <1>3. \A i \in 1 .. N : /\ r[i].len # 0 /\ r[i] \in Entries
                         /\ r[i].len \in Nat
    BY <1>1, <1>2, RowTypes DEF Corrupt
  <1>4. /\ s \in Seq(Entries) /\ Len(s) = m
        /\ \A k \in 1 .. m : s[k] = r[n + k]
    <2> HIDE DEF r, N, m
    <2>1. \A k \in n + 1 .. N : r[k] \in Entries
      BY <1>2, <1>3
    <2>2. /\ s \in Seq(Entries)
          /\ Len(s) = IF n + 1 <= N THEN N - (n + 1) + 1 ELSE 0
          /\ \A k \in 1 .. N - (n + 1) + 1 : s[k] = r[(n + 1) + k - 1]
      BY <1>2, <2>1, SubSeqProperties
    <2> HIDE DEF s
    <2>3. Len(s) = m
      BY <1>2, <2>2
    <2>4. ASSUME NEW k \in 1 .. m
          PROVE  s[k] = r[n + k]
      <3>1. k \in 1 .. N - (n + 1) + 1 /\ (n + 1) + k - 1 = n + k
        BY <1>2
      <3>2. s[k] = r[(n + 1) + k - 1]
        BY <2>2, <3>1
      <3>3. QED
        BY <3>1, <3>2
    <2>5. QED
      BY <2>2, <2>3, <2>4
  <1>5. /\ first \in Seq(Entries) /\ Len(first) = n
        /\ \A k \in 1 .. n : first[k] = r[k]
    BY <1>2, PrefixOf
  <1>6. PICK ends \in [0 .. N -> Nat] :
          /\ ends[0] = 0 /\ ends[N] = EndOf(r)
          /\ \A k \in 1 .. N : /\ ends[k] = ends[k - 1] + r[k].len
                              /\ data_offset + ends[k] < Length
          /\ \A l \in 0 .. N : Bytes(SubSeq(r, 1, l)) = ends[l]
          /\ \A l \in 0 .. N, k \in 0 .. N : l <= k => ends[l] <= ends[k]
    BY <1>1, RowSums
  <1>7. Bytes(first) = ends[n] /\ Bytes(r) = ends[N]
    BY <1>1, <1>2, <1>6, BytesOfRow
  <1> HIDE DEF r, N, s, first, m, kept
  <1> DEFINE rest == [k \in 0 .. m |-> ends[n + k] - ends[n]]
  <1>8. \A k \in 0 .. m : /\ n + k \in 0 .. N /\ n <= n + k
                         /\ k # 0 => /\ n + k \in 1 .. N /\ k - 1 \in 0 .. m
                                     /\ (n + k) - 1 = n + (k - 1)
    BY <1>2
  <1>9. ASSUME NEW k \in 0 .. m
        PROVE  /\ rest[k] = ends[n + k] - ends[n] /\ rest[k] \in Nat
               /\ ends[n + k] \in Nat /\ ends[n] \in Nat
               /\ rest[k] <= ends[n + k]
    <2>1. ends[n] <= ends[n + k] /\ ends[n] \in Nat /\ ends[n + k] \in Nat
      BY <1>2, <1>6, <1>8
    <2>2. QED
      BY <2>1
  <1>10. rest \in [0 .. m -> Nat]
    BY <1>9
  <1> HIDE DEF rest
  <1>11. ASSUME NEW k \in 1 .. m
         PROVE  /\ rest[k] = rest[k - 1] + s[k].len
                /\ data_offset + rest[k] < Length
                /\ s[k].len # 0 /\ s[k] = r[n + k] /\ n + k \in 1 .. N
    <2>1. /\ k \in 0 .. m /\ k # 0 /\ k - 1 \in 0 .. m
          /\ n + k \in 1 .. N /\ (n + k) - 1 = n + (k - 1)
      BY <1>2, <1>8
    <2>2. /\ ends[n + k] = ends[(n + k) - 1] + r[n + k].len
          /\ data_offset + ends[n + k] < Length
      BY <1>6, <2>1
    <2>3. s[k] = r[n + k] /\ r[n + k].len \in Nat /\ r[n + k].len # 0
      BY <1>3, <1>4, <2>1
    <2>4. /\ rest[k] = ends[n + k] - ends[n] /\ rest[k] <= ends[n + k]
          /\ rest[k - 1] = ends[n + (k - 1)] - ends[n]
          /\ rest[k] \in Nat /\ ends[n + k] \in Nat /\ ends[n] \in Nat
          /\ ends[n + (k - 1)] \in Nat
      BY <1>9, <2>1
    <2>5. ends[n + k] = ends[n + (k - 1)] + s[k].len
      BY <2>1, <2>2, <2>3
    <2>6. rest[k] = rest[k - 1] + s[k].len
      BY <2>3, <2>4, <2>5
    <2>7. data_offset + rest[k] < Length
      BY <2>2, <2>4, LengthIsNat
    <2>8. QED
      BY <2>1, <2>3, <2>6, <2>7
  <1>12. rest[0] = 0 /\ rest[m] = ends[N] - ends[n]
    <2>1. 0 \in 0 .. m /\ m \in 0 .. m /\ n + 0 = n /\ n + m = N
      BY <1>2
    <2>2. QED
      BY <1>9, <2>1
  <1>13. PICK t : /\ Row(t) /\ Len(t) = m /\ kept = ImageOf(t)
                  /\ EndOf(t) = rest[m]
                  /\ \A k \in 1 .. m : t[k].len = s[k].len /\ t[k].id = s[k].id
    <2>1. LaidOut(s, m, rest)
      <3>1. /\ m \in Nat /\ rest \in [0 .. m -> Nat] /\ s \in Seq(Entries)
            /\ Len(s) = m /\ rest[0] = 0
        BY <1>2, <1>4, <1>10, <1>12
      <3>2. /\ \A k \in 1 .. m : k # m => s[k].len # 0
            /\ \A k \in 1 .. m : rest[k] = rest[k - 1] + s[k].len
            /\ \A k \in 1 .. m : data_offset + rest[k] < Length
        BY <1>11
      <3>3. QED
        BY <3>1, <3>2, LayoutIsRow
    <2>2. QED
      BY <2>1 DEF LaidOut, kept
  <1>14. IsLog(kept) /\ Visited(kept) = t
    BY <1>13, LogOfRow
  <1>15. Bytes(t) = Bytes(r) - Bytes(first)
    BY <1>7, <1>12, <1>13, BytesOfRow
  <1>16. /\ DOMAIN t = 1 .. m
         /\ \A k \in 1 .. m : /\ n + k \in 1 .. N /\ t[k].len # 0
                              /\ t[k].id = r[n + k].id
    <2>1. DOMAIN t = 1 .. m
      BY <1>13, RowTypes
    <2>2. ASSUME NEW k \in 1 .. m
          PROVE  /\ n + k \in 1 .. N /\ t[k].len # 0
                 /\ t[k].id = r[n + k].id
      BY <1>11, <1>13
    <2>3. QED
      BY <2>1, <2>2
  <1>17. ~Corrupt(kept)
    BY <1>14, <1>16 DEF Corrupt
  <1>18. ASSUME Ordered(image)
         PROVE  Ordered(kept)
    <2>1. \A i \in 1 .. N, j \in 1 .. N :
            i < j /\ r[i].id # 0 /\ r[j].id # 0 => r[i].id < r[j].id
      BY <1>2, <1>3, <1>18 DEF Ordered, Sound, r
    <2>2. ASSUME NEW i \in 1 .. m, NEW j \in 1 .. m, i < j,
                 t[i].id # 0, t[j].id # 0
          PROVE  t[i].id < t[j].id
      <3>1. n + i < n + j
        BY <1>2, <2>2
      <3>2. QED
        BY <1>16, <2>1, <2>2, <3>1
    <2>3. QED
      BY <1>14, <1>16, <2>2 DEF Ordered, Sound
  <1>19. ASSUME NEW top \in Nat, UpTo(image, top)
         PROVE  UpTo(kept, top)
    <2>1. \A i \in 1 .. N : r[i].id <= top
      BY <1>2, <1>19 DEF UpTo, r
    <2>2. QED
      BY <1>14, <1>16, <2>1 DEF UpTo
  <1>20. Listed(image) \subseteq Listed(kept) \cup Ids(first)
    <2>1. ASSUME NEW id \in Listed(image)
          PROVE  id \in Listed(kept) \cup Ids(first)
      <3>1. PICK i \in 1 .. N : id = r[i].id /\ id # 0
        BY <1>2 DEF Listed, Sound, r
      <3>2. CASE i <= n
        <4>1. i \in 1 .. n /\ DOMAIN first = 1 .. n
          BY <1>2, <1>5, <3>2
        <4>2. QED
          BY <1>5, <3>1, <4>1 DEF Ids
      <3>3. CASE ~(i <= n)
        <4>1. i - n \in 1 .. m /\ n + (i - n) = i
          BY <1>2, <3>3
        <4>2. t[i - n].id = id /\ i - n \in Sound(t)
          BY <1>16, <3>1, <4>1 DEF Sound
        <4>3. QED
          BY <1>14, <3>1, <4>2 DEF Listed
      <3>4. QED
        BY <3>2, <3>3
    <2>2. QED
      BY <2>1
  <1>21. QED
    BY <1>14, <1>15, <1>17, <1>18, <1>19, <1>20 DEF kept, s, first, r, N

(* The log in which the oldest entries have made room for the event.       *)
LEMMA ShrunkLog ==
  ASSUME NEW p \in Procs, NEW m \in Nat,
         IsLog(got[p]), ~Corrupt(got[p]), Ordered(got[p]), UpTo(got[p], m),
         event[p] \in AnyEntries, event[p].len # 0,
         event[p].id = EndLog \/ event[p].id > m,
         event[p].len + LogClearSize <= shrink_size
  PROVE  LET entries == Visited(got[p])
             new == Shrunk(p, Bytes(entries))
         IN  /\ IsLog(new) /\ Ordered(new)
             /\ event[p].id = EndLog => UpTo(new, m)
             /\ event[p].id # EndLog => /\ UpTo(new, event[p].id)
                                        /\ EndsWith(new, event[p])
             /\ Listed(got[p]) \subseteq Listed(new)
                  \cup Ids(SubSeq(entries, 1, Skipped(entries, shrink_size)))
  <1> DEFINE r == Visited(got[p])
             n == Skipped(r, shrink_size)
             first == SubSeq(r, 1, n)
             size == Bytes(r) - Bytes(first)
             kept == Layout(SubSeq(r, n + 1, Len(r)))
             noted == Put(kept, LogClear(size))
             last == [event[p] EXCEPT !.off = size + LogClearSize]
             new == Put(noted, last)
  <1>1. Row(r) /\ Len(r) \in Nat
    BY LogTypes DEF IsLog
  <1>2. /\ n \in 0 .. Len(r)
        /\ n = Len(r) \/ Bytes(first) >= shrink_size
    <2> HIDE DEF r
    <2>1. QED
      BY <1>1, LengthIsNat, SkippedEnough
  <1>3. /\ Bytes(r) \in Nat /\ Bytes(first) \in Nat /\ size \in Nat
        /\ n = Len(r) => size = 0
        /\ 8 + Bytes(r) < Length
    <2>1. Bytes(r) = EndOf(r)
      BY <1>1, BytesOfRow
    <2>2. 8 + Bytes(r) < Length
      BY LogTypes, LengthIsNat
    <2> HIDE DEF r, n
    <2>3. PICK ends \in [0 .. Len(r) -> Nat] :
            /\ ends[Len(r)] = EndOf(r)
            /\ \A l \in 0 .. Len(r) : Bytes(SubSeq(r, 1, l)) = ends[l]
            /\ \A l \in 0 .. Len(r), k \in 0 .. Len(r) :
                 l <= k => ends[l] <= ends[k]
      BY <1>1, RowSums
    <2>4. Bytes(first) = ends[n]
      BY <1>2, <2>3
    <2>5. Len(r) \in 0 .. Len(r) /\ n <= Len(r)
      BY <1>1, <1>2
    <2>6. ends[n] <= ends[Len(r)] /\ ends[n] \in Nat /\ ends[Len(r)] \in Nat
      BY <1>2, <2>3, <2>5
    <2> HIDE DEF first
    <2>7. QED
      BY <2>1, <2>2, <2>3, <2>4, <2>6
  <1>4. /\ IsLog(kept) /\ ~Corrupt(kept) /\ Ordered(kept) /\ UpTo(kept, m)
        /\ Bytes(Visited(kept)) = size
        /\ Listed(got[p]) \subseteq Listed(kept) \cup Ids(first)
    BY <1>2, KeptLog
  <1>5. Shrunk(p, Bytes(r)) = new
    BY DEF Shrunk
  <1> HIDE DEF r, n, first, size, kept
  <1>6. event[p].len \in Nat
    BY AnyTypes
  <1>7. /\ 8 + size + 13 + event[p].len < Length
        /\ size \in 0 .. Length /\ size + 13 \in 0 .. Length
    <2>1. /\ \A a, b, c, d, e \in Nat :
               8 + a < e /\ c <= b /\ d + 13 <= c => 8 + (a - b) + 13 + d < e
          /\ \A b, c, d, e \in Nat :
               8 + b < e /\ c <= b /\ d + 13 <= c => 8 + 0 + 13 + d < e
      OBVIOUS
    <2>2. /\ event[p].len + 13 <= shrink_size /\ event[p].len \in Nat
          /\ shrink_size \in Nat /\ full_threshold \in Nat /\ Length \in Nat
          /\ shrink_size <= full_threshold /\ 8 + full_threshold < Length
      BY <1>6, LengthIsNat
    <2>3. n = Len(r) => 8 + size + 13 + event[p].len < Length
      BY <1>3, <2>1, <2>2
    <2>4. Bytes(first) >= shrink_size
            => 8 + size + 13 + event[p].len < Length
      BY <1>3, <2>1, <2>2 DEF size
    <2>5. 8 + size + 13 + event[p].len < Length
      BY <1>2, <2>3, <2>4
    <2>6. \A a, b, c \in Nat : 8 + a + 13 + b < c
                               => a \in 0 .. c /\ a + 13 \in 0 .. c
      OBVIOUS
    <2>7. size \in 0 .. Length /\ size + 13 \in 0 .. Length
      BY <1>3, <2>2, <2>5, <2>6
    <2>8. QED
      BY <2>5, <2>7
  <1>8. /\ LogClear(size) \in Entries /\ LogClear(size).off = size
        /\ LogClear(size).len = 13 /\ LogClear(size).id = 0
    <2>1. 0 \in 0 .. MaxEvents /\ 13 \in {0} \cup (9 .. 255)
      BY LengthIsNat
    <2>2. QED
      BY <1>7, <2>1, LengthIsNat DEF LogClear, Entry, Entries
  <1>9. /\ last.off = size + 13
        /\ last.len = event[p].len /\ last.id = event[p].id
        /\ event[p].id = EndLog => last \in EndEntries
        /\ event[p].id # EndLog => last \in Entries
    <2>1. /\ event[p].id = EndLog => event[p] \in EndEntries
          /\ event[p].id # EndLog => event[p] \in Entries
      BY AnyTypes
    <2>2. last.off = size + 13 /\ last.len = event[p].len
          /\ last.id = event[p].id
      BY <2>1, LengthIsNat DEF Entries, EndEntries
    <2>3. event[p] \in Entries => last \in Entries
      BY <1>7, LengthIsNat DEF Entries
    <2>4. event[p] \in EndEntries => last \in EndEntries
      BY <1>7, LengthIsNat DEF EndEntries
    <2> HIDE DEF last
    <2>5. QED
      BY <2>1, <2>2, <2>3, <2>4
  <1> HIDE DEF last
  <1>10. data_offset + LogClear(size).off + LogClear(size).len < Length
    BY <1>3, <1>6, <1>7, <1>8, LengthIsNat
  <1>11. /\ IsLog(noted) /\ ~Corrupt(noted)
         /\ Bytes(Visited(noted)) = size + 13
         /\ Listed(kept) \subseteq Listed(noted)
    BY <1>4, <1>8, <1>10, AddedLog
  <1>12. Ordered(noted) /\ UpTo(noted, m)
    BY <1>4, <1>8, <1>10, AddedOrder
  <1> HIDE DEF noted
  <1>13. data_offset + last.off + last.len < Length
    BY <1>3, <1>6, <1>7, <1>9, LengthIsNat
  <1>14. CASE event[p].id # EndLog
    <2>1. /\ IsLog(new) /\ EndsWith(new, last)
          /\ Listed(noted) \subseteq Listed(new)
      BY <1>9, <1>11, <1>13, <1>14, AddedLog
    <2>2. event[p].id > m /\ event[p].id # 0
      <3>1. event[p].id \in Nat
        BY <1>9, <1>14, EntryTypes
      <3>2. QED
        BY <1>14, <3>1
    <2>3. Ordered(new) /\ UpTo(new, event[p].id)
      BY <1>9, <1>11, <1>12, <1>13, <1>14, <2>2, AddedOrder
    <2>4. EndsWith(new, event[p])
      BY <1>9, <2>1 DEF EndsWith
    <2> HIDE DEF new
    <2>5. QED
      BY <1>4, <1>5, <1>11, <1>14, <2>1, <2>3, <2>4 DEF r, n, first
  <1>15. CASE event[p].id = EndLog
    <2>1. IsLog(new) /\ Visited(new) = Visited(noted)
      BY <1>9, <1>11, <1>13, <1>15, EndedLog
    <2> HIDE DEF new
    <2>2. /\ Ordered(new) /\ UpTo(new, m)
          /\ Listed(new) = Listed(noted)
      BY <1>12, <2>1 DEF Ordered, UpTo, Listed
    <2>3. QED
      BY <1>4, <1>5, <1>11, <1>15, <2>1, <2>2 DEF r, n, first
  <1>16. QED
    BY <1>14, <1>15

(* The log the firmware has left.                                          *)
LEMMA FirmwareLog ==
  ASSUME NEW log \in InitialLogs
  PROVE  LET image == Layout(Numbered(log))
         IN  /\ IsLog(image) /\ Ordered(image) /\ UpTo(image, Len(log))
             /\ Len(log) \in 0 .. MaxEvents
             /\ Listed(image) \subseteq 1 .. Len(log)
  <1> DEFINE s == Numbered(log)
             n == Len(log)
  <1> DEFINE Lengths == {0} \cup (9 .. 255)
  <1>1. /\ log \in Seq(Lengths) /\ n <= MaxEvents
        /\ \A i \in 1 .. n - 1 : log[i] # 0
        /\ data_offset + Bytes(s) < Length
    BY InitialLogsAssumption
  <1>2. \A l \in Lengths : l \in Nat
    OBVIOUS
  <1>3. \A k \in 0 .. MaxEvents, l \in Lengths : Entry(0, l, k) \in Entries
    BY LengthIsNat DEF Entry, Entries
  <1> HIDE DEF Lengths
  <1>4. /\ n \in Nat /\ DOMAIN log = 1 .. n
        /\ \A i \in 1 .. n : log[i] \in Lengths
    BY <1>1
  <1>5. /\ s \in Seq(Entries) /\ Len(s) = n
        /\ \A k \in 1 .. n : s[k].len = log[k] /\ s[k].id = k
        /\ \A k \in 1 .. n : s[k].len \in Nat
    <2>1. s = [i \in 1 .. n |-> Entry(0, log[i], i)]
      BY <1>4 DEF Numbered
    <2> HIDE DEF s, n
    <2>2. \A k \in 1 .. n : k \in 0 .. MaxEvents
      BY <1>1, <1>4, LengthIsNat
    <2>3. \A k \in 1 .. n : Entry(0, log[k], k) \in Entries
      BY <1>3, <1>4, <2>2
    <2>4. \A k \in 1 .. n : s[k] = Entry(0, log[k], k)
      BY <2>1
    <2>5. s \in Seq(Entries) /\ Len(s) = n
      BY <1>4, <2>1, <2>3
    <2>6. ASSUME NEW k \in 1 .. n
          PROVE  s[k].len = log[k] /\ s[k].id = k /\ s[k].len \in Nat
      <3>1. s[k].len = log[k] /\ s[k].id = k
        <4>1. s[k] = Entry(0, log[k], k)
          BY <2>4
        <4>2. \A l, i : Entry(0, l, i).len = l /\ Entry(0, l, i).id = i
          BY DEF Entry
        <4>3. QED
          BY <4>1, <4>2
      <3>2. log[k] \in Nat
        BY <1>2, <1>4
      <3>3. QED
        BY <3>1, <3>2
    <2>7. QED
      BY <2>5, <2>6
  <1> DEFINE step == [k \in 1 .. n |-> [sum \in Nat |-> sum + s[k].len]]
  <1>6. step \in [1 .. n -> [Nat -> Nat]] /\ 0 \in Nat
    BY <1>5
  <1>7. \A k \in 1 .. n, b \in Nat : step[k][b] = b + s[k].len
    OBVIOUS
  <1> HIDE DEF step, s, n
  <1>8. PICK ends : StepsBy(ends, 0, Nat, n, step)
    BY <1>4, <1>6, StepsExist
  <1>9. /\ ends \in [0 .. n -> Nat] /\ ends[0] = 0
        /\ \A k \in 1 .. n : ends[k] = ends[k - 1] + s[k].len
    <2>1. \A k \in 1 .. n : k - 1 \in 0 .. n
      BY <1>4
    <2>2. QED
      BY <1>7, <1>8, <2>1 DEF StepsBy
  <1>10. Bytes(s) = ends[n]
    <2>1. DOMAIN s = 1 .. n /\ \A k \in 1 .. n : s[k].len \in Nat
      BY <1>5
    <2>2. QED
      BY <1>4, <1>9, <2>1, BytesSteps
  (* The sums ascend.                                                      *)
  <1>11. ASSUME NEW k \in 0 .. n
         PROVE  ends[k] <= ends[n]
    <2> DEFINE S == {d \in 0 .. n : ~(ends[n - d] <= ends[n])}
    <2>1. ASSUME S # {} PROVE FALSE
      <3>1. S \in SUBSET Nat
        BY <1>4
      <3>2. PICK d \in S : \A l \in S : d <= l
        <4> HIDE DEF S
        <4>1. QED
          BY <2>1, <3>1, LeastElement
      <3>3. d \in 0 .. n /\ ~(ends[n - d] <= ends[n])
        OBVIOUS
      <3>4. d # 0
        BY <1>4, <1>9, <3>3
      <3>5. /\ d - 1 \in 0 .. n /\ ~(d <= d - 1) /\ n - d + 1 \in 1 .. n
            /\ n - (d - 1) = n - d + 1 /\ (n - d + 1) - 1 = n - d
            /\ n - d \in 0 .. n /\ n - d + 1 \in 0 .. n /\ n \in 0 .. n
        BY <1>4, <3>3, <3>4
      <3>6. ends[n - d + 1] <= ends[n]
        <4>1. d - 1 \notin S
          <5> HIDE DEF S
          <5>1. QED
            BY <3>2, <3>5
        <4>2. QED
          BY <3>5, <4>1
      <3>7. ends[n - d + 1] = ends[n - d] + s[n - d + 1].len
        BY <1>9, <3>5
      <3>8. /\ ends[n - d] \in Nat /\ ends[n - d + 1] \in Nat
            /\ ends[n] \in Nat /\ s[n - d + 1].len \in Nat
        BY <1>5, <1>9, <3>5
      <3>9. QED
        BY <3>3, <3>6, <3>7, <3>8
    <2>2. n - k \in 0 .. n /\ n - (n - k) = k
      BY <1>4
    <2>3. n - k \notin S
      <3> HIDE DEF S
      <3>1. QED
        BY <2>1
    <2>4. QED
      BY <2>2, <2>3
  <1>12. ASSUME NEW k \in 1 .. n
         PROVE  data_offset + ends[k] < Length
    <2>1. k \in 0 .. n /\ n \in 0 .. n
      BY <1>4
    <2>2. ends[k] <= ends[n] /\ ends[k] \in Nat /\ ends[n] \in Nat
      BY <1>9, <1>11, <2>1
    <2>3. QED
      BY <1>1, <1>10, <2>2, LengthIsNat
  <1>13. \A k \in 1 .. n : k # n => s[k].len # 0
    <2>1. \A k \in 1 .. n : k # n => k \in 1 .. n - 1
      BY <1>4
    <2>2. QED
      BY <1>1, <1>5, <2>1
  <1>14. PICK r : /\ Row(r) /\ Len(r) = n /\ Layout(s) = ImageOf(r)
                  /\ \A k \in 1 .. n : r[k].id = k
    <2>1. LaidOut(s, n, ends)
      BY <1>4, <1>5, <1>9, <1>12, <1>13, LayoutIsRow
    <2>2. QED
      BY <1>5, <2>1 DEF LaidOut
  <1> DEFINE image == Layout(s)
  <1>15. IsLog(image) /\ Visited(image) = r
    BY <1>14, LogOfRow
  <1>16. DOMAIN r = 1 .. n
    BY <1>14, RowTypes
  <1> HIDE DEF image
  <1>17. Ordered(image)
    BY <1>14, <1>15, <1>16 DEF Ordered, Sound
  <1>18. UpTo(image, n)
    BY <1>4, <1>14, <1>15, <1>16 DEF UpTo
  <1>19. Listed(image) \subseteq 1 .. n
    BY <1>14, <1>15, <1>16 DEF Listed, Sound
  <1>20. n \in 0 .. MaxEvents
    BY <1>1, <1>4, LengthIsNat
  <1>21. QED
    BY <1>15, <1>17, <1>18, <1>19, <1>20 DEF image, s, n

(* Where every entry that fits the shrunk log leaves room for the note that *)
(* entries have gone.                                                      *)
RoomForNote ==
  \A size \in EventSizes :
    size <= shrink_size => size + LogClearSize <= shrink_size

LEMMA EventLengths ==
  ASSUME NEW size \in EventSizes, size <= 255
  PROVE  size \in 9 .. 255 /\ size \in {0} \cup (9 .. 255)
  BY EventLogAssumption

LEMMA EntryParts ==
  ASSUME NEW off, NEW len, NEW id
  PROVE  /\ Entry(off, len, id).off = off /\ Entry(off, len, id).len = len
         /\ Entry(off, len, id).id = id
  BY DEF Entry

LEMMA NoteIsEntry == LogClear(0) \in Entries /\ LogClear(0).id = 0
  <1>1. Visited({LogClear(0)}) = <<LogClear(0)>>
        /\ IsLog({LogClear(0)})
    BY ClearedLog
  <1>2. LogClear(0) \in Entries
    BY <1>1, LogTypes
  <1>3. QED
    BY <1>2, EntryParts DEF LogClear

LEMMA ElogInit ==
  ASSUME NEW p, Procs = {p}, Init
  PROVE  ElogInv
  <1>1. PICK log \in InitialLogs :
          /\ flash = Layout(Numbered(log))
          /\ used = Len(log) /\ added = Listed(flash)
    BY DEF Init
  <1>2. /\ IsLog(flash) /\ Ordered(flash) /\ UpTo(flash, used)
        /\ used \in 0 .. MaxEvents /\ added \subseteq 1 .. used
    BY <1>1, FirmwareLog
  <1>3. FlashInv
    BY <1>1, <1>2 DEF FlashInv, NoEventLost
  <1>4. TypeOK
    <2>1. LockTypeOK
      BY DEF Init, LockInit, LockTypeOK
    <2>2. flash \subseteq AnyEntries
      BY <1>2, LogTypes
    <2>3. added \cup dropped \subseteq 1 .. MaxEvents
      <3>1. \A m \in Nat : \A k \in 0 .. m : 1 .. k \subseteq 1 .. m
        OBVIOUS
      <3>2. 1 .. used \subseteq 1 .. MaxEvents
        BY <1>2, <3>1, LengthIsNat
      <3>3. dropped = {}
        BY DEF Init
      <3>4. QED
        BY <1>2, <3>2, <3>3
    <2>4. /\ pc \in [Procs -> Steps] /\ stage \in [Procs -> Stages]
          /\ op \in [Procs -> {"add", "clear"}]
          /\ result \in [Procs -> {"none", "ok", "failed"}]
      BY DEF Init, Steps, Stages
    <2>5. /\ event \in [Procs -> AnyEntries]
          /\ events_size \in [Procs -> 0 .. Length]
      BY NoteIsEntry, LengthIsNat DEF Init, AnyEntries
    <2>6. /\ got \in [Procs -> {NoImage} \cup SUBSET AnyEntries]
          /\ data \in [Procs -> SUBSET AnyEntries]
          /\ cut \in [Procs -> SUBSET (1 .. MaxEvents)]
      BY DEF Init, ErasedImage
    <2>7. last_writer \in Procs \cup {NoProc}
      BY DEF Init
    <2>8. QED
      BY <1>2, <2>1, <2>2, <2>3, <2>4, <2>5, <2>6, <2>7 DEF TypeOK
  <1>5. ASSUME NEW q \in Procs
        PROVE  EventInv(q) /\ ReadInv(q) /\ WriteInv(q)
    <2>1. /\ pc[q] = "idle" /\ stage[q] = "fetch" /\ op[q] = "add"
          /\ data[q] = ErasedImage /\ result[q] = "none" /\ got[q] = NoImage
      BY DEF Init
    <2>2. QED
      BY <2>1, EmptyLog
      DEF EventInv, ReadInv, WriteInv, Running, HasRead
  <1>6. QED
    BY <1>3, <1>4, <1>5 DEF ElogInv

ElogCore(p) == FlashInv /\ EventInv(p) /\ ReadInv(p) /\ WriteInv(p)

LEMMA ElogTypes ==
  ASSUME NEW p \in Procs, TypeOK, ElogCore(p)
  PROVE  /\ pc \in [Procs -> Steps] /\ stage \in [Procs -> Stages]
         /\ op \in [Procs -> {"add", "clear"}]
         /\ event \in [Procs -> AnyEntries]
         /\ got \in [Procs -> {NoImage} \cup SUBSET AnyEntries]
         /\ data \in [Procs -> SUBSET AnyEntries]
         /\ cut \in [Procs -> SUBSET (1 .. MaxEvents)]
         /\ events_size \in [Procs -> 0 .. Length]
         /\ result \in [Procs -> {"none", "ok", "failed"}]
         /\ used \in Nat /\ used \in 0 .. MaxEvents
  BY LengthIsNat DEF TypeOK

(* A command starts: nothing is in hand, and an event gets a new id.       *)
LEMMA StartsKeep ==
  ASSUME NEW p \in Procs, TypeOK, ElogCore(p),
         \/ \E size \in EventSizes, id \in {used + 1, EndLog} :
              StartAdd(p, size, id)
         \/ StartClear(p)
  PROVE  ElogCore(p)'
  <1>1. /\ pc[p] = "idle" /\ flash' = flash /\ got' = got /\ data' = data
        /\ added' = added /\ dropped' = dropped
        /\ events_size' = events_size
        /\ pc'[p] = "drop" /\ stage'[p] = "fetch" /\ result'[p] = "none"
    BY ElogTypes DEF StartAdd, StartClear, Starts, Access, Goto
  <1>2. IsLog(flash) /\ Ordered(flash) /\ UpTo(flash, used)
    BY DEF ElogCore, FlashInv
  <1>3. WriteInv(p)'
    BY <1>1 DEF ElogCore, WriteInv, HasRead, Running
  <1>4. CASE \E size \in EventSizes, id \in {used + 1, EndLog} :
              StartAdd(p, size, id)
    <2>1. PICK size \in EventSizes, id \in {used + 1, EndLog} :
            /\ op'[p] = "add" /\ event'[p] = Entry(0, size, id)
            /\ used' = used + 1 /\ size <= 255
            /\ id = EndLog => size = EndLogSize
      BY <1>4, ElogTypes, LengthIsNat DEF StartAdd, Starts
    <2>2. EventInv(p)'
      <3>1. /\ event'[p].len = size /\ event'[p].id = id
            /\ size \in 9 .. 255 /\ used + 1 # 0
        BY <2>1, EntryParts, EventLengths, ElogTypes
      <3>2. /\ \/ event'[p].id = used'
               \/ event'[p].id = EndLog /\ event'[p].len = EndLogSize
            /\ used' # 0 /\ op'[p] # "clear"
            /\ stage'[p] \notin {"skip", "size", "copy"}
            /\ event'[p].len \in EventSizes /\ event'[p].len \in 9 .. 255
        BY <1>1, <2>1, <3>1
      <3>3. QED
        BY <3>2 DEF EventInv
    <2>3. used' - 1 = used
      BY <2>1, ElogTypes
    <2>4. ReadInv(p)'
      BY <1>1, <1>2, <2>1, <2>3 DEF ReadInv, HasRead, Running
    <2>5. UpTo(flash, used + 1)
      <3>1. used + 1 \in Int /\ (used + 1) - 1 = used
        BY ElogTypes
      <3>2. QED
        BY <1>2, <3>1, UpToMore
    <2>6. added \subseteq 1 .. used + 1
      <3>1. \A n \in Nat : 1 .. n \subseteq 1 .. n + 1
        OBVIOUS
      <3>2. QED
        BY <3>1, ElogTypes DEF ElogCore, FlashInv
    <2>7. FlashInv'
      BY <1>1, <1>2, <2>1, <2>5, <2>6 DEF ElogCore, FlashInv, NoEventLost
    <2>8. QED
      BY <1>3, <2>2, <2>4, <2>7 DEF ElogCore
  <1>5. CASE StartClear(p)
    <2>1. /\ op'[p] = "clear" /\ event'[p] = LogClear(0) /\ used' = used
      BY <1>5, ElogTypes DEF StartClear, Starts
    <2>2. EventInv(p)'
      BY <1>1, <2>1, NoteIsEntry DEF EventInv
    <2>3. ReadInv(p)'
      BY <1>1, <2>1 DEF ReadInv, HasRead, Running
    <2>4. FlashInv'
      BY <1>1, <2>1 DEF ElogCore, FlashInv, NoEventLost
    <2>5. QED
      BY <1>3, <2>2, <2>3, <2>4 DEF ElogCore
  <1>6. QED
    BY <1>4, <1>5

(* The lock goes and comes back; flashrom reads, or fails.                 *)
LEMMA AccessKeeps ==
  ASSUME NEW p \in Procs, TypeOK, ElogCore(p),
         Drop(p) \/ ToolReads(p) \/ Retake(p) \/ AccessFails(p)
  PROVE  ElogCore(p)'
  <1>1. /\ flash' = flash /\ stage' = stage /\ op' = op /\ event' = event
        /\ data' = data /\ events_size' = events_size /\ result' = result
        /\ used' = used /\ added' = added /\ cut' = cut
        /\ dropped' = dropped
    BY DEF Drop, ToolReads, Retake, AccessFails, cmdVars
  <1>2. Running(p) /\ Running(p)'
    BY ElogTypes DEF Drop, ToolReads, Retake, AccessFails, Goto, Running
  <1>3. FlashInv'
    BY <1>1 DEF ElogCore, FlashInv, NoEventLost
  <1>4. EventInv(p)'
    BY <1>1, <1>2 DEF ElogCore, EventInv, Running
  <1>5. HasRead(p)' => \/ HasRead(p) /\ got' = got
                       \/ got'[p] = flash /\ stage[p] # "write"
    BY ElogTypes DEF Drop, ToolReads, Retake, AccessFails, Goto, HasRead,
                     cmdVars
  <1>6. ReadInv(p)'
    BY <1>1, <1>2, <1>5 DEF ElogCore, ReadInv
  <1>7. pc'[p] \in {"drop", "tool"} => pc[p] \in {"drop", "tool"}
    BY ElogTypes DEF Drop, ToolReads, Retake, AccessFails, Goto
  <1>8. WriteInv(p)'
    BY <1>1, <1>2, <1>5, <1>7 DEF ElogCore, WriteInv
  <1>9. QED
    BY <1>3, <1>4, <1>6, <1>8 DEF ElogCore

(* flashrom writes the image.                                              *)
LEMMA WriteKeeps ==
  ASSUME NEW p \in Procs, TypeOK, ElogCore(p), ToolWrites(p)
  PROVE  ElogCore(p)'
  <1>1. /\ pc[p] = "tool" /\ stage[p] = "write" /\ flash' = data[p]
        /\ stage' = stage /\ op' = op /\ event' = event /\ data' = data
        /\ events_size' = events_size /\ result' = result /\ used' = used
        /\ added' = added /\ cut' = cut
        /\ dropped' = dropped \cup cut[p] /\ pc'[p] = "retake"
    BY ElogTypes DEF ToolWrites, Goto
  <1>2. /\ IsLog(data[p]) /\ Ordered(data[p]) /\ UpTo(data[p], used)
        /\ added \subseteq Listed(data[p]) \cup dropped \cup cut[p]
        /\ op[p] = "add" /\ event[p].id # EndLog => EndsWith(data[p], event[p])
        /\ result[p] # "ok"
    BY <1>1 DEF ElogCore, WriteInv, Running
  <1>3. FlashInv'
    BY <1>1, <1>2 DEF ElogCore, FlashInv, NoEventLost
  <1>4. EventInv(p)'
    BY <1>1 DEF ElogCore, EventInv
  <1>5. ReadInv(p)'
    BY <1>1 DEF ReadInv
  <1>6. WriteInv(p)'
    BY <1>1, <1>2 DEF WriteInv
  <1>7. QED
    BY <1>3, <1>4, <1>5, <1>6 DEF ElogCore

(* The command ends, with the flash as it is.                              *)
LEMMA EndKeeps ==
  ASSUME NEW p \in Procs, TypeOK, ElogCore(p),
         Written(p) \/ Fail(p) \/ End(p)
  PROVE  ElogCore(p)'
  <1>1. /\ flash' = flash /\ stage' = stage /\ op' = op /\ event' = event
        /\ used' = used /\ dropped' = dropped
        /\ pc'[p] \in {"end", "idle"} /\ pc[p] # "idle"
        /\ pc[p] = "end" \/ pc'[p] = "end"
    BY ElogTypes DEF Written, Fail, End, Fails, Goto
  <1>2. /\ ~Running(p)' /\ ~HasRead(p)'
    BY <1>1 DEF Running, HasRead
  <1>3. IsLog(data[p])'
    BY EmptyLog, ElogTypes
    DEF ElogCore, WriteInv, Written, Fail, End
  <1>4. /\ result'[p] = "ok"
             => \/ result[p] = "ok"
                \/ stage[p] = "write" /\ HasRead(p)
        /\ \/ added' = added
           \/ /\ added' = added \cup ({event[p].id} \ {0, EndLog})
              /\ stage[p] = "write" /\ HasRead(p)
    <2>1. CASE Written(p)
      <3>1. stage[p] = "write" => HasRead(p)
        BY <2>1 DEF Written, HasRead
      <3>2. CASE stage[p] = "write"
        BY <2>1, <3>1, <3>2 DEF Written
      <3>3. QED
        BY <2>1, <3>2 DEF Written
    <2>2. CASE Fail(p)
      BY <2>2, ElogTypes DEF Fail, Fails
    <2>3. CASE End(p)
      BY <2>3 DEF End
    <2>4. QED
      BY <2>1, <2>2, <2>3
  <1>5. stage[p] = "write" /\ HasRead(p) /\ op[p] = "add"
             /\ event[p].id # EndLog
          => EndsWith(flash, event[p])
    BY DEF ElogCore, WriteInv
  <1>6. EventInv(p)'
    BY <1>1 DEF ElogCore, EventInv
  <1>7. ReadInv(p)'
    BY <1>2 DEF ReadInv
  <1>8. WriteInv(p)'
    BY <1>1, <1>2, <1>3, <1>4, <1>5 DEF ElogCore, WriteInv
  <1>9. FlashInv'
    <2>1. /\ IsLog(flash) /\ Ordered(flash) /\ UpTo(flash, used)
          /\ added \subseteq 1 .. used
          /\ added \subseteq Listed(flash) \cup dropped
      BY DEF ElogCore, FlashInv, NoEventLost
    <2>2. ASSUME stage[p] = "write", HasRead(p), event[p].id # 0,
                 event[p].id # EndLog
          PROVE  event[p].id \in Listed(flash) /\ event[p].id \in 1 .. used
      <3>1. op[p] = "add"
        BY <2>2, ElogTypes DEF ElogCore, EventInv
      <3>2. EndsWith(flash, event[p])
        BY <1>5, <2>2, <3>1
      <3>3. /\ Len(Visited(flash)) \in 1 .. Len(Visited(flash))
            /\ DOMAIN Visited(flash) = 1 .. Len(Visited(flash))
        <4> DEFINE r == Visited(flash)
        <4>1. r \in Seq(Entries) /\ r # <<>>
          BY <2>1, <3>2, LogTypes DEF EndsWith
        <4> HIDE DEF r
        <4>2. Len(r) \in 1 .. Len(r) /\ DOMAIN r = 1 .. Len(r)
          BY <4>1
        <4>3. QED
          BY <4>2 DEF r
      <3>4. event[p].id \in Listed(flash)
        BY <2>2, <3>2, <3>3 DEF EndsWith, Last, Listed, Sound
      <3>5. event[p].id = used
        BY <1>1, <2>2, <3>1 DEF ElogCore, EventInv
      <3>6. QED
        BY <2>2, <3>4, <3>5, ElogTypes
    <2>3. /\ added' \subseteq 1 .. used
          /\ added' \subseteq Listed(flash) \cup dropped
      BY <1>4, <2>1, <2>2
    <2>4. QED
      BY <1>1, <2>1, <2>3 DEF FlashInv, NoEventLost
  <1>10. QED
    BY <1>6, <1>7, <1>8, <1>9 DEF ElogCore

(* The first fetch, whose image the event will go in.                      *)
LEMMA FetchedKeeps ==
  ASSUME NEW p \in Procs, TypeOK, ElogCore(p), Fetched(p)
  PROVE  ElogCore(p)'
  <1>1. /\ pc[p] = "use" /\ stage[p] = "fetch" /\ HasRead(p) /\ got[p] = flash
        /\ Running(p) /\ result[p] # "ok"
    BY DEF Fetched, Uses, HasRead, Running, ElogCore, ReadInv, WriteInv
  <1>2. /\ flash' = flash /\ op' = op /\ event' = event /\ used' = used
        /\ added' = added /\ dropped' = dropped
    BY DEF Fetched, Uses
  <1>3. /\ op[p] = "add" => event[p].len \in 9 .. 255 /\ UpTo(flash, used - 1)
        /\ IsLog(flash) /\ IsLog(data[p])
    BY <1>1 DEF ElogCore, EventInv, ReadInv, WriteInv, FlashInv
  <1>4. \/ /\ op[p] = "add" /\ event[p].len <= shrink_size
           /\ data'[p] = flash /\ stage'[p] = "size" /\ pc'[p] = "drop"
           /\ result' = result
        \/ /\ data' = data /\ stage'[p] = "fetch" /\ pc'[p] = "end"
           /\ result'[p] = "failed"
        \/ /\ op[p] = "clear" /\ data'[p] = ErasedImage
           /\ stage'[p] = "skip" /\ pc'[p] = "drop" /\ result' = result
    BY <1>1, ElogTypes DEF Fetched, Fails, Access, Goto
  <1>5. IsLog(data'[p])
    BY <1>3, <1>4, EmptyLog
  <1>6. FlashInv'
    BY <1>2 DEF ElogCore, FlashInv, NoEventLost
  <1>7. EventInv(p)'
    BY <1>1, <1>2, <1>4 DEF ElogCore, EventInv
  <1>8. ReadInv(p)'
    BY <1>1, <1>2, <1>3, <1>4 DEF ReadInv, Running, HasRead
  <1>9. WriteInv(p)'
    BY <1>1, <1>2, <1>4, <1>5 DEF WriteInv
  <1>10. QED
    BY <1>6, <1>7, <1>8, <1>9 DEF ElogCore

(* An event where the entries end, if the log does not become too long.    *)
LEMMA SizedKeeps ==
  ASSUME NEW p \in Procs, TypeOK, ElogCore(p), Sized(p)
  PROVE  ElogCore(p)'
  <1> DEFINE size == Bytes(Visited(flash))
             last == [event[p] EXCEPT !.off = size]
             new == Put(flash, last)
  <1>1. /\ pc[p] = "use" /\ stage[p] = "size" /\ HasRead(p) /\ got[p] = flash
        /\ Running(p) /\ result[p] # "ok"
    BY DEF Sized, Uses, HasRead, Running, ElogCore, ReadInv, WriteInv
  <1>2. /\ flash' = flash /\ op' = op /\ event' = event /\ used' = used
        /\ added' = added /\ dropped' = dropped /\ cut' = cut
    BY DEF Sized, Uses
  <1>3. /\ op[p] = "add" /\ event[p].len \in 9 .. 255
        /\ event[p].id = used \/ event[p].id = EndLog
        /\ used # 0 /\ UpTo(flash, used - 1)
        /\ IsLog(flash) /\ IsLog(data[p]) /\ Ordered(flash)
        /\ data[p] = flash /\ event[p].len <= shrink_size
        /\ added \subseteq Listed(flash) \cup dropped
    BY <1>1 DEF ElogCore, EventInv, ReadInv, WriteInv, FlashInv, NoEventLost
  <1>4. \/ /\ ~Corrupt(flash) /\ size + event[p].len <= full_threshold
           /\ data'[p] = new /\ stage'[p] = "write" /\ pc'[p] = "drop"
           /\ result' = result
        \/ /\ ~Corrupt(flash) /\ events_size'[p] = size
           /\ data' = data /\ stage'[p] = "copy" /\ pc'[p] = "drop"
           /\ result' = result
        \/ /\ data' = data /\ stage'[p] = "size" /\ pc'[p] = "end"
           /\ result'[p] = "failed"
    BY <1>1, <1>3, ElogTypes DEF Sized, Fails, Access, Goto
  <1>5. ASSUME ~Corrupt(flash), size + event[p].len <= full_threshold
        PROVE  /\ IsLog(new) /\ Ordered(new) /\ UpTo(new, used)
               /\ added \subseteq Listed(new) \cup dropped \cup cut[p]
               /\ event[p].id # EndLog => EndsWith(new, event[p])
    <2>1. /\ size \in Nat /\ 8 + size < Length
          /\ event[p].id = EndLog => event[p] \in EndEntries
          /\ event[p].id # EndLog => event[p] \in Entries
          /\ event[p].len \in Nat /\ event[p].len # 0 /\ used - 1 \in Nat
      <3>1. /\ event[p].id = EndLog => event[p] \in EndEntries
            /\ event[p].id # EndLog => event[p] \in Entries
            /\ used \in Nat
        BY ElogTypes, AnyTypes
      <3>2. \A l \in 9 .. 255 : l \in Nat /\ l # 0
        OBVIOUS
      <3>3. size \in Nat /\ 8 + size < Length
        BY <1>3, LogTypes, LengthIsNat
      <3>4. used - 1 \in Nat
        BY <1>3, <3>1
      <3> HIDE DEF size
      <3>5. QED
        BY <1>3, <3>1, <3>2, <3>3, <3>4
    <2>2. /\ last.off = size /\ last.len = event[p].len
          /\ last.id = event[p].id
          /\ event[p].id = EndLog => last \in EndEntries
          /\ event[p].id # EndLog => last \in Entries
      <3>1. size \in 0 .. Length
        BY <2>1, LengthIsNat
      <3> HIDE DEF size
      <3>2. event[p] \in Entries => last \in Entries
        BY <3>1 DEF Entries
      <3>3. event[p] \in EndEntries => last \in EndEntries
        BY <3>1 DEF EndEntries
      <3>4. /\ last.off = size /\ last.len = event[p].len
            /\ last.id = event[p].id
        BY <2>1 DEF Entries, EndEntries
      <3>5. QED
        BY <2>1, <3>2, <3>3, <3>4
    <2>3. data_offset + last.off + last.len < Length
      <3> HIDE DEF last, size
      <3>1. \A a, b, c, l \in Nat : a + b <= c /\ c + 8 < l => 8 + a + b < l
        OBVIOUS
      <3>2. QED
        BY <1>5, <2>1, <2>2, <3>1, LengthIsNat
    <2>4. last.len # 0 /\ last.off = Bytes(Visited(flash))
      BY <1>3, <2>1, <2>2
    <2> HIDE DEF last, size
    <2>5. CASE event[p].id # EndLog
      <3>1. last.id = used /\ last \in Entries
        BY <1>3, <2>2, <2>5
      <3>2. /\ IsLog(new) /\ EndsWith(new, last)
            /\ Listed(flash) \subseteq Listed(new)
        BY <1>3, <1>5, <2>3, <2>4, <3>1, AddedLog
      <3>3. last.id > used - 1 /\ last.id # 0
        BY <1>3, <3>1, ElogTypes
      <3>4. /\ UpTo(new, IF last.id = 0 THEN used - 1 ELSE last.id)
            /\ Ordered(new)
        BY <1>3, <1>5, <2>1, <2>3, <2>4, <3>1, <3>3, AddedOrder
      <3>5. UpTo(new, used)
        BY <3>1, <3>3, <3>4
      <3>6. EndsWith(new, event[p])
        BY <2>2, <3>2 DEF EndsWith
      <3>7. QED
        BY <1>3, <3>2, <3>4, <3>5, <3>6
    <2>6. CASE event[p].id = EndLog
      <3>1. IsLog(new) /\ Visited(new) = Visited(flash)
        BY <1>3, <2>2, <2>3, <2>4, <2>6, EndedLog
      <3> HIDE DEF new
      <3>2. /\ Ordered(new) /\ UpTo(new, used - 1)
            /\ Listed(new) = Listed(flash)
        BY <1>3, <3>1 DEF Ordered, UpTo, Listed
      <3>3. UpTo(new, used)
        BY <3>1, <3>2, UpToMore, ElogTypes
      <3>4. added \subseteq Listed(new) \cup dropped \cup cut[p]
        BY <1>3, <3>2
      <3>5. QED
        BY <2>6, <3>1, <3>2, <3>3, <3>4
    <2>7. QED
      BY <2>5, <2>6
  <1> HIDE DEF new
  <1>6. IsLog(data'[p])
    BY <1>3, <1>4, <1>5
  <1>7. FlashInv'
    BY <1>2 DEF ElogCore, FlashInv, NoEventLost
  <1>8. EventInv(p)'
    BY <1>1, <1>2, <1>3, <1>4 DEF ElogCore, EventInv
  <1>9. ReadInv(p)'
    BY <1>1, <1>2, <1>3, <1>4 DEF ReadInv, Running, HasRead
  <1>10. WriteInv(p)'
    BY <1>1, <1>2, <1>4, <1>5, <1>6 DEF WriteInv, Running, HasRead
  <1>11. QED
    BY <1>7, <1>8, <1>9, <1>10 DEF ElogCore

(* What is kept of a log that has become too long, and the event.          *)
LEMMA CopiedKeeps ==
  ASSUME NEW p \in Procs, TypeOK, ElogCore(p), RoomForNote, Copied(p)
  PROVE  ElogCore(p)'
  <1> DEFINE entries == Visited(flash)
             gone == Ids(SubSeq(entries, 1, Skipped(entries, shrink_size)))
             new == Shrunk(p, Bytes(entries))
  <1>1. /\ pc[p] = "use" /\ stage[p] = "copy" /\ HasRead(p) /\ got[p] = flash
        /\ Running(p) /\ result[p] # "ok"
    BY DEF Copied, Uses, HasRead, Running, ElogCore, ReadInv, WriteInv
  <1>2. /\ flash' = flash /\ op' = op /\ event' = event /\ used' = used
        /\ added' = added /\ dropped' = dropped
    BY DEF Copied, Uses
  <1>3. /\ op[p] = "add" /\ event[p].len \in 9 .. 255
        /\ event[p].id = used \/ event[p].id = EndLog
        /\ event[p].len \in EventSizes
        /\ used # 0 /\ UpTo(flash, used - 1)
        /\ IsLog(flash) /\ IsLog(data[p]) /\ Ordered(flash)
        /\ event[p].len <= shrink_size /\ ~Corrupt(flash)
        /\ events_size[p] = Bytes(entries)
        /\ added \subseteq Listed(flash) \cup dropped
    BY <1>1 DEF ElogCore, EventInv, ReadInv, WriteInv, FlashInv, NoEventLost
  <1>4. /\ data'[p] = new /\ cut'[p] = gone
        /\ stage'[p] = "write" /\ pc'[p] = "drop" /\ result' = result
    BY <1>1, <1>3, ElogTypes DEF Copied, Access, Goto
  <1>5. /\ IsLog(new) /\ Ordered(new) /\ UpTo(new, used)
        /\ added \subseteq Listed(new) \cup dropped \cup gone
        /\ event[p].id # EndLog => EndsWith(new, event[p])
    <2>1. event[p] \in AnyEntries /\ used \in Nat /\ used - 1 \in Nat
      BY <1>3, ElogTypes
    <2>2. /\ event[p].len # 0
          /\ event[p].id = EndLog \/ event[p].id > used - 1
      <3>1. \A l \in 9 .. 255 : l # 0
        OBVIOUS
      <3>2. QED
        BY <1>3, <2>1, <3>1
    <2>3. event[p].len + LogClearSize <= shrink_size
      BY <1>3 DEF RoomForNote
    <2> DEFINE m == used - 1
    <2>4. /\ IsLog(got[p]) /\ ~Corrupt(got[p]) /\ Ordered(got[p])
          /\ UpTo(got[p], m) /\ m \in Nat
          /\ event[p].id = EndLog \/ event[p].id > m
      BY <1>1, <1>3, <2>1, <2>2
    <2> HIDE DEF m
    <2>5. /\ IsLog(new) /\ Ordered(new)
          /\ event[p].id = EndLog => UpTo(new, m)
          /\ event[p].id # EndLog => /\ UpTo(new, event[p].id)
                                     /\ EndsWith(new, event[p])
          /\ Listed(got[p]) \subseteq Listed(new) \cup gone
      <3> DEFINE r == Visited(got[p])
      <3>1. r = entries
        BY <1>1
      <3>2. /\ IsLog(Shrunk(p, Bytes(r))) /\ Ordered(Shrunk(p, Bytes(r)))
            /\ event[p].id = EndLog => UpTo(Shrunk(p, Bytes(r)), m)
            /\ event[p].id # EndLog
                 => /\ UpTo(Shrunk(p, Bytes(r)), event[p].id)
                    /\ EndsWith(Shrunk(p, Bytes(r)), event[p])
            /\ Listed(got[p]) \subseteq Listed(Shrunk(p, Bytes(r)))
                 \cup Ids(SubSeq(r, 1, Skipped(r, shrink_size)))
        BY <2>1, <2>2, <2>3, <2>4, ShrunkLog
      <3> HIDE DEF r, entries
      <3>3. QED
        BY <3>1, <3>2
    <2> HIDE DEF new, gone
    <2>6. UpTo(new, used)
      <3>1. event[p].id = EndLog => UpTo(new, used)
        BY <2>1, <2>5, UpToMore DEF m
      <3>2. QED
        BY <1>3, <2>5, <3>1
    <2>7. QED
      BY <1>1, <1>3, <2>5, <2>6
  <1> HIDE DEF new, gone
  <1>6. FlashInv'
    BY <1>2 DEF ElogCore, FlashInv, NoEventLost
  <1>7. EventInv(p)'
    BY <1>1, <1>2, <1>3, <1>4 DEF ElogCore, EventInv
  <1>8. ReadInv(p)'
    BY <1>4 DEF ReadInv, HasRead
  <1>9. WriteInv(p)'
    BY <1>1, <1>2, <1>4, <1>5 DEF WriteInv, Running, HasRead
  <1>10. QED
    BY <1>6, <1>7, <1>8, <1>9 DEF ElogCore

(* The note that the log was cleared.                                      *)
LEMMA ClearedKeeps ==
  ASSUME NEW p \in Procs, TypeOK, ElogCore(p), Cleared(p)
  PROVE  ElogCore(p)'
  <1> DEFINE new == {LogClear(0)}
  <1>1. /\ pc[p] = "use" /\ stage[p] = "skip" /\ Running(p)
        /\ op[p] = "clear" /\ result[p] # "ok"
        /\ added \subseteq 1 .. used
    BY DEF Cleared, Running, ElogCore, EventInv, WriteInv, FlashInv
  <1>2. /\ flash' = flash /\ op' = op /\ event' = event /\ used' = used
        /\ added' = added /\ dropped' = dropped /\ result' = result
        /\ data'[p] = new /\ cut'[p] = 1 .. used
        /\ stage'[p] = "write" /\ pc'[p] = "drop"
    BY ElogTypes DEF Cleared, Access, Goto
  <1>3. IsLog(new) /\ Visited(new) = <<LogClear(0)>>
    BY ClearedLog
  <1>4. Ordered(new) /\ UpTo(new, used)
    <2>1. /\ DOMAIN <<LogClear(0)>> = 1 .. 1
          /\ <<LogClear(0)>>[1] = LogClear(0)
          /\ \A i \in 1 .. 1 : i = 1
      OBVIOUS
    <2> HIDE DEF new
    <2>2. QED
      BY <1>3, <2>1, NoteIsEntry, ElogTypes DEF Ordered, UpTo, Sound
  <1> HIDE DEF new
  <1>5. FlashInv'
    BY <1>2 DEF ElogCore, FlashInv, NoEventLost
  <1>6. EventInv(p)'
    BY <1>1, <1>2 DEF ElogCore, EventInv
  <1>7. ReadInv(p)'
    BY <1>1, <1>2 DEF ReadInv, HasRead
  <1>8. WriteInv(p)'
    BY <1>1, <1>2, <1>3, <1>4 DEF WriteInv, Running, HasRead
  <1>9. QED
    BY <1>5, <1>6, <1>7, <1>8 DEF ElogCore

(* The types.                                                              *)
LEMMA ElogTypesKept ==
  ASSUME NEW p, Procs = {p}, TypeOK, ElogCore(p), ElogCore(p)', Next
  PROVE  TypeOK'
  <1> p \in Procs
    OBVIOUS
  <1>1. PICK q \in Procs :
          \/ \E size \in EventSizes, id \in {used + 1, EndLog} :
               StartAdd(q, size, id)
          \/ StartClear(q)
          \/ Drop(q) \/ ToolReads(q) \/ ToolWrites(q) \/ Retake(q)
          \/ AccessFails(q)
          \/ Fetched(q) \/ Sized(q) \/ Copied(q) \/ Cleared(q) \/ Written(q)
          \/ Fail(q) \/ End(q)
    BY DEF Next
  <1>2. q = p
    OBVIOUS
  <1>3. LockTypeOK'
    <2>1. LockTypeOK
      BY DEF TypeOK
    <2>2. \/ UNCHANGED lockVars \/ CommandLocks(p) \/ CommandUnlocks(p)
          \/ LockDropped(p) \/ LockRetaken(p)
      BY <1>1, <1>2 DEF StartAdd, StartClear, Starts, Drop, ToolReads,
           ToolWrites, Retake, AccessFails, LockLost, Fetched, Sized, Copied,
           Cleared, Written, Fail, End, Uses
    <2>3. QED
      BY <2>1, <2>2 DEF LockTypeOK, lockVars, CommandLocks, CommandUnlocks,
           LockDropped, LockRetaken
  <1>4. flash' \subseteq AnyEntries
    BY LogTypes DEF ElogCore, FlashInv
  <1>5. /\ pc' \in [Procs -> Steps] /\ stage' \in [Procs -> Stages]
        /\ op' \in [Procs -> {"add", "clear"}]
        /\ result' \in [Procs -> {"none", "ok", "failed"}]
        /\ used' \in 0 .. MaxEvents
        /\ last_writer' = p \/ last_writer' = last_writer
    BY <1>1, <1>2, ElogTypes, LengthIsNat
    DEF StartAdd, StartClear, Starts, Access, Goto, Drop, ToolReads,
        ToolWrites, Retake, AccessFails, Fetched, Sized, Copied, Cleared,
        Written, Fail, Fails, End, Uses, cmdVars, Steps, Stages
  <1>6. \/ event' = event
        \/ \E size \in EventSizes, id \in {used + 1, EndLog} :
             /\ size <= 255 /\ used + 1 \in 0 .. MaxEvents
             /\ id = used + 1 \/ (id = EndLog /\ size = EndLogSize)
             /\ event' = [event EXCEPT ![p] = Entry(0, size, id)]
        \/ event' = [event EXCEPT ![p] = LogClear(0)]
    BY <1>1, <1>2, ElogTypes, LengthIsNat
    DEF StartAdd, StartClear, Starts, Drop, ToolReads, ToolWrites, Retake,
        AccessFails, Fetched, Sized, Copied, Cleared, Written, Fail, End,
        Uses, cmdVars
  <1>7. /\ \/ got' = got
           \/ \E image \in {NoImage, flash, data[p]} :
                got' = [got EXCEPT ![p] = image]
        /\ data' = data \/ \E image : data' = [data EXCEPT ![p] = image]
    BY <1>1, <1>2, ElogTypes, LengthIsNat
    DEF StartAdd, StartClear, Starts, Drop, ToolReads, ToolWrites, Retake,
        AccessFails, Fetched, Sized, Copied, Cleared, Written, Fail, End,
        Uses, cmdVars
  <1>8. /\ \/ cut' = cut \/ cut' = [cut EXCEPT ![p] = {}]
           \/ cut' = [cut EXCEPT ![p] = 1 .. used]
           \/ /\ Copied(p)
              /\ LET entries == Visited(got[p])
                 IN  cut' = [cut EXCEPT ![p] =
                       Ids(SubSeq(entries, 1, Skipped(entries, shrink_size)))]
        /\ \/ events_size' = events_size
           \/ events_size' = [events_size EXCEPT ![p] = 0]
           \/ /\ Sized(p)
              /\ events_size' =
                   [events_size EXCEPT ![p] = Bytes(Visited(got[p]))]
        /\ added' = added \/ added' = added \cup ({event[p].id} \ {0, EndLog})
        /\ dropped' = dropped \/ dropped' = dropped \cup cut[p]
    BY <1>1, <1>2, ElogTypes, LengthIsNat
    DEF StartAdd, StartClear, Starts, Drop, ToolReads, ToolWrites, Retake,
        AccessFails, Fetched, Sized, Copied, Cleared, Written, Fail, End,
        Uses, cmdVars
  <1>9. event' \in [Procs -> AnyEntries]
    <2>1. \A size \in EventSizes :
            size <= 255 /\ used + 1 \in 0 .. MaxEvents
              => Entry(0, size, used + 1) \in Entries
      BY EventLengths, LengthIsNat DEF Entry, Entries
    <2>2. Entry(0, EndLogSize, EndLog) \in EndEntries
      BY LengthIsNat DEF Entry, EndEntries
    <2>3. QED
      BY <1>6, <2>1, <2>2, NoteIsEntry, ElogTypes DEF AnyEntries
  <1>10. got' \in [Procs -> {NoImage} \cup SUBSET AnyEntries]
    <2>1. {NoImage, flash, data[p]} \subseteq {NoImage} \cup SUBSET AnyEntries
      BY ElogTypes DEF TypeOK
    <2>2. QED
      BY <1>7, <2>1, ElogTypes
  <1>11. data' \in [Procs -> SUBSET AnyEntries]
    <2>1. data'[p] \subseteq AnyEntries
      BY LogTypes DEF ElogCore, WriteInv
    <2>2. QED
      BY <1>7, <2>1, ElogTypes
  <1>12. cut' \in [Procs -> SUBSET (1 .. MaxEvents)]
    <2>1. {} \subseteq 1 .. MaxEvents /\ 1 .. used \subseteq 1 .. MaxEvents
      BY ElogTypes, LengthIsNat
    <2>2. ASSUME Copied(p)
          PROVE  LET entries == Visited(got[p])
                 IN  Ids(SubSeq(entries, 1, Skipped(entries, shrink_size)))
                       \subseteq 1 .. MaxEvents
      <3> DEFINE r == Visited(got[p])
                 n == Skipped(r, shrink_size)
                 first == SubSeq(r, 1, n)
      <3>1. IsLog(got[p])
        BY <2>2 DEF Copied, Uses, HasRead, ElogCore, ReadInv, FlashInv
      <3>2. Row(r) /\ r \in Seq(Entries)
        BY <3>1, LogTypes DEF IsLog
      <3> HIDE DEF r
      <3>3. n \in 0 .. Len(r)
        BY <3>2, SkippedEnough, LengthIsNat
      <3> HIDE DEF n
      <3>4. first \in Seq(Entries)
        BY <3>2, <3>3, PrefixOf
      <3> HIDE DEF first
      <3>5. \A i \in DOMAIN first : first[i].id \in 0 .. MaxEvents
        BY <3>4, EntryTypes
      <3>6. Ids(first) \subseteq 1 .. MaxEvents
        BY <3>5, LengthIsNat DEF Ids
      <3>7. QED
        BY <3>6 DEF first, n, r
    <2>3. QED
      BY <1>8, <2>1, <2>2, ElogTypes
  <1>13. events_size' \in [Procs -> 0 .. Length]
    <2>1. ASSUME Sized(p)
          PROVE  Bytes(Visited(got[p])) \in 0 .. Length
      <3>1. IsLog(got[p])
        BY <2>1 DEF Sized, Uses, HasRead, ElogCore, ReadInv, FlashInv
      <3>2. QED
        BY <3>1, LogTypes, LengthIsNat
    <2>2. QED
      BY <1>8, <2>1, ElogTypes, LengthIsNat
  <1>14. (added \cup dropped)' \subseteq 1 .. MaxEvents
    <2>1. /\ event[p].id = EndLog \/ event[p].id \in 0 .. MaxEvents
          /\ cut[p] \subseteq 1 .. MaxEvents
      BY ElogTypes, AnyTypes, EntryTypes
    <2>2. QED
      BY <1>8, <2>1, LengthIsNat DEF TypeOK
  <1>15. last_writer' \in Procs \cup {NoProc}
    BY <1>5 DEF TypeOK
  <1>16. QED
    BY <1>3, <1>4, <1>5, <1>9, <1>10, <1>11, <1>12, <1>13, <1>14, <1>15
    DEF TypeOK

LEMMA ElogNext ==
  ASSUME NEW p, Procs = {p}, RoomForNote, ElogInv, [Next]_vars
  PROVE  ElogInv'
  <1>1. p \in Procs /\ TypeOK /\ ElogCore(p)
    BY DEF ElogInv, ElogCore
  <1>2. CASE UNCHANGED vars
    <2>1. ElogCore(p)'
      BY <1>1, <1>2 DEF vars, cmdVars, ElogCore, FlashInv, NoEventLost,
                        EventInv, ReadInv, WriteInv, Running, HasRead
    <2>2. TypeOK'
      BY <1>1, <1>2 DEF vars, cmdVars, TypeOK, LockTypeOK
    <2>3. QED
      BY <2>1, <2>2 DEF ElogInv, ElogCore
  <1>3. CASE Next
    <2>1. \/ \E size \in EventSizes, id \in {used + 1, EndLog} :
              StartAdd(p, size, id)
          \/ StartClear(p)
          \/ Drop(p) \/ ToolReads(p) \/ ToolWrites(p) \/ Retake(p)
          \/ AccessFails(p)
          \/ Fetched(p) \/ Sized(p) \/ Copied(p) \/ Cleared(p) \/ Written(p)
          \/ Fail(p) \/ End(p)
      BY <1>3 DEF Next
    <2>2. ElogCore(p)'
      BY <1>1, <2>1, StartsKeep, AccessKeeps, WriteKeeps, EndKeeps,
         FetchedKeeps, SizedKeeps, CopiedKeeps, ClearedKeeps
    <2>3. TypeOK'
      BY <1>1, <1>3, <2>2, ElogTypesKept
    <2>4. QED
      BY <2>2, <2>3 DEF ElogInv, ElogCore
  <1>4. QED
    BY <1>2, <1>3

(* The image a process works on fits the buffer, and each entry is one     *)
(* whose length the code can store (elog.c:elog_prepare_entry).            *)
THEOREM ElogFits ==
  ASSUME NEW p, Procs = {p}, RoomForNote
  PROVE  Spec => []InBuffer
  <1>1. Init => ElogInv
    BY ElogInit
  <1>2. ElogInv /\ [Next]_vars => ElogInv'
    BY ElogNext
  <1>3. ElogInv => InBuffer
    <2> SUFFICES ASSUME ElogInv PROVE InBuffer
      OBVIOUS
    <2>1. ASSUME NEW q \in Procs, NEW e \in data[q]
          PROVE  e.off >= 0 /\ data_offset + e.off + e.len <= Length
      <3>1. IsLog(data[q])
        BY DEF ElogInv, WriteInv
      <3>2. /\ e.off \in Nat /\ e.len \in Nat
            /\ data_offset + e.off + e.len < Length
        BY <2>1, <3>1, LogTypes
      <3>3. QED
        BY <3>2, LengthIsNat
    <2>2. QED
      BY <2>1 DEF ElogInv, InBuffer
  <1>4. QED
    BY <1>1, <1>2, <1>3, PTL DEF Spec

(* After an add that reported success, of an event of any type but the end *)
(* of the log, the event is the last one listed.                           *)
THEOREM ElogAddedIsLast ==
  ASSUME NEW p, Procs = {p}, RoomForNote
  PROVE  Spec => []AddedIsLast
  <1>1. Init => ElogInv
    BY ElogInit
  <1>2. ElogInv /\ [Next]_vars => ElogInv'
    BY ElogNext
  <1>3. ElogInv => AddedIsLast
    BY DEF ElogInv, WriteInv, EndsWith, AddedIsLast
  <1>4. QED
    BY <1>1, <1>2, <1>3, PTL DEF Spec

(* No command, also no add of an event of the end type, reorders the log,  *)
(* or loses an event other than by a clear or to make room.                *)
THEOREM ElogKeepsLog ==
  ASSUME NEW p, Procs = {p}, RoomForNote
  PROVE  Spec => []LogKept
  <1>1. Init => ElogInv
    BY ElogInit
  <1>2. ElogInv /\ [Next]_vars => ElogInv'
    BY ElogNext
  <1>3. ElogInv => LogKept
    BY DEF ElogInv, FlashInv, Ordered, LogKept, InOrder
  <1>4. QED
    BY <1>1, <1>2, <1>3, PTL DEF Spec
-----------------------------------------------------------------------------
(* The iterator of the SMBIOS tables.                                      *)
(* The parts of a sequence of sequences, one behind the other.             *)
Chained(s, n, B, flat) ==
  /\ flat \in [0 .. n -> Seq(B)]
  /\ flat[0] = <<>>
  /\ \A k \in 1 .. n : flat[k] = flat[k - 1] \o s[k]

LEMMA ChainExists ==
  ASSUME NEW B, NEW n \in Nat, NEW s, \A k \in 1 .. n : s[k] \in Seq(B)
  PROVE  \E flat : Chained(s, n, B, flat)
  <1> DEFINE put == [k \in 1 .. n |-> [x \in Seq(B) |-> x \o s[k]]]
  <1>1. \A k \in 1 .. n, x \in Seq(B) : x \o s[k] \in Seq(B)
    BY ConcatProperties
  <1>2. put \in [1 .. n -> [Seq(B) -> Seq(B)]]
    BY <1>1
  <1>3. \A k \in 1 .. n, x \in Seq(B) : put[k][x] = x \o s[k]
    OBVIOUS
  <1>4. <<>> \in Seq(B)
    OBVIOUS
  <1> HIDE DEF put
  <1>5. PICK flat : StepsBy(flat, <<>>, Seq(B), n, put)
    BY <1>2, <1>4, StepsExist
  <1>6. flat \in [0 .. n -> Seq(B)] /\ flat[0] = <<>>
    BY <1>5 DEF StepsBy
  <1>7. ASSUME NEW k \in 1 .. n PROVE flat[k] = flat[k - 1] \o s[k]
    <2>1. k - 1 \in 0 .. n
      OBVIOUS
    <2>2. flat[k] = put[k][flat[k - 1]] /\ flat[k - 1] \in Seq(B)
      BY <1>5, <1>6, <2>1 DEF StepsBy
    <2>3. QED
      BY <1>3, <2>2
  <1>8. QED
    BY <1>6, <1>7 DEF Chained

(* FlattenSeq() computes the last of them.                                 *)
LEMMA FlatOfChain ==
  ASSUME NEW B, NEW n \in Nat, NEW s \in Seq(Seq(B)), Len(s) = n,
         NEW flat, Chained(s, n, B, flat)
  PROVE  FlattenSeq(s) = flat[n]
  <1>0. /\ flat \in [0 .. n -> Seq(B)] /\ flat[0] = <<>>
        /\ \A k \in 1 .. n : flat[k] = flat[k - 1] \o s[k]
    BY DEF Chained
  <1>1. CASE n = 0
    <2>1. s = <<>>
      BY <1>1
    <2>2. QED
      BY <1>0, <1>1, <2>1 DEF FlattenSeq
  <1>2. CASE n # 0
    <2> DEFINE Rec(f) == [i \in 1 .. n |->
                            IF i = 1 THEN s[i] ELSE f[i - 1] \o s[i]]
               flatten == CHOOSE f : f = Rec(f)
               some == [i \in 1 .. n |-> flat[i]]
               Wrongs == {i \in 1 .. n : flatten[i] # flat[i]}
    <2>1. FlattenSeq(s) = flatten[n]
      BY <1>2 DEF FlattenSeq
    <2>2. flat[1] = s[1]
      <3>1. 1 \in 1 .. n /\ 1 - 1 = 0
        BY <1>2
      <3>2. flat[1] = <<>> \o s[1] /\ s[1] \in Seq(B)
        <4>1. flat[1] = flat[1 - 1] \o s[1]
          BY <1>0, <3>1
        <4>2. s[1] \in Seq(B)
          BY <3>1
        <4>3. QED
          BY <1>0, <3>1, <4>1, <4>2
      <3>3. QED
        BY <3>2, ConcatEmptySeq
    <2>3. some = Rec(some)
      <3>1. ASSUME NEW i \in 1 .. n, i # 1
            PROVE  some[i] = some[i - 1] \o s[i]
        <4>1. i - 1 \in 1 .. n
          BY <3>1
        <4>2. QED
          BY <1>0, <4>1
      <3>2. 1 \in 1 .. n => some[1] = s[1]
        BY <2>2
      <3> DEFINE other == Rec(some)
      <3>3. \A i \in 1 .. n : some[i] = other[i]
        BY <3>1, <3>2
      <3>4. DOMAIN some = 1 .. n /\ DOMAIN other = 1 .. n
        OBVIOUS
      <3>5. QED
        BY <3>3
    <2> HIDE DEF some
    <2>4. flatten = Rec(flatten)
      <3> HIDE DEF Rec
      <3>1. \E f : f = Rec(f)
        BY <2>3
      <3>2. QED
        BY <3>1
    <2> HIDE DEF flatten
    <2>5. flatten[1] = s[1]
            /\ \A i \in 1 .. n : i # 1 => flatten[i] = flatten[i - 1] \o s[i]
      <3>1. 1 \in 1 .. n
        BY <1>2
      <3>2. \A i \in 1 .. n :
              flatten[i] = IF i = 1 THEN s[i] ELSE flatten[i - 1] \o s[i]
        BY <2>4
      <3>3. QED
        BY <3>1, <3>2
    <2>6. ASSUME Wrongs # {} PROVE FALSE
      <3>1. Wrongs \in SUBSET Nat
        OBVIOUS
      <3>2. PICK k \in Wrongs : \A l \in Wrongs : k <= l
        <4> HIDE DEF Wrongs
        <4>1. QED
          BY <2>6, <3>1, LeastElement
      <3>3. k \in 1 .. n /\ flatten[k] # flat[k]
        OBVIOUS
      <3>4. k # 1
        BY <2>2, <2>5, <3>3
      <3>5. k - 1 \in 1 .. n /\ ~(k <= k - 1)
        BY <3>3, <3>4
      <3>6. flatten[k - 1] = flat[k - 1]
        BY <3>2, <3>5
      <3>7. QED
        BY <1>0, <2>5, <3>3, <3>4, <3>6
    <2>7. n \in 1 .. n
      BY <1>2
    <2>8. QED
      BY <2>1, <2>6, <2>7
  <1>3. QED
    BY <1>1, <1>2

(* Where the parts start in the whole, and where prefixes of it end.       *)
Flattened(s, n, B, starts) ==
  /\ starts \in [0 .. n -> Nat] /\ starts[0] = 0
  /\ \A k \in 1 .. n : /\ starts[k] = starts[k - 1] + Len(s[k])
                       /\ starts[k] <= starts[n]
  /\ FlattenSeq(s) \in Seq(B) /\ Len(FlattenSeq(s)) = starts[n]
  /\ \A k \in 1 .. n : \A i \in 1 .. Len(s[k]) :
       FlattenSeq(s)[starts[k - 1] + i] = s[k][i]
  /\ \A k \in 0 .. n : Len(FlattenSeq(SubSeq(s, 1, k))) = starts[k]

LEMMA FlatParts ==
  ASSUME NEW B, NEW s \in Seq(Seq(B))
  PROVE  \E starts : Flattened(s, Len(s), B, starts)
  <1> DEFINE n == Len(s)
  <1>0. n \in Nat /\ \A k \in 1 .. n : s[k] \in Seq(B)
    OBVIOUS
  <1> HIDE DEF n
  <1>1. PICK flat : Chained(s, n, B, flat)
    BY <1>0, ChainExists
  <1>2. /\ flat \in [0 .. n -> Seq(B)] /\ flat[0] = <<>>
        /\ \A k \in 1 .. n : flat[k] = flat[k - 1] \o s[k]
    BY <1>1 DEF Chained
  <1> DEFINE starts == [k \in 0 .. n |-> Len(flat[k])]
  <1>3. /\ starts \in [0 .. n -> Nat] /\ starts[0] = 0
        /\ \A k \in 0 .. n : starts[k] = Len(flat[k])
    BY <1>0, <1>2
  <1> HIDE DEF starts
  <1>4. \A k \in 1 .. n : /\ k - 1 \in 0 .. n /\ k \in 0 .. n
                          /\ flat[k - 1] \in Seq(B) /\ flat[k] \in Seq(B)
                          /\ s[k] \in Seq(B)
    BY <1>0, <1>2
  <1>5. ASSUME NEW k \in 1 .. n
        PROVE  /\ starts[k] = starts[k - 1] + Len(s[k])
               /\ \A i \in 1 .. starts[k - 1] : flat[k][i] = flat[k - 1][i]
               /\ \A i \in 1 .. Len(s[k]) :
                    flat[k][starts[k - 1] + i] = s[k][i]
    <2> DEFINE a == flat[k - 1]
               b == s[k]
    <2>1. a \in Seq(B) /\ b \in Seq(B) /\ flat[k] = a \o b
          /\ starts[k - 1] = Len(a) /\ starts[k] = Len(flat[k])
      BY <1>2, <1>3, <1>4
    <2> HIDE DEF a, b
    <2>2. Len(a \o b) = Len(a) + Len(b)
      BY <2>1, ConcatProperties
    <2>3. \A i \in 1 .. Len(a) : (a \o b)[i] = a[i]
      BY <2>1
    <2>4. \A i \in 1 .. Len(b) : (a \o b)[Len(a) + i] = b[i]
      BY <2>1
    <2>5. QED
      BY <2>1, <2>2, <2>3, <2>4 DEF a, b
  (* What is there stays there.                                            *)
  <1>6. ASSUME NEW k \in 0 .. n, NEW m \in k .. n
        PROVE  /\ starts[k] <= starts[m]
               /\ \A i \in 1 .. starts[k] : flat[m][i] = flat[k][i]
    <2> DEFINE Kept(l) == /\ starts[k] <= starts[l]
                          /\ \A i \in 1 .. starts[k] :
                               flat[l][i] = flat[k][i]
               Lost == {l \in k .. n : ~Kept(l)}
    <2>1. ASSUME Lost # {} PROVE FALSE
      <3>1. Lost \in SUBSET Nat
        BY <1>0
      <3>2. PICK l \in Lost : \A o \in Lost : l <= o
        <4> HIDE DEF Lost
        <4>1. QED
          BY <2>1, <3>1, LeastElement
      <3>3. l \in k .. n /\ ~Kept(l)
        <4> HIDE DEF Kept
        <4>1. QED
          OBVIOUS
      <3>4. Kept(k)
        BY <1>3
      <3> HIDE DEF Kept
      <3>5. l # k
        BY <3>3, <3>4
      <3>6. l \in 1 .. n /\ l - 1 \in k .. n /\ ~(l <= l - 1)
        BY <1>0, <3>3, <3>5
      <3>7. Kept(l - 1)
        BY <3>2, <3>6
      <3>8. /\ starts[k] \in Nat /\ starts[l - 1] \in Nat
            /\ Len(s[l]) \in Nat /\ starts[l] = starts[l - 1] + Len(s[l])
        BY <1>3, <1>4, <1>5, <3>6
      <3>9. Kept(l)
        BY <1>5, <3>6, <3>7, <3>8 DEF Kept
      <3>10. QED
        BY <3>3, <3>9
    <2>2. Kept(m)
      <3> HIDE DEF Kept
      <3>1. QED
        BY <2>1
    <2>3. QED
      BY <2>2
  <1>7. FlattenSeq(s) = flat[n]
    BY <1>0, <1>1, FlatOfChain DEF n
  <1>8. n \in 0 .. n /\ flat[n] \in Seq(B) /\ Len(flat[n]) = starts[n]
    BY <1>0, <1>2, <1>3
  <1>9. \A k \in 1 .. n : starts[k] <= starts[n]
    BY <1>0, <1>6
  <1>10. ASSUME NEW k \in 1 .. n, NEW i \in 1 .. Len(s[k])
         PROVE  FlattenSeq(s)[starts[k - 1] + i] = s[k][i]
    <2>1. flat[k][starts[k - 1] + i] = s[k][i]
      BY <1>5
    <2>2. starts[k - 1] + i \in 1 .. starts[k]
      <3>1. starts[k - 1] \in Nat /\ Len(s[k]) \in Nat
        BY <1>3, <1>4
      <3>2. QED
        BY <1>5, <3>1
    <2>3. k \in 0 .. n /\ n \in k .. n
      BY <1>0
    <2>4. \A j \in 1 .. starts[k] : flat[n][j] = flat[k][j]
      BY <1>6, <2>3
    <2>5. QED
      BY <1>7, <2>1, <2>2, <2>4
  <1>11. ASSUME NEW k \in 0 .. n
         PROVE  Len(FlattenSeq(SubSeq(s, 1, k))) = starts[k]
    <2> DEFINE part == SubSeq(s, 1, k)
               some == [j \in 0 .. k |-> flat[j]]
    <2>1. /\ part \in Seq(Seq(B)) /\ Len(part) = k
          /\ \A j \in 1 .. k : part[j] = s[j]
      BY PrefixOf DEF n
    <2>2. k \in Nat /\ k \in 0 .. k /\ \A j \in 0 .. k : j \in 0 .. n
      BY <1>0
    <2>3. some \in [0 .. k -> Seq(B)] /\ \A j \in 0 .. k : some[j] = flat[j]
      BY <1>2, <2>2
    <2> HIDE DEF part, some
    <2>4. \A j \in 1 .. k : j \in 1 .. n /\ j - 1 \in 0 .. k /\ j \in 0 .. k
      BY <1>0, <2>2
    <2>5. \A j \in 1 .. k : some[j] = some[j - 1] \o part[j]
      BY <1>2, <2>1, <2>3, <2>4
    <2>6. some[0] = <<>>
      BY <1>2, <2>2, <2>3
    <2>7. Chained(part, k, B, some)
      BY <2>3, <2>5, <2>6 DEF Chained
    <2>8. FlattenSeq(part) = some[k]
      BY <2>1, <2>2, <2>7, FlatOfChain
    <2>9. QED
      BY <1>3, <2>2, <2>3, <2>8 DEF part
  <1>12. Flattened(s, n, B, starts)
    BY <1>3, <1>5, <1>7, <1>8, <1>9, <1>10, <1>11 DEF Flattened
  <1>13. QED
    BY <1>12 DEF n
-----------------------------------------------------------------------------
(* The tables that firmware may write.                                     *)
TableRecords == [type : Nat, length : Nat, strings : Seq(Nat \ {0})]

LEMMA StringInBytes ==
  ASSUME NEW n \in Nat
  PROVE  /\ StringBytes(n) \in Seq(Nat) /\ Len(StringBytes(n)) = n + 1
         /\ \A i \in 1 .. n : StringBytes(n)[i] = 1
         /\ StringBytes(n)[n + 1] = 0
  <1> DEFINE text == Repeat(Byte.char, n)
  <1>1. /\ text \in Seq(Nat) /\ Len(text) = n
        /\ \A i \in 1 .. n : text[i] = 1
    BY DEF Repeat, Byte
  <1>2. StringBytes(n) = Append(text, 0)
    BY DEF StringBytes, Byte
  <1> HIDE DEF text
  <1>3. QED
    BY <1>1, <1>2, AppendProperties

(* The bytes e of a table, whose strings start at offs.                    *)
Shape(t, e, offs) ==
  LET m == Len(t.strings)
  IN /\ e \in Seq(Nat) /\ e[1] = t.type /\ e[2] = t.length
     /\ offs \in [0 .. m -> Nat] /\ offs[0] = 0
     /\ \A j \in 1 .. m : /\ offs[j] = offs[j - 1] + t.strings[j] + 1
                          /\ offs[j] <= offs[m]
     /\ m = 0 => /\ Len(e) = t.length + 2
                 /\ e[t.length + 1] = 0 /\ e[t.length + 2] = 0
     /\ m # 0 => /\ Len(e) = t.length + offs[m] + 1
                 /\ e[t.length + offs[m] + 1] = 0
                 /\ \A j \in 1 .. m :
                      /\ \A i \in 1 .. t.strings[j] :
                           e[t.length + offs[j - 1] + i] = 1
                      /\ e[t.length + offs[j]] = 0

(* The parts of two sequences in a row, and of four.                       *)
TwoIn(e, a, b) ==
  /\ e \in Seq(Nat) /\ Len(e) = Len(a) + Len(b)
  /\ \A i \in 1 .. Len(a) : e[i] = a[i]
  /\ \A i \in 1 .. Len(b) : e[Len(a) + i] = b[i]

FourIn(e, a, b, c, d) ==
  /\ e \in Seq(Nat) /\ Len(e) = Len(a) + Len(b) + Len(c) + Len(d)
  /\ \A i \in 1 .. Len(a) : e[i] = a[i]
  /\ \A i \in 1 .. Len(c) : e[Len(a) + Len(b) + i] = c[i]
  /\ \A i \in 1 .. Len(d) : e[Len(a) + Len(b) + Len(c) + i] = d[i]

LEMMA TwoParts ==
  ASSUME NEW a \in Seq(Nat), NEW b \in Seq(Nat)
  PROVE  TwoIn(a \o b, a, b)
  BY DEF TwoIn

LEMMA FourParts ==
  ASSUME NEW a \in Seq(Nat), NEW b \in Seq(Nat), NEW c \in Seq(Nat),
         NEW d \in Seq(Nat)
  PROVE  FourIn(a \o b \o c \o d, a, b, c, d)
  <1> DEFINE ab == a \o b
             abc == ab \o c
             e == abc \o d
  <1>a. TwoIn(ab, a, b)
    BY TwoParts
  <1>1. /\ ab \in Seq(Nat) /\ Len(ab) = Len(a) + Len(b)
        /\ \A i \in 1 .. Len(a) : ab[i] = a[i]
    BY <1>a DEF TwoIn
  <1> HIDE DEF ab
  <1>b. TwoIn(abc, ab, c)
    BY <1>1, TwoParts
  <1> HIDE DEF abc
  <1>2. /\ abc \in Seq(Nat) /\ Len(abc) = Len(ab) + Len(c)
        /\ \A i \in 1 .. Len(ab) : abc[i] = ab[i]
        /\ \A i \in 1 .. Len(c) : abc[Len(ab) + i] = c[i]
    BY <1>b DEF TwoIn
  <1>c. TwoIn(e, abc, d)
    BY <1>2, TwoParts
  <1> HIDE DEF e
  <1>4. /\ e \in Seq(Nat) /\ Len(e) = Len(abc) + Len(d)
        /\ \A i \in 1 .. Len(abc) : e[i] = abc[i]
        /\ \A i \in 1 .. Len(d) : e[Len(abc) + i] = d[i]
    BY <1>c DEF TwoIn
  <1>5. /\ Len(a) \in Nat /\ Len(b) \in Nat /\ Len(c) \in Nat
        /\ Len(d) \in Nat
    OBVIOUS
  <1>6. \A i \in 1 .. Len(a) : i \in 1 .. Len(ab) /\ i \in 1 .. Len(abc)
    BY <1>1, <1>2, <1>5
  <1>7. \A i \in 1 .. Len(c) : Len(ab) + i \in 1 .. Len(abc)
    BY <1>1, <1>2, <1>5
  <1>8. \A i \in 1 .. Len(a) : e[i] = a[i]
    BY <1>1, <1>2, <1>4, <1>6
  <1>9. \A i \in 1 .. Len(c) : e[Len(a) + Len(b) + i] = c[i]
    BY <1>1, <1>2, <1>4, <1>7
  <1>10. \A i \in 1 .. Len(d) : e[Len(a) + Len(b) + Len(c) + i] = d[i]
    BY <1>1, <1>2, <1>4
  <1>11. Len(e) = Len(a) + Len(b) + Len(c) + Len(d)
    BY <1>1, <1>2, <1>4
  <1>12. FourIn(e, a, b, c, d)
    BY <1>4, <1>8, <1>9, <1>10, <1>11 DEF FourIn
  <1>13. QED
    BY <1>12 DEF e, abc, ab

LEMMA EncodedShape ==
  ASSUME NEW t \in TableRecords, t.length >= HeaderLen
  PROVE  \E offs : Shape(t, Encoded(t), offs)
  <1> DEFINE m == Len(t.strings)
             head == <<t.type, t.length>>
             rest == Repeat(Byte.null, t.length - 2)
             texts == [k \in 1 .. Len(t.strings) |->
                         StringBytes(t.strings[k])]
             strings == IF t.strings = <<>> THEN <<Byte.null>>
                        ELSE FlattenSeq(texts)
             e == Encoded(t)
  <1>1. /\ t.type \in Nat /\ t.length \in Nat /\ t.length >= 4
        /\ t.strings \in Seq(Nat \ {0}) /\ m \in Nat
        /\ \A k \in 1 .. m : t.strings[k] \in Nat /\ t.strings[k] # 0
    BY DEF TableRecords, HeaderLen
  <1>2. /\ head \in Seq(Nat) /\ Len(head) = 2
        /\ head[1] = t.type /\ head[2] = t.length
    BY <1>1
  <1>3. rest \in Seq(Nat) /\ Len(rest) = t.length - 2
    BY <1>1 DEF Repeat, Byte
  <1>4. e = head \o rest \o strings \o <<0>>
    BY DEF Encoded, Byte
  <1>5. <<0>> \in Seq(Nat) /\ Len(<<0>>) = 1 /\ <<0>>[1] = 0
    OBVIOUS
  <1> HIDE DEF head, rest, e
  <1>6. ASSUME strings \in Seq(Nat)
        PROVE  /\ e \in Seq(Nat) /\ e[1] = t.type /\ e[2] = t.length
               /\ Len(e) = t.length + Len(strings) + 1
               /\ \A i \in 1 .. Len(strings) :
                    e[t.length + i] = strings[i]
               /\ e[t.length + Len(strings) + 1] = 0
    <2> HIDE DEF strings, m
    <2>1. Len(head) + Len(rest) = t.length /\ Len(strings) \in Nat
      <3>1. \A a \in Nat : 2 + (a - 2) = a
        OBVIOUS
      <3>2. Len(head) + Len(rest) = t.length
        BY <1>1, <1>2, <1>3, <3>1
      <3>3. Len(strings) \in Nat
        BY <1>6
      <3>4. QED
        BY <3>2, <3>3
    <2>2. /\ e \in Seq(Nat)
          /\ Len(e) = Len(head) + Len(rest) + Len(strings) + Len(<<0>>)
          /\ \A i \in 1 .. Len(head) : e[i] = head[i]
          /\ \A i \in 1 .. Len(strings) :
               e[Len(head) + Len(rest) + i] = strings[i]
          /\ \A i \in 1 .. Len(<<0>>) :
               e[Len(head) + Len(rest) + Len(strings) + i] = <<0>>[i]
      <3> DEFINE last == <<0>>
      <3>1. last \in Seq(Nat)
        BY <1>5
      <3>2. e = head \o rest \o strings \o last
        BY <1>4
      <3> HIDE DEF last
      <3>3. FourIn(head \o rest \o strings \o last,
                   head, rest, strings, last)
        BY <1>2, <1>3, <1>6, <3>1, FourParts
      <3>4. FourIn(e, head, rest, strings, last)
        BY <3>2, <3>3
      <3>5. QED
        BY <3>4 DEF FourIn, last
    <2>3. /\ 1 \in 1 .. Len(head) /\ 2 \in 1 .. Len(head)
          /\ 1 \in 1 .. Len(<<0>>)
      BY <1>2, <1>5
    <2>4. QED
      BY <1>2, <1>5, <2>1, <2>2, <2>3
  <1>7. CASE m = 0
    <2>1. t.strings = <<>>
      BY <1>1, <1>7
    <2>2. strings = <<0>>
      BY <2>1 DEF Byte
    <2>3. strings \in Seq(Nat) /\ Len(strings) = 1 /\ strings[1] = 0
      <3> HIDE DEF strings
      <3>1. QED
        BY <1>5, <2>2
    <2> DEFINE none == [j \in 0 .. 0 |-> 0]
    <2>4. Shape(t, e, none)
      <3> HIDE DEF strings
      <3>1. none \in [0 .. m -> Nat] /\ none[0] = 0 /\ 1 .. m = {}
        BY <1>7
      <3>2. /\ Len(e) = t.length + 2 /\ e[t.length + 1] = 0
            /\ e[t.length + 2] = 0
        <4>1. 1 \in 1 .. Len(strings) /\ t.length + 1 + 1 = t.length + 2
          BY <1>1, <2>3
        <4>2. QED
          BY <1>6, <2>3, <4>1
      <3>3. QED
        BY <1>6, <1>7, <2>3, <3>1, <3>2 DEF Shape, m
    <2>5. QED
      BY <2>4 DEF e
  <1>8. CASE m # 0
    <2>1. strings = FlattenSeq(texts)
      BY <1>1, <1>8
    <2>2. \A k \in 1 .. m : texts[k] = StringBytes(t.strings[k])
      OBVIOUS
    <2>3. ASSUME NEW k \in 1 .. m
          PROVE  /\ texts[k] \in Seq(Nat)
                 /\ Len(texts[k]) = t.strings[k] + 1
                 /\ \A i \in 1 .. t.strings[k] : texts[k][i] = 1
                 /\ texts[k][t.strings[k] + 1] = 0
      BY <1>1, <2>2, StringInBytes
    <2>4. texts \in Seq(Seq(Nat)) /\ Len(texts) = m
      <3>1. texts \in [1 .. m -> Seq(Nat)]
        BY <2>3
      <3> HIDE DEF texts, m
      <3>2. m \in Nat
        BY <1>1
      <3>3. QED
        BY <3>1, <3>2
    <2> HIDE DEF texts, strings, m
    <2>5. PICK offs : Flattened(texts, m, Nat, offs)
      BY <2>4, FlatParts
    <2>6. /\ offs \in [0 .. m -> Nat] /\ offs[0] = 0
          /\ \A j \in 1 .. m : /\ offs[j] = offs[j - 1] + Len(texts[j])
                               /\ offs[j] <= offs[m]
          /\ strings \in Seq(Nat) /\ Len(strings) = offs[m]
          /\ \A j \in 1 .. m : \A i \in 1 .. Len(texts[j]) :
               strings[offs[j - 1] + i] = texts[j][i]
      BY <2>1, <2>5 DEF Flattened
    <2>7. ASSUME NEW j \in 1 .. m
          PROVE  /\ j - 1 \in 0 .. m /\ offs[j - 1] \in Nat
                 /\ offs[j] \in Nat
                 /\ offs[j] = offs[j - 1] + t.strings[j] + 1
      <3>1. j - 1 \in 0 .. m /\ j \in 0 .. m
        BY <1>1
      <3>2. offs[j - 1] \in Nat /\ offs[j] \in Nat
        BY <2>6, <3>1
      <3>3. offs[j] = offs[j - 1] + Len(texts[j])
        BY <2>6
      <3>4. Len(texts[j]) = t.strings[j] + 1 /\ t.strings[j] \in Nat
        BY <1>1, <2>3
      <3>5. \A a, b \in Nat : a + (b + 1) = a + b + 1
        OBVIOUS
      <3>6. QED
        BY <3>1, <3>2, <3>3, <3>4, <3>5
    <2>8. /\ Len(e) = t.length + offs[m] + 1
          /\ e[t.length + offs[m] + 1] = 0
          /\ \A i \in 1 .. offs[m] : e[t.length + i] = strings[i]
          /\ e \in Seq(Nat) /\ e[1] = t.type /\ e[2] = t.length
      BY <1>6, <2>6
    <2>9. ASSUME NEW j \in 1 .. m, NEW i \in 1 .. t.strings[j] + 1
          PROVE  e[t.length + offs[j - 1] + i] = texts[j][i]
      <3>1. /\ offs[j - 1] \in Nat /\ offs[j] \in Nat /\ offs[m] \in Nat
            /\ offs[j] = offs[j - 1] + t.strings[j] + 1
            /\ offs[j] <= offs[m] /\ t.strings[j] \in Nat
            /\ i \in Nat /\ t.length \in Nat
        BY <1>1, <1>8, <2>6, <2>7
      <3> DEFINE from == offs[j - 1]
                 whole == offs[m]
                 size == t.strings[j]
      <3>2. from + i \in 1 .. whole
        <4>1. /\ from \in Nat /\ whole \in Nat /\ size \in Nat
              /\ from + size + 1 <= whole
          BY <3>1
        <4>2. i \in 1 .. size + 1
          OBVIOUS
        <4> HIDE DEF from, whole, size
        <4>3. QED
          BY <4>1, <4>2
      <3>3. e[t.length + (offs[j - 1] + i)] = strings[offs[j - 1] + i]
        BY <2>8, <3>2
      <3>4. i \in 1 .. Len(texts[j])
        BY <2>3
      <3>5. t.length + (offs[j - 1] + i) = t.length + offs[j - 1] + i
        <4>1. \A a, b, c \in Nat : a + (b + c) = a + b + c
          OBVIOUS
        <4>2. QED
          BY <3>1, <4>1
      <3>6. QED
        BY <2>6, <3>3, <3>4, <3>5
    <2>10. ASSUME NEW j \in 1 .. m
           PROVE  /\ \A i \in 1 .. t.strings[j] :
                       e[t.length + offs[j - 1] + i] = 1
                  /\ e[t.length + offs[j]] = 0
      <3>1. t.strings[j] \in Nat
        BY <1>1
      <3>2. \A i \in 1 .. t.strings[j] : i \in 1 .. t.strings[j] + 1
        BY <3>1
      <3>3. t.strings[j] + 1 \in 1 .. t.strings[j] + 1
        BY <3>1
      <3>4. t.length + offs[j - 1] + (t.strings[j] + 1) = t.length + offs[j]
        <4>1. \A a, b, c \in Nat : a + b + (c + 1) = a + (b + c + 1)
          OBVIOUS
        <4>2. /\ offs[j - 1] \in Nat /\ t.length \in Nat
              /\ offs[j] = offs[j - 1] + t.strings[j] + 1
          BY <1>1, <2>7
        <4>3. QED
          BY <3>1, <4>1, <4>2
      <3>5. e[t.length + offs[j]] = texts[j][t.strings[j] + 1]
        BY <2>9, <3>3, <3>4
      <3>6. \A i \in 1 .. t.strings[j] :
              e[t.length + offs[j - 1] + i] = texts[j][i]
        BY <2>9, <3>2
      <3>7. QED
        BY <2>3, <3>5, <3>6
    <2>11. Shape(t, e, offs)
      BY <1>8, <2>6, <2>7, <2>8, <2>10 DEF Shape, m
    <2>12. QED
      BY <2>11 DEF e
  <1>9. QED
    BY <1>7, <1>8

(* Where the k-th table is, and that its bytes are there.                  *)
InMemory(k) ==
  LET p == StartOf(tables, k)
      e == Encoded(tables[k])
  IN /\ p \in Nat /\ Len(memory) \in Nat
     /\ StartOf(tables, k + 1) = p + Len(e)
     /\ p + Len(e) <= Len(memory)
     /\ \A i \in 1 .. Len(e) : Mem(p + i - 1) = e[i]

LEMMA MemoryOfTables ==
  ASSUME tables \in Lists, memory = Memory(tables)
  PROVE  /\ Len(tables) \in Nat /\ Len(memory) \in Nat
         /\ tables \in Seq(TableRecords)
         /\ StartOf(tables, 1) = 0
         /\ StartOf(tables, Len(tables) + 1) = Len(memory)
         /\ \A k \in 1 .. Len(tables) :
              tables[k] \in TableRecords /\ tables[k].length >= HeaderLen
         /\ \A k \in 1 .. Len(tables) : InMemory(k)
  <1> DEFINE n == Len(tables)
             s == [k \in 1 .. Len(tables) |-> Encoded(tables[k])]
  <1>1. /\ n \in Nat /\ tables \in Seq(TableRecords)
        /\ \A k \in 1 .. n :
             tables[k] \in TableRecords /\ tables[k].length >= HeaderLen
    <2>1. tables \in Seq(TableRecords)
      BY TableIterAssumption DEF TableRecords
    <2>2. \A k \in 1 .. n : tables[k].length >= HeaderLen
      BY TableIterAssumption
    <2>3. \A k \in 1 .. n : tables[k] \in TableRecords
      BY <2>1
    <2>4. n \in Nat
      BY <2>1
    <2>5. QED
      BY <2>1, <2>2, <2>3, <2>4
  <1>2. ASSUME NEW k \in 1 .. n PROVE Encoded(tables[k]) \in Seq(Nat)
    BY <1>1, EncodedShape DEF Shape
  <1>3. /\ \A k \in 1 .. n : s[k] = Encoded(tables[k])
        /\ s \in [1 .. n -> Seq(Nat)]
    BY <1>2
  <1>4. s \in Seq(Seq(Nat)) /\ Len(s) = n
    <2> HIDE DEF s, n
    <2>1. QED
      BY <1>1, <1>3
  <1>5. memory = FlattenSeq(s)
    BY DEF Memory
  <1>6. ASSUME NEW k \in 0 .. n
        PROVE  Memory(SubSeq(tables, 1, k)) = FlattenSeq(SubSeq(s, 1, k))
    <2> DEFINE part == SubSeq(tables, 1, k)
               bytes == [j \in 1 .. Len(part) |-> Encoded(part[j])]
               other == SubSeq(s, 1, k)
    <2>1. /\ Len(part) = k /\ \A j \in 1 .. k : part[j] = tables[j]
      BY <1>1, PrefixOf
    <2>2. /\ other \in Seq(Seq(Nat)) /\ Len(other) = k
          /\ \A j \in 1 .. k : other[j] = s[j]
      <3> HIDE DEF s, n
      <3>1. QED
        BY <1>4, PrefixOf
    <2>3. \A j \in 1 .. k : j \in 1 .. n
      BY <1>1
    <2> HIDE DEF part
    <2>4. DOMAIN bytes = 1 .. k /\ \A j \in 1 .. k : bytes[j] = s[j]
      BY <1>3, <2>1, <2>3
    <2>5. bytes = [j \in DOMAIN bytes |-> bytes[j]]
      OBVIOUS
    <2> HIDE DEF bytes, other, s, n
    <2>6. other = [j \in 1 .. k |-> other[j]]
      BY <2>2
    <2>7. bytes = other
      BY <2>2, <2>4, <2>5, <2>6
    <2>8. QED
      BY <2>7 DEF Memory, bytes, other, part
  <1> HIDE DEF s, n
  <1>7. PICK starts : Flattened(s, n, Nat, starts)
    BY <1>4, FlatParts
  <1>8. ASSUME NEW k \in 1 .. n + 1
        PROVE  StartOf(tables, k) = starts[k - 1]
    <2>1. k - 1 \in 0 .. n
      BY <1>1
    <2>2. QED
      BY <1>6, <1>7, <2>1 DEF StartOf, Flattened
  <1>9. /\ starts \in [0 .. n -> Nat] /\ starts[0] = 0
        /\ \A k \in 1 .. n : /\ starts[k] = starts[k - 1] + Len(s[k])
                             /\ starts[k] <= starts[n]
        /\ memory \in Seq(Nat) /\ Len(memory) = starts[n]
        /\ \A k \in 1 .. n : \A i \in 1 .. Len(s[k]) :
             memory[starts[k - 1] + i] = s[k][i]
    BY <1>5, <1>7 DEF Flattened
  <1>10. /\ 1 \in 1 .. n + 1 /\ 1 - 1 = 0
         /\ n + 1 \in 1 .. n + 1 /\ n + 1 - 1 = n
    BY <1>1
  <1>11. StartOf(tables, 1) = 0 /\ StartOf(tables, n + 1) = Len(memory)
    <2>1. StartOf(tables, 1) = starts[1 - 1]
      BY <1>8, <1>10
    <2> DEFINE past == n + 1
    <2>a. past \in 1 .. n + 1 /\ past - 1 = n
      BY <1>1
    <2> HIDE DEF past
    <2>2. StartOf(tables, past) = starts[past - 1]
      BY <1>8, <2>a
    <2>3. StartOf(tables, 1) = starts[0]
      BY <1>10, <2>1
    <2>4. StartOf(tables, n + 1) = starts[n]
      BY <2>2, <2>a DEF past
    <2>5. QED
      BY <1>9, <2>3, <2>4
  <1>12. ASSUME NEW k \in 1 .. n
         PROVE  InMemory(k)
    <2> DEFINE p == StartOf(tables, k)
               e == Encoded(tables[k])
    <2>1. /\ k \in 1 .. n + 1 /\ k + 1 \in 1 .. n + 1 /\ k + 1 - 1 = k
          /\ k - 1 \in 0 .. n
      BY <1>1
    <2>2. /\ p = starts[k - 1] /\ StartOf(tables, k + 1) = starts[k]
      BY <1>8, <2>1
    <2>3. e = s[k] /\ e \in Seq(Nat) /\ Len(e) \in Nat
      BY <1>2, <1>3
    <2> HIDE DEF p, e
    <2>4. /\ p \in Nat /\ Len(memory) \in Nat
          /\ starts[k] = p + Len(e) /\ p + Len(e) <= Len(memory)
      <3>1. starts[k - 1] \in Nat /\ starts[n] \in Nat
        BY <1>1, <1>9, <2>1
      <3>2. starts[k] = starts[k - 1] + Len(s[k]) /\ starts[k] <= starts[n]
        BY <1>9
      <3>3. QED
        BY <1>9, <2>2, <2>3, <3>1, <3>2
    <2>5. ASSUME NEW i \in 1 .. Len(e)
          PROVE  Mem(p + i - 1) = e[i]
      <3>1. p + i - 1 < Len(memory) /\ p + i - 1 + 1 = p + i
        BY <2>3, <2>4
      <3>2. memory[p + i] = e[i]
        BY <1>9, <2>2, <2>3
      <3>3. QED
        BY <3>1, <3>2 DEF Mem
    <2>6. QED
      BY <2>2, <2>4, <2>5 DEF InMemory, p, e
  <1>13. Len(memory) \in Nat
    BY <1>9
  <1>14. QED
    BY <1>1, <1>11, <1>12, <1>13 DEF n
-----------------------------------------------------------------------------
LEMMA MinOfNats ==
  ASSUME NEW S \in SUBSET Nat, S # {}
  PROVE  Min(S) \in S /\ \A y \in S : Min(S) <= y
  BY LeastElement DEF Min

LEMMA MinIs ==
  ASSUME NEW S \in SUBSET Nat, NEW y \in S, \A z \in S : y <= z
  PROVE  Min(S) = y
  <1>1. Min(S) \in S /\ Min(S) <= y /\ y <= Min(S)
    BY MinOfNats
  <1>2. \A a, b \in Nat : a <= b /\ b <= a => a = b
    OBVIOUS
  <1>3. QED
    BY <1>1, <1>2

(* Behind the tables there are null bytes, so that a search ends.          *)
LEMMA NullFound ==
  ASSUME NEW p \in Nat, Len(memory) \in Nat
  PROVE  /\ NullAfter(p) \in Nat /\ p <= NullAfter(p)
         /\ Mem(NullAfter(p)) = 0
         /\ p < Len(memory) => NullAfter(p) <= Len(memory)
         /\ \A q \in Nat : p <= q /\ q < NullAfter(p) => Mem(q) # 0
  <1> DEFINE n == Len(memory)
             nulls == {q \in p .. p + n : Mem(q) = Byte.null}
  <1>1. Byte.null = 0
    BY DEF Byte
  <1>2. n \in Nat /\ \A q \in Nat : ~(q < n) => Mem(q) = 0
    BY <1>1 DEF Mem
  <1> HIDE DEF n
  <1>3. p + n \in nulls
    BY <1>1, <1>2
  <1>4. p < n => n \in nulls
    BY <1>1, <1>2
  <1>5. nulls \in SUBSET Nat /\ nulls # {}
    BY <1>2, <1>3
  <1>6. NullAfter(p) = Min(nulls)
    BY DEF NullAfter, n
  <1>7. \A q : q \in nulls <=>
                 q \in Nat /\ p <= q /\ q <= p + n /\ Mem(q) = 0
    BY <1>1, <1>2
  <1> HIDE DEF nulls
  <1>8. NullAfter(p) \in nulls /\ \A y \in nulls : NullAfter(p) <= y
    BY <1>5, <1>6, MinOfNats
  <1>9. /\ NullAfter(p) \in Nat /\ p <= NullAfter(p)
        /\ NullAfter(p) <= p + n /\ Mem(NullAfter(p)) = 0
    BY <1>7, <1>8
  <1>10. p < n => NullAfter(p) <= n
    BY <1>4, <1>8
  <1>11. ASSUME NEW q \in Nat, p <= q, q < NullAfter(p), Mem(q) = 0
         PROVE  FALSE
    <2>1. q \in nulls
      BY <1>2, <1>7, <1>9, <1>11
    <2>2. NullAfter(p) <= q
      BY <1>8, <2>1
    <2>3. QED
      BY <1>9, <1>11, <2>2
  <1>12. QED
    BY <1>9, <1>10, <1>11 DEF n

LEMMA NullIs ==
  ASSUME NEW p \in Nat, NEW r \in Nat, p <= r, r <= Len(memory),
         Len(memory) \in Nat, Mem(r) = 0,
         \A q \in Nat : p <= q /\ q < r => Mem(q) # 0
  PROVE  NullAfter(p) = r
  <1>1. /\ NullAfter(p) \in Nat /\ p <= NullAfter(p)
        /\ Mem(NullAfter(p)) = 0
        /\ \A q \in Nat : p <= q /\ q < NullAfter(p) => Mem(q) # 0
    BY NullFound
  <1>2. ~(r < NullAfter(p)) /\ ~(NullAfter(p) < r)
    BY <1>1
  <1>3. \A a, b \in Nat : ~(a < b) /\ ~(b < a) => a = b
    OBVIOUS
  <1>4. QED
    BY <1>1, <1>2, <1>3

(* Where the strings of the k-th table are: at[j] is behind the null byte  *)
(* of the j-th.                                                            *)
Behind(k) == StartOf(tables, k) + tables[k].length
StringsAt(k, at) ==
  LET m == Len(tables[k].strings)
  IN /\ m \in Nat /\ at \in [0 .. m -> Nat] /\ at[0] = Behind(k)
     /\ \A j \in 1 .. m : /\ at[j] = at[j - 1] + tables[k].strings[j] + 1
                          /\ Mem(at[j - 1]) # 0
                          /\ NullAfter(at[j - 1]) + 1 = at[j]
     /\ \A j \in 0 .. m : at[j] <= at[m]
     /\ Mem(at[m]) = 0 /\ at[m] < Len(memory)
     /\ StartOf(tables, k + 1) = at[m] + IF m = 0 THEN 2 ELSE 1

LEMMA StringsInMemory ==
  ASSUME NEW k, InMemory(k), tables[k] \in TableRecords,
         tables[k].length >= HeaderLen
  PROVE  /\ HeaderType(StartOf(tables, k)) = tables[k].type
         /\ Strings(StartOf(tables, k)) = Behind(k)
         /\ \E at : StringsAt(k, at)
  <1> DEFINE t == tables[k]
             p == StartOf(tables, k)
             m == Len(t.strings)
             e == Encoded(t)
  <1>1. PICK offs : Shape(t, e, offs)
    BY EncodedShape
  <1>2. /\ t.length \in Nat /\ t.length >= 4 /\ m \in Nat
        /\ \A j \in 1 .. m : t.strings[j] \in Nat /\ t.strings[j] >= 1
    <2>1. t.length \in Nat /\ t.length >= 4 /\ t.strings \in Seq(Nat \ {0})
      BY DEF TableRecords, HeaderLen
    <2>2. \A j \in 1 .. m : t.strings[j] \in Nat \ {0}
      BY <2>1
    <2>3. m \in Nat
      BY <2>1
    <2> HIDE DEF t, m
    <2>4. \A j \in 1 .. m : t.strings[j] \in Nat /\ t.strings[j] >= 1
      BY <2>2
    <2>5. QED
      BY <2>1, <2>3, <2>4
  <1>3. /\ p \in Nat /\ Len(memory) \in Nat
        /\ StartOf(tables, k + 1) = p + Len(e)
        /\ p + Len(e) <= Len(memory)
        /\ \A i \in 1 .. Len(e) : Mem(p + i - 1) = e[i]
    BY DEF InMemory
  <1> HIDE DEF t, p, e, m
  <1>4. /\ e \in Seq(Nat) /\ e[1] = t.type /\ e[2] = t.length
        /\ offs \in [0 .. m -> Nat] /\ offs[0] = 0
        /\ \A j \in 1 .. m : /\ offs[j] = offs[j - 1] + t.strings[j] + 1
                             /\ offs[j] <= offs[m]
    BY <1>1 DEF Shape, m
  <1>5. /\ m = 0 => /\ Len(e) = t.length + 2
                    /\ e[t.length + 1] = 0 /\ e[t.length + 2] = 0
        /\ m # 0 => /\ Len(e) = t.length + offs[m] + 1
                    /\ e[t.length + offs[m] + 1] = 0
                    /\ \A j \in 1 .. m :
                         /\ \A i \in 1 .. t.strings[j] :
                              e[t.length + offs[j - 1] + i] = 1
                         /\ e[t.length + offs[j]] = 0
    BY <1>1 DEF Shape, m
  <1>6. /\ offs[m] \in Nat /\ Len(e) \in Nat
        /\ Len(e) = t.length + offs[m] + (IF m = 0 THEN 2 ELSE 1)
        /\ e[t.length + offs[m] + 1] = 0
    <2>1. m \in 0 .. m
      BY <1>2
    <2>2. \A a \in Nat : a + 0 + 2 = a + 2 /\ a + 0 + 1 = a + 1
      OBVIOUS
    <2>3. offs[m] \in Nat /\ Len(e) \in Nat
      BY <1>4, <2>1
    <2>4. CASE m = 0
      BY <1>2, <1>4, <1>5, <2>2, <2>3, <2>4
    <2>5. CASE m # 0
      BY <1>5, <2>3, <2>5
    <2>6. QED
      BY <2>4, <2>5
  <1> DEFINE h == t.length
             z == offs[m]
             n == Len(e)
             q == p + h
             at == [j \in 0 .. m |-> q + offs[j]]
  <1>g. /\ h \in Nat /\ z \in Nat /\ n \in Nat /\ p \in Nat /\ q \in Nat
        /\ m \in Nat
        /\ h >= 4 /\ h + z + 1 <= n /\ Len(memory) \in Nat
        /\ p + n <= Len(memory) /\ q = p + h
    BY <1>2, <1>3, <1>6
  <1>e. /\ \A i \in 1 .. n : Mem(p + i - 1) = e[i]
        /\ e[1] = t.type /\ e[2] = h /\ e[h + z + 1] = 0
    BY <1>3, <1>4, <1>6
  <1>7. HeaderType(p) = t.type /\ HeaderLength(p) = h
    <2> HIDE DEF h, z, n, q, at
    <2>1. 1 \in 1 .. n /\ 2 \in 1 .. n
      BY <1>g
    <2>2. Mem(p + 1 - 1) = e[1] /\ Mem(p + 2 - 1) = e[2]
      BY <1>e, <2>1
    <2>3. p + 1 - 1 = p /\ p + 2 - 1 = p + 1
      BY <1>g
    <2>4. QED
      BY <1>e, <2>2, <2>3 DEF HeaderType, HeaderLength
  <1>8. /\ at \in [0 .. m -> Nat]
        /\ \A j \in 0 .. m : at[j] = q + offs[j] /\ offs[j] \in Nat
        /\ at[0] = q /\ at[m] = q + z
    <2>1. \A j \in 0 .. m : offs[j] \in Nat
      BY <1>4
    <2> HIDE DEF h, n, q
    <2>2. at \in [0 .. m -> Nat]
      <3>1. \A a, b \in Nat : a + b \in Nat
        OBVIOUS
      <3>2. \A j \in 0 .. m : q + offs[j] \in Nat
        BY <1>g, <2>1, <3>1
      <3>3. QED
        BY <3>2
    <2>3. 0 \in 0 .. m /\ m \in 0 .. m /\ q + 0 = q
      BY <1>g
    <2>4. QED
      BY <1>4, <2>1, <2>2, <2>3
  <1>o. \A j \in 1 .. m : offs[j] <= z
    BY <1>4
  <1> HIDE DEF at, h, z, n, q
  <1>9. \A j \in 0 .. m : at[j] <= at[m]
    <2> SUFFICES ASSUME NEW j \in 0 .. m PROVE at[j] <= at[m]
      OBVIOUS
    <2>1. j # 0 => j \in 1 .. m
      BY <1>g
    <2>2. offs[j] \in Nat /\ at[j] = q + offs[j] /\ at[m] = q + z
      BY <1>8
    <2>3. offs[j] <= z
      <3>1. CASE j = 0
        BY <1>4, <1>g, <3>1
      <3>2. CASE j # 0
        BY <1>o, <2>1, <3>2
      <3>3. QED
        BY <3>1, <3>2
    <2>4. \A x, y, o \in Nat : x <= y => o + x <= o + y
      OBVIOUS
    <2>5. QED
      BY <1>g, <2>2, <2>3, <2>4
  (* The byte at i from the place behind the data.                         *)
  <1>10. ASSUME NEW i \in Nat, i <= z
         PROVE  Mem(q + i) = e[h + i + 1]
    <2>1. h + i + 1 \in 1 .. n
      BY <1>g, <1>10
    <2>2. p + (h + i + 1) - 1 = q + i
      BY <1>g
    <2>3. QED
      BY <1>e, <2>1, <2>2
  <1>11. Mem(at[m]) = 0 /\ at[m] < Len(memory)
    <2>1. Mem(q + z) = 0
      BY <1>e, <1>g, <1>10
    <2>2. q + z < Len(memory)
      BY <1>g
    <2>3. QED
      BY <1>8, <2>1, <2>2
  <1>12. StartOf(tables, k + 1) = at[m] + IF m = 0 THEN 2 ELSE 1
    <2> DEFINE end == IF m = 0 THEN 2 ELSE 1
    <2>1. end \in Nat
      OBVIOUS
    <2>2. n = h + z + end
      BY <1>6 DEF n, h, z
    <2> HIDE DEF end
    <2>3. p + n = q + z + end
      BY <1>g, <2>1, <2>2
    <2>4. QED
      BY <1>3, <1>8, <2>3 DEF end, n
  <1>13. ASSUME NEW j \in 1 .. m
         PROVE  /\ at[j] = at[j - 1] + t.strings[j] + 1
                /\ Mem(at[j - 1]) # 0
                /\ NullAfter(at[j - 1]) + 1 = at[j]
    <2> DEFINE a == offs[j - 1]
               b == offs[j]
               l == t.strings[j]
    <2>1. j - 1 \in 0 .. m /\ j \in 0 .. m /\ m # 0
      BY <1>g
    <2>2. /\ a \in Nat /\ b \in Nat /\ b = a + l + 1 /\ b <= z
          /\ at[j - 1] = q + a /\ at[j] = q + b
          /\ l \in Nat /\ l >= 1
      BY <1>2, <1>4, <1>8, <1>o, <2>1
    <2>3. /\ \A i \in 1 .. l : e[h + a + i] = 1
          /\ e[h + b] = 0
      BY <1>5, <2>1 DEF h
    <2> HIDE DEF a, b, l
    <2>g. \A i \in Nat : i <= l => a + i \in Nat /\ a + i <= z
      <3>1. \A x, y, c, i \in Nat :
              x + y + 1 <= c /\ i <= y => x + i \in Nat /\ x + i <= c
        OBVIOUS
      <3>2. a \in Nat /\ l \in Nat /\ z \in Nat /\ a + l + 1 <= z
        BY <1>g, <2>2
      <3>3. QED
        BY <3>1, <3>2
    <2>4. ASSUME NEW i \in Nat, i < l
          PROVE  Mem(q + a + i) = 1
      <3>1. a + i \in Nat /\ a + i <= z /\ i + 1 \in 1 .. l
        BY <2>2, <2>4, <2>g
      <3>2. Mem(q + (a + i)) = e[h + (a + i) + 1]
        BY <1>10, <3>1
      <3>3. \A x, y, v \in Nat : /\ x + (y + v) = x + y + v
                                /\ x + (y + v) + 1 = x + y + (v + 1)
        OBVIOUS
      <3>4. q \in Nat /\ h \in Nat /\ a \in Nat
        BY <1>g, <2>2
      <3>5. /\ q + (a + i) = q + a + i
            /\ h + (a + i) + 1 = h + a + (i + 1)
        BY <2>4, <3>3, <3>4
      <3>6. QED
        BY <2>3, <3>1, <3>2, <3>5
    <2>5. Mem(q + a + l) = 0
      <3>1. a + l \in Nat /\ a + l <= z
        BY <2>2, <2>g
      <3>2. Mem(q + (a + l)) = e[h + (a + l) + 1]
        BY <1>10, <3>1
      <3>3. /\ q + (a + l) = q + a + l
            /\ h + (a + l) + 1 = h + b
        BY <1>g, <2>2
      <3>4. QED
        BY <2>3, <3>2, <3>3
    <2>6. q + a + l <= Len(memory)
      BY <1>g, <2>2
    <2>7. ASSUME NEW x \in Nat, q + a <= x, x < q + a + l
          PROVE  Mem(x) # 0
      <3> DEFINE i == x - (q + a)
      <3>1. i \in Nat /\ i < l /\ q + a + i = x
        BY <1>g, <2>2, <2>7
      <3> HIDE DEF i
      <3>2. Mem(q + a + i) = 1
        BY <2>4, <3>1
      <3>3. QED
        BY <3>1, <3>2
    <2>8. NullAfter(q + a) = q + a + l
      <3>1. q + a \in Nat /\ q + a + l \in Nat /\ q + a <= q + a + l
        BY <1>g, <2>2
      <3>2. QED
        BY <1>g, <2>5, <2>6, <2>7, <3>1, NullIs
    <2>9. Mem(q + a) # 0
      <3>1. q + a \in Nat /\ q + a < q + a + l /\ q + a <= q + a
        BY <1>g, <2>2
      <3>2. QED
        BY <2>7, <3>1
    <2>10. q + b = q + a + l + 1
      BY <1>g, <2>2
    <2>11. QED
      BY <2>2, <2>8, <2>9, <2>10 DEF l
  <1>14. q = Behind(k) /\ Strings(p) = q
    BY <1>7 DEF Behind, Strings, p, t, q, h
  <1>15. StringsAt(k, at)
    BY <1>2, <1>8, <1>9, <1>11, <1>12, <1>13, <1>14 DEF StringsAt, m, t
  <1>16. QED
    BY <1>7, <1>14, <1>15 DEF p, t
-----------------------------------------------------------------------------
(* The search for the end of the strings: the recursion of EndOfStrings()  *)
(* has a solution, the next null byte behind a null byte.                  *)
Twice(r) == {x \in Nat : x > r /\ Mem(x) = 0 /\ Mem(x - 1) = 0}
Ends(r) == IF Mem(r) = 0 THEN r ELSE Min(Twice(r))

LEMMA EndsRecursion ==
  ASSUME NEW r \in Nat, Len(memory) \in Nat, Mem(r) # 0
  PROVE  /\ Ends(r) = Ends(NullAfter(r) + 1)
         /\ r < Len(memory)
         /\ NullAfter(r) + 1 \in Nat
         /\ NullAfter(r) + 1 <= Len(memory) + 1
         /\ r < NullAfter(r) + 1
  <1> DEFINE n == NullAfter(r)
             s == n + 1
  <1>0. \A q \in Nat : ~(q < Len(memory)) => Mem(q) = 0
    BY DEF Mem, Byte
  <1>1. /\ n \in Nat /\ r <= n /\ Mem(n) = 0 /\ r < Len(memory)
        /\ n <= Len(memory)
        /\ \A q \in Nat : r <= q /\ q < n => Mem(q) # 0
    BY <1>0, NullFound
  <1> HIDE DEF n
  <1>2. s \in Nat /\ s - 1 = n /\ r < s /\ n # r
    BY <1>1
  <1> HIDE DEF s
  <1>3. Ends(r) = Min(Twice(r))
    BY DEF Ends
  <1>4. ASSUME NEW x \in Nat, x > r, Mem(x) = 0, Mem(x - 1) = 0
        PROVE  s <= x
    <2>1. x - 1 \in Nat /\ r <= x - 1
      BY <1>4
    <2>2. ~(x - 1 < n)
      BY <1>1, <1>4, <2>1
    <2>3. \A a, b, c \in Nat :
            a - 1 \in Nat /\ ~(a - 1 < b) /\ c - 1 = b => c <= a
      OBVIOUS
    <2>4. QED
      BY <1>1, <1>2, <2>1, <2>2, <2>3
  <1>5. CASE Mem(s) = 0
    <2>1. s \in Twice(r)
      BY <1>1, <1>2, <1>5 DEF Twice
    <2>2. \A x \in Twice(r) : s <= x
      BY <1>4 DEF Twice
    <2>3. Twice(r) \in SUBSET Nat
      BY DEF Twice
    <2>4. Min(Twice(r)) = s
      BY <2>1, <2>2, <2>3, MinIs
    <2>5. Ends(r) = Ends(s)
      BY <1>3, <1>5, <2>4 DEF Ends
    <2>6. QED
      BY <1>1, <1>2, <2>5 DEF s, n
  <1>6. CASE Mem(s) # 0
    <2>1. \A x \in Nat : s <= x /\ x # s => x > s
      BY <1>2
    <2>2. \A x \in Nat : x > s => x > r
      BY <1>2
    <2>3. \A x : x \in Twice(r) <=> x \in Twice(s)
      BY <1>4, <1>6, <2>1, <2>2 DEF Twice
    <2>4. Twice(r) = Twice(s)
      BY <2>3
    <2>5. Ends(s) = Min(Twice(s))
      BY <1>6 DEF Ends
    <2>6. Ends(r) = Ends(s)
      BY <1>3, <2>4, <2>5
    <2>7. QED
      BY <1>1, <1>2, <2>6 DEF s, n
  <1>7. QED
    BY <1>5, <1>6

LEMMA EndOfStringsAt ==
  ASSUME NEW k, NEW at, StringsAt(k, at), Len(memory) \in Nat
  PROVE  EndOfStrings(Behind(k)) = at[Len(tables[k].strings)]
  <1> DEFINE m == Len(tables[k].strings)
             p == Behind(k)
             D == 0 .. 2 * Len(memory) + p
             Rec(f) == [q \in 0 .. 2 * Len(memory) + p |->
                          IF Mem(q) = Byte.null THEN q
                          ELSE f[NullAfter(q) + 1]]
             end == CHOOSE f : f = Rec(f)
             some == [q \in D |-> Ends(q)]
  <1>1. EndOfStrings(p) = end[p]
    BY DEF EndOfStrings
  <1>2. /\ m \in Nat /\ at \in [0 .. m -> Nat] /\ at[0] = p
        /\ \A j \in 1 .. m : /\ Mem(at[j - 1]) # 0
                             /\ NullAfter(at[j - 1]) + 1 = at[j]
        /\ \A j \in 0 .. m : at[j] <= at[m]
        /\ Mem(at[m]) = 0 /\ at[m] < Len(memory)
    BY DEF StringsAt
  <1> HIDE DEF p, m
  <1>3. p \in Nat /\ 0 \in 0 .. m
    BY <1>2
  <1>4. \A q \in Nat : q <= Len(memory) + 1 /\ 1 <= Len(memory) => q \in D
    BY <1>3
  <1>5. Byte.null = 0
    BY DEF Byte
  <1>6. ASSUME NEW q \in D
        PROVE  some[q] = IF Mem(q) = Byte.null THEN q
                         ELSE some[NullAfter(q) + 1]
    <2>1. q \in Nat
      BY <1>3
    <2> HIDE DEF D
    <2>2. CASE Mem(q) = 0
      BY <1>5, <2>2 DEF Ends
    <2>3. CASE Mem(q) # 0
      <3>1. /\ Ends(q) = Ends(NullAfter(q) + 1)
            /\ q < Len(memory)
            /\ NullAfter(q) + 1 \in Nat
            /\ NullAfter(q) + 1 <= Len(memory) + 1
        BY <2>1, <2>3, EndsRecursion
      <3>2. 1 <= Len(memory)
        BY <2>1, <3>1
      <3>3. NullAfter(q) + 1 \in D
        BY <1>4, <3>1, <3>2
      <3>4. QED
        BY <1>5, <2>3, <3>1, <3>3
    <2>4. QED
      BY <2>2, <2>3
  <1>7. some = Rec(some)
    <2> DEFINE other == Rec(some)
    <2>1. \A q \in D : some[q] = other[q]
      BY <1>6
    <2>2. DOMAIN some = D /\ DOMAIN other = D
      OBVIOUS
    <2>3. some = [q \in D |-> some[q]] /\ other = [q \in D |-> other[q]]
      OBVIOUS
    <2> HIDE DEF some, other, D
    <2>4. some = other
      BY <2>1, <2>3
    <2>5. QED
      BY <2>4 DEF other
  <1> HIDE DEF some
  <1>8. end = Rec(end)
    <2> HIDE DEF Rec
    <2>1. \E f : f = Rec(f)
      BY <1>7
    <2>2. QED
      BY <2>1
  <1> HIDE DEF end
  <1>9. \A q \in D : end[q] = IF Mem(q) = 0 THEN q ELSE end[NullAfter(q) + 1]
    BY <1>5, <1>8
  <1>10. \A j \in 0 .. m : at[j] \in D /\ at[j] \in Nat
    <2> SUFFICES ASSUME NEW j \in 0 .. m PROVE at[j] \in D /\ at[j] \in Nat
      OBVIOUS
    <2>1. at[j] \in Nat /\ at[j] <= at[m] /\ at[m] < Len(memory)
      BY <1>2
    <2>2. m \in 0 .. m
      BY <1>2
    <2>3. at[m] \in Nat
      BY <1>2, <2>2
    <2>4. at[j] <= Len(memory) + 1 /\ 1 <= Len(memory)
      BY <2>1, <2>3
    <2> HIDE DEF D
    <2>5. QED
      BY <1>4, <2>1, <2>4
  <1> HIDE DEF D
  (* Every string has the same end behind it.                              *)
  <1> DEFINE Wrongs == {i \in 0 .. m : end[at[m - i]] # at[m]}
  <1>11. ASSUME Wrongs # {} PROVE FALSE
    <2>1. Wrongs \in SUBSET Nat
      BY <1>2
    <2>2. PICK i \in Wrongs : \A l \in Wrongs : i <= l
      <3> HIDE DEF Wrongs
      <3>1. QED
        BY <1>11, <2>1, LeastElement
    <2>3. i \in 0 .. m /\ end[at[m - i]] # at[m]
      OBVIOUS
    <2>4. i # 0
      <3>1. m - 0 = m /\ m \in 0 .. m
        BY <1>2
      <3>2. end[at[m]] = at[m]
        BY <1>2, <1>9, <1>10, <3>1
      <3>3. QED
        BY <2>3, <3>1, <3>2
    <2>5. /\ m - i + 1 \in 1 .. m /\ m - i + 1 - 1 = m - i
          /\ m - i \in 0 .. m /\ i - 1 \in 0 .. m /\ ~(i <= i - 1)
          /\ m - (i - 1) = m - i + 1
      BY <1>2, <2>3, <2>4
    <2>6. end[at[m - (i - 1)]] = at[m]
      BY <2>2, <2>5
    <2>7. Mem(at[m - i]) # 0 /\ NullAfter(at[m - i]) + 1 = at[m - i + 1]
      <3> DEFINE j == m - i + 1
      <3>1. j \in 1 .. m /\ j - 1 = m - i
        BY <2>5
      <3> HIDE DEF j
      <3>2. Mem(at[j - 1]) # 0 /\ NullAfter(at[j - 1]) + 1 = at[j]
        BY <1>2, <3>1
      <3>3. QED
        BY <3>1, <3>2 DEF j
    <2>8. end[at[m - i]] = end[at[m - i + 1]]
      BY <1>9, <1>10, <2>5, <2>7
    <2>9. QED
      BY <2>3, <2>5, <2>6, <2>8
  <1>12. end[at[0]] = at[m]
    <2>1. m \in 0 .. m /\ m - m = 0
      BY <1>2
    <2>2. end[at[m - m]] = at[m]
      BY <1>11, <2>1
    <2>3. QED
      BY <2>1, <2>2
  <1>13. QED
    BY <1>1, <1>2, <1>12 DEF p, m
-----------------------------------------------------------------------------
(* The num-th string is found where it is, and none behind the last.       *)
LEMMA GetStringAt ==
  ASSUME NEW k, NEW at, StringsAt(k, at), Len(memory) \in Nat,
         NEW num \in Nat
  PROVE  GetString(Behind(k), num)
           = IF num < Len(tables[k].strings) THEN at[num] ELSE Null
  <1> DEFINE m == Len(tables[k].strings)
             p == Behind(k)
             Rec(f) == [n \in 0 .. num |->
                          IF n = 0 THEN p
                          ELSE IF Mem(f[n - 1]) = Byte.null THEN f[n - 1]
                          ELSE NullAfter(f[n - 1]) + 1]
             string == CHOOSE f : f = Rec(f)
             next == [n \in 1 .. num |->
                        [x \in Nat |-> IF Mem(x) = Byte.null THEN x
                                       ELSE NullAfter(x) + 1]]
  <1>1. GetString(p, num) = IF Mem(string[num]) = Byte.null THEN Null
                            ELSE string[num]
    BY DEF GetString
  <1>2. /\ m \in Nat /\ at \in [0 .. m -> Nat] /\ at[0] = p
        /\ \A j \in 1 .. m : /\ Mem(at[j - 1]) # 0
                             /\ NullAfter(at[j - 1]) + 1 = at[j]
        /\ Mem(at[m]) = 0
    BY DEF StringsAt
  <1>3. Byte.null = 0
    BY DEF Byte
  <1> HIDE DEF m, p
  <1>4. p \in Nat /\ 0 \in 0 .. m
    BY <1>2
  <1>5. \A x \in Nat : NullAfter(x) + 1 \in Nat
    BY NullFound
  <1>6. next \in [1 .. num -> [Nat -> Nat]]
    BY <1>5
  <1>7. \A n \in 1 .. num, x \in Nat :
          next[n][x] = IF Mem(x) = Byte.null THEN x ELSE NullAfter(x) + 1
    OBVIOUS
  <1> HIDE DEF next
  <1>8. PICK steps : StepsBy(steps, p, Nat, num, next)
    BY <1>4, <1>6, StepsExist
  <1>9. /\ steps \in [0 .. num -> Nat] /\ steps[0] = p
        /\ \A n \in 1 .. num : steps[n] = next[n][steps[n - 1]]
    BY <1>8 DEF StepsBy
  <1>10. steps = Rec(steps)
    <2> DEFINE other == Rec(steps)
    <2>1. ASSUME NEW n \in 0 .. num PROVE steps[n] = other[n]
      <3>1. CASE n = 0
        BY <1>9, <3>1
      <3>2. CASE n # 0
        <4>1. n \in 1 .. num /\ n - 1 \in 0 .. num
          BY <3>2
        <4>2. steps[n - 1] \in Nat
          BY <1>9, <4>1
        <4>3. steps[n] = IF Mem(steps[n - 1]) = Byte.null THEN steps[n - 1]
                         ELSE NullAfter(steps[n - 1]) + 1
          BY <1>7, <1>9, <4>1, <4>2
        <4>4. QED
          BY <3>2, <4>3
      <3>3. QED
        BY <3>1, <3>2
    <2>2. /\ steps = [n \in 0 .. num |-> steps[n]]
          /\ other = [n \in 0 .. num |-> other[n]]
      BY <1>9
    <2> HIDE DEF other
    <2>3. steps = other
      BY <2>1, <2>2
    <2>4. QED
      BY <2>3 DEF other
  <1>11. string = Rec(string)
    <2> HIDE DEF Rec
    <2>1. \E f : f = Rec(f)
      BY <1>10
    <2>2. QED
      BY <2>1
  <1> HIDE DEF string
  <1>12. /\ string[0] = p
         /\ \A n \in 1 .. num :
              string[n] = IF Mem(string[n - 1]) = 0 THEN string[n - 1]
                          ELSE NullAfter(string[n - 1]) + 1
    <2>1. \A n \in 0 .. num :
            string[n] = IF n = 0 THEN p
                        ELSE IF Mem(string[n - 1]) = 0 THEN string[n - 1]
                        ELSE NullAfter(string[n - 1]) + 1
      BY <1>3, <1>11
    <2>2. 0 \in 0 .. num
      OBVIOUS
    <2>3. string[0] = p
      BY <2>1, <2>2
    <2>4. \A n \in 1 .. num : n \in 0 .. num /\ n # 0
      OBVIOUS
    <2>5. QED
      BY <2>1, <2>3, <2>4
  <1> HIDE DEF Rec
  <1> DEFINE Reached(n) == IF n < m THEN at[n] ELSE at[m]
             Wrongs == {n \in 0 .. num : string[n] # Reached(n)}
  <1>13. ASSUME Wrongs # {} PROVE FALSE
    <2>1. Wrongs \in SUBSET Nat
      OBVIOUS
    <2>2. PICK n \in Wrongs : \A l \in Wrongs : n <= l
      <3> HIDE DEF Wrongs
      <3>1. QED
        BY <1>13, <2>1, LeastElement
    <2>3. n \in 0 .. num /\ string[n] # Reached(n)
      <3> HIDE DEF Reached
      <3>1. QED
        OBVIOUS
    <2>4. n # 0
      <3>1. CASE 0 < m
        BY <1>2, <1>12, <2>3, <3>1
      <3>2. CASE ~(0 < m)
        <4>1. m = 0
          BY <1>2, <3>2
        <4>2. QED
          BY <1>2, <1>12, <2>3, <3>2, <4>1
      <3>3. QED
        BY <3>1, <3>2
    <2>5. n \in 1 .. num /\ n - 1 \in 0 .. num /\ ~(n <= n - 1)
      BY <2>3, <2>4
    <2>6. string[n - 1] = Reached(n - 1)
      <3> HIDE DEF Reached
      <3>1. n - 1 \notin Wrongs
        <4> HIDE DEF Wrongs
        <4>1. QED
          BY <2>2, <2>5
      <3>2. QED
        BY <2>5, <3>1
    <2>7. string[n] = IF Mem(string[n - 1]) = 0 THEN string[n - 1]
                      ELSE NullAfter(string[n - 1]) + 1
      BY <1>12, <2>5
    <2>8. CASE n - 1 < m
      <3>1. n \in 1 .. m
        BY <1>2, <2>5, <2>8
      <3>2. string[n - 1] = at[n - 1]
        BY <2>6, <2>8
      <3>3. string[n] = at[n]
        BY <1>2, <2>7, <3>1, <3>2
      <3>4. n < m \/ n = m
        BY <1>2, <3>1
      <3>5. QED
        BY <2>3, <3>3, <3>4
    <2>9. CASE ~(n - 1 < m)
      <3>1. string[n - 1] = at[m] /\ ~(n < m)
        BY <1>2, <2>5, <2>6, <2>9
      <3>2. QED
        BY <1>2, <2>3, <2>7, <3>1
    <2>10. QED
      BY <2>8, <2>9
  <1>14. string[num] = Reached(num)
    <2>1. num \in 0 .. num
      OBVIOUS
    <2> HIDE DEF Reached
    <2>2. QED
      BY <1>13, <2>1
  <1>15. CASE num < m
    <2>1. num + 1 \in 1 .. m /\ num + 1 - 1 = num
      BY <1>2, <1>15
    <2> DEFINE j == num + 1
    <2>2. j \in 1 .. m /\ j - 1 = num
      BY <2>1
    <2> HIDE DEF j
    <2>3. Mem(at[num]) # 0
      BY <1>2, <2>2
    <2>4. QED
      BY <1>1, <1>3, <1>14, <1>15, <2>3 DEF p, m
  <1>16. CASE ~(num < m)
    BY <1>1, <1>2, <1>3, <1>14, <1>16 DEF p, m
  <1>17. QED
    BY <1>15, <1>16
-----------------------------------------------------------------------------
(* Strings and their null bytes, one after the other.                      *)
LEMMA TextSteps ==
  ASSUME NEW s, NEW n \in Nat, NEW ends \in [0 .. n -> Nat],
         DOMAIN s = 1 .. n, \A k \in 1 .. n : s[k] \in Nat,
         ends[0] = 0,
         \A k \in 1 .. n : ends[k] = ends[k - 1] + s[k] + 1
  PROVE  Text(s) = ends[n]
  <1> DEFINE step == [k \in 1 .. n |->
                        [sum \in Nat |-> sum + s[k] + 1]]
             Sum(g) == [t \in SUBSET DOMAIN s |->
                          IF t = {} THEN 0
                          ELSE g[t \ {Max(t)}] + s[Max(t)] + 1]
             iter == CHOOSE g : g = Sum(g)
  <1>1. Text(s) = iter[DOMAIN s]
    BY DEF Text, FoldLeft, MapThenFoldSet
  <1>2. step \in [1 .. n -> [Nat -> Nat]]
    OBVIOUS
  <1>3. \A k \in 1 .. n, b \in Nat : step[k][b] = b + s[k] + 1
    OBVIOUS
  <1> HIDE DEF step
  <1>4. PICK g \in [SUBSET (1 .. n) -> Nat] : FoldsBy(g, 0, Nat, n, step)
    <2>1. 0 \in Nat
      OBVIOUS
    <2>2. QED
      BY <1>2, <2>1, FoldRecursion
  <1>5. ASSUME NEW t \in SUBSET (1 .. n), t # {}, NEW b \in Nat
        PROVE  step[Max(t)][b] = b + s[Max(t)] + 1
    <2>1. Max(t) \in 1 .. n
      BY <1>5, MaxOfInterval
    <2>2. QED
      BY <1>3, <2>1
  <1>6. g = Sum(g)
    <2>1. ASSUME NEW t \in SUBSET (1 .. n), t # {}
          PROVE  g[t] = g[t \ {Max(t)}] + s[Max(t)] + 1
      <3>1. g[t \ {Max(t)}] \in Nat
        BY <1>4
      <3>2. g[t] = step[Max(t)][g[t \ {Max(t)}]]
        BY <1>4, <2>1, <3>1 DEF FoldsBy
      <3>3. QED
        BY <1>5, <2>1, <3>1, <3>2
    <2>2. g[{}] = 0
      BY <1>4 DEF FoldsBy
    <2>3. QED
      BY <1>4, <2>1, <2>2
  <1>7. iter = Sum(iter)
    BY <1>6
  <1> DEFINE fold == iter
  <1> HIDE DEF iter, fold
  <1>8. FoldsBy(fold, 0, Nat, n, step)
    <2>1. \A t \in SUBSET (1 .. n) :
            fold[t] = IF t = {} THEN 0
                      ELSE fold[t \ {Max(t)}] + s[Max(t)] + 1
      BY <1>7 DEF fold
    <2>2. ASSUME NEW t \in SUBSET (1 .. n), t # {},
                 fold[t \ {Max(t)}] \in Nat
          PROVE  fold[t] = step[Max(t)][fold[t \ {Max(t)}]]
      <3>1. fold[t] = fold[t \ {Max(t)}] + s[Max(t)] + 1
        BY <2>1, <2>2
      <3>2. QED
        BY <1>5, <2>2, <3>1
    <2>3. fold[{}] = 0
      BY <2>1
    <2>4. QED
      BY <2>2, <2>3 DEF FoldsBy
  <1>9. ASSUME NEW k \in 1 .. n
        PROVE  ends[k] = step[k][ends[k - 1]]
    <2>1. k - 1 \in 0 .. n
      OBVIOUS
    <2>2. ends[k - 1] \in Nat
      BY <2>1
    <2>3. QED
      BY <1>3, <2>2
  <1>10. StepsBy(ends, 0, Nat, n, step)
    BY <1>9 DEF StepsBy
  <1>11. FoldOf(fold, n) = ends[n]
    BY <1>8, <1>10, FoldSteps
  <1>12. QED
    BY <1>1, <1>11 DEF fold, FoldOf

LEMMA TextBefore ==
  ASSUME NEW k, NEW at, StringsAt(k, at), tables[k] \in TableRecords,
         NEW num \in 0 .. Len(tables[k].strings)
  PROVE  Behind(k) + Text(SubSeq(tables[k].strings, 1, num)) = at[num]
  <1> DEFINE strings == tables[k].strings
             m == Len(strings)
             q == Behind(k)
             part == SubSeq(strings, 1, num)
             ends == [j \in 0 .. num |-> at[j] - q]
  <1>1. strings \in Seq(Nat \ {0}) /\ m \in Nat
    BY DEF TableRecords
  <1>2. /\ at \in [0 .. m -> Nat] /\ at[0] = q
        /\ \A j \in 1 .. m : at[j] = at[j - 1] + strings[j] + 1
    BY DEF StringsAt
  <1>3. num \in 0 .. m /\ num \in Nat
    BY <1>1
  <1> HIDE DEF strings
  <1>4. /\ part \in Seq(Nat \ {0}) /\ Len(part) = num
        /\ \A j \in 1 .. num : part[j] = strings[j]
    BY <1>1, <1>3, PrefixOf
  <1>5. DOMAIN part = 1 .. num /\ \A j \in 1 .. num : part[j] \in Nat
    BY <1>3, <1>4
  <1> HIDE DEF m, q, part
  <1>6. /\ \A j \in 0 .. num : j \in 0 .. m
        /\ \A j \in 1 .. num : /\ j \in 1 .. m /\ j - 1 \in 0 .. num
                               /\ j \in 0 .. num
    BY <1>1, <1>3
  <1>7. q \in Nat
    BY <1>1, <1>2
  (* The places ascend from the first.                                     *)
  <1> DEFINE Wrongs == {j \in 0 .. num : ~(q <= at[j])}
  <1>8. ASSUME Wrongs # {} PROVE FALSE
    <2>1. Wrongs \in SUBSET Nat
      BY <1>3
    <2>2. PICK j \in Wrongs : \A l \in Wrongs : j <= l
      <3> HIDE DEF Wrongs
      <3>1. QED
        BY <1>8, <2>1, LeastElement
    <2>3. j \in 0 .. num /\ ~(q <= at[j])
      OBVIOUS
    <2>4. j # 0
      BY <1>2, <1>7, <2>3
    <2>5. j \in 1 .. num /\ ~(j <= j - 1)
      BY <1>3, <2>3, <2>4
    <2>6. /\ j - 1 \in 0 .. num /\ j - 1 \in 0 .. m
          /\ j \in 0 .. m /\ j \in 1 .. m
      BY <1>6, <2>3, <2>5
    <2>7. q <= at[j - 1]
      BY <2>2, <2>5, <2>6
    <2>8. at[j] = at[j - 1] + strings[j] + 1 /\ strings[j] \in Nat
      BY <1>2, <1>4, <1>5, <2>5, <2>6
    <2>9. at[j] \in Nat /\ at[j - 1] \in Nat
      BY <1>2, <2>6
    <2>10. QED
      BY <1>7, <2>3, <2>7, <2>8, <2>9
  <1>9. \A j \in 0 .. num : q <= at[j] /\ at[j] \in Nat
    BY <1>2, <1>6, <1>8
  <1> HIDE DEF Wrongs
  <1>10. /\ ends \in [0 .. num -> Nat]
         /\ \A j \in 0 .. num : ends[j] = at[j] - q
    <2>1. \A a, b \in Nat : b <= a => a - b \in Nat
      OBVIOUS
    <2>2. \A j \in 0 .. num : at[j] - q \in Nat
      BY <1>7, <1>9, <2>1
    <2>3. QED
      BY <2>2
  <1> HIDE DEF ends
  <1>11. ends[0] = 0
    <2>1. 0 \in 0 .. num /\ q - q = 0
      BY <1>3, <1>7
    <2>2. QED
      BY <1>2, <1>10, <2>1
  <1>12. ASSUME NEW j \in 1 .. num
         PROVE  ends[j] = ends[j - 1] + part[j] + 1
    <2>1. j \in 0 .. num /\ j - 1 \in 0 .. num /\ j \in 1 .. m
      BY <1>6
    <2>2. ends[j] = at[j] - q /\ ends[j - 1] = at[j - 1] - q
      BY <1>10, <2>1
    <2>3. at[j] = at[j - 1] + part[j] + 1
      BY <1>2, <1>4, <2>1
    <2>4. at[j - 1] \in Nat /\ part[j] \in Nat
      BY <1>5, <1>9, <2>1
    <2>5. \A a, b, c \in Nat : (a + b + 1) - c = (a - c) + b + 1
      OBVIOUS
    <2>6. QED
      BY <1>7, <2>2, <2>3, <2>4, <2>5
  <1>13. Text(part) = ends[num]
    BY <1>3, <1>5, <1>10, <1>11, <1>12, TextSteps
  <1>14. num \in 0 .. num /\ at[num] \in Nat
    BY <1>3, <1>9
  <1>15. \A a, b \in Nat : b + (a - b) = a
    OBVIOUS
  <1>16. q + Text(part) = at[num]
    BY <1>7, <1>10, <1>13, <1>14, <1>15
  <1>17. QED
    BY <1>16 DEF q, part, strings
-----------------------------------------------------------------------------
(* What is found in a table is what firmware wrote there.                  *)
LEMMA PositionFound ==
  ASSUME NEW k, NEW at, StringsAt(k, at), Len(memory) \in Nat,
         tables[k] \in TableRecords, StartOf(tables, k) \in 0 .. Len(memory),
         call.string \in NoString .. 2
  PROVE  /\ Position(k) = IF call.string = NoString THEN StartOf(tables, k)
                          ELSE GetString(Behind(k), call.string)
         /\ Position(k) \in Null .. Len(memory)
  <1> DEFINE m == Len(tables[k].strings)
             num == call.string
             p == StartOf(tables, k)
             text == Text(SubSeq(tables[k].strings, 1, num))
             l == tables[k].length
  <1>1. /\ m \in Nat /\ at \in [0 .. m -> Nat]
        /\ \A j \in 0 .. m : at[j] <= at[m]
        /\ at[m] < Len(memory)
    BY DEF StringsAt
  <1>2. num # NoString => num \in Nat
    BY DEF NoString
  <1>3. Position(k) = IF num = NoString THEN p
                      ELSE IF num >= m THEN Null
                      ELSE p + l + text
    BY DEF Position
  <1>4. Behind(k) = p + l
    BY DEF Behind
  <1>5. p \in 0 .. Len(memory)
    OBVIOUS
  <1>6. num \in 0 .. m => Behind(k) + text = at[num]
    BY TextBefore
  <1>7. num \in Nat =>
          GetString(Behind(k), num) = IF num < m THEN at[num] ELSE Null
    BY GetStringAt
  <1> DEFINE get == GetString(Behind(k), num)
  <1>8. /\ Position(k) = IF num = NoString THEN p ELSE get
        /\ Position(k) \in Null .. Len(memory)
    <2> HIDE DEF m, num, p, text, l, get
    <2>1. CASE num = NoString
      BY <1>3, <1>5, <2>1 DEF Null
    <2>2. CASE num \in Nat /\ num # NoString /\ num < m
      <3>1. num \in 0 .. m /\ m \in 0 .. m /\ ~(num >= m)
        BY <1>1, <2>2
      <3>2. Position(k) = p + l + text
        BY <1>3, <2>2, <3>1
      <3>3. Position(k) = at[num]
        BY <1>4, <1>6, <3>1, <3>2
      <3>4. get = at[num]
        BY <1>7, <2>2 DEF get
      <3>5. at[num] \in Nat /\ at[num] <= at[m] /\ at[m] \in Nat
        BY <1>1, <3>1
      <3>6. at[num] \in Null .. Len(memory)
        BY <1>1, <3>5 DEF Null
      <3>7. QED
        BY <2>2, <3>3, <3>4, <3>6
    <2>3. CASE num \in Nat /\ num # NoString /\ ~(num < m)
      <3>1. num >= m
        BY <1>1, <2>3
      <3>2. Position(k) = Null
        BY <1>3, <2>3, <3>1
      <3>3. get = Null
        BY <1>7, <2>3 DEF get
      <3>4. QED
        BY <2>3, <3>2, <3>3 DEF Null
    <2>4. QED
      BY <1>2, <2>1, <2>2, <2>3
  <1>9. QED
    BY <1>8
-----------------------------------------------------------------------------
(* How many tables of a type there are before the k-th.                    *)
Earlier(type, k) == {l \in Visible : l < k /\ tables[l].type = type}
CountBefore(type, k) == Cardinality(Earlier(type, k))

LEMMA EarlierFinite ==
  ASSUME NEW type, NEW k, Len(tables) \in Nat
  PROVE  IsFiniteSet(Earlier(type, k)) /\ CountBefore(type, k) \in Nat
  <1>1. IsFiniteSet(1 .. Len(tables))
    BY FS_Interval
  <1>2. Earlier(type, k) \in SUBSET (1 .. Len(tables))
    BY DEF Earlier, Visible
  <1>3. IsFiniteSet(Earlier(type, k))
    BY <1>1, <1>2, FS_Subset
  <1>4. QED
    BY <1>3, FS_CardinalityType DEF CountBefore

LEMMA CountSteps ==
  ASSUME NEW type, NEW k \in Visible, Len(tables) \in Nat
  PROVE  CountBefore(type, k + 1)
           = CountBefore(type, k) + IF tables[k].type = type THEN 1 ELSE 0
  <1> DEFINE before == Earlier(type, k)
             after == Earlier(type, k + 1)
  <1>1. Visible \in SUBSET (1 .. Len(tables))
    BY DEF Visible
  <1>2. IsFiniteSet(before) /\ Cardinality(before) \in Nat
    BY EarlierFinite DEF CountBefore
  <1>3. \A l \in Visible : l < k + 1 <=> l < k \/ l = k
    BY <1>1
  <1>4. k \notin before
    BY <1>1 DEF Earlier
  <1>5. CASE tables[k].type = type
    <2>1. after = before \cup {k}
      BY <1>3, <1>5 DEF Earlier
    <2> HIDE DEF before, after
    <2>2. Cardinality(after) = Cardinality(before) + 1
      BY <1>2, <1>4, <2>1, FS_AddElement
    <2>3. QED
      BY <1>5, <2>2 DEF CountBefore, before, after
  <1>6. CASE tables[k].type # type
    <2>1. after = before
      BY <1>3, <1>6 DEF Earlier
    <2>2. QED
      BY <1>2, <1>6, <2>1 DEF CountBefore
  <1>7. QED
    BY <1>5, <1>6

LEMMA CountStrict ==
  ASSUME NEW type, NEW k \in Visible, NEW l \in Visible, l < k,
         tables[l].type = type, Len(tables) \in Nat
  PROVE  CountBefore(type, l) < CountBefore(type, k)
  <1> DEFINE few == Earlier(type, l)
             many == Earlier(type, k)
  <1>1. Visible \in SUBSET (1 .. Len(tables))
    BY DEF Visible
  <1>2. \A j \in Visible : j < l => j < k
    BY <1>1
  <1>3. few \in SUBSET many
    BY <1>2 DEF Earlier
  <1>4. l \in many /\ l \notin few
    BY <1>1 DEF Earlier
  <1>5. /\ IsFiniteSet(many)
        /\ CountBefore(type, l) \in Nat /\ CountBefore(type, k) \in Nat
    BY EarlierFinite
  <1> HIDE DEF few, many
  <1>6. /\ Cardinality(few) <= Cardinality(many)
        /\ Cardinality(many) = Cardinality(few) => many = few
    BY <1>3, <1>5, FS_Subset
  <1>7. Cardinality(many) # Cardinality(few)
    BY <1>4, <1>6
  <1>8. CountBefore(type, l) = Cardinality(few)
        /\ CountBefore(type, k) = Cardinality(many)
    BY DEF CountBefore, few, many
  <1>9. QED
    BY <1>5, <1>6, <1>7, <1>8

LEMMA CountFirst ==
  ASSUME NEW type
  PROVE  CountBefore(type, 1) = 0
  <1>1. Earlier(type, 1) = {}
    BY DEF Earlier, Visible
  <1>2. QED
    BY <1>1, FS_EmptySet DEF CountBefore

(* Tables are in their order.                                              *)
LEMMA StartsAscend ==
  ASSUME tables \in Lists, memory = Memory(tables),
         NEW k \in 1 .. Len(tables), NEW l \in k + 1 .. Len(tables)
  PROVE  StartOf(tables, k + 1) <= StartOf(tables, l)
  <1> DEFINE n == Len(tables)
             from == k + 1
             Start(j) == StartOf(tables, j)
             Wrongs == {j \in from .. n : ~(Start(from) <= Start(j))}
  <1>1. n \in Nat /\ \A j \in 1 .. n : InMemory(j)
    BY MemoryOfTables
  <1>2. ASSUME NEW j \in 1 .. n
        PROVE  /\ Start(j) \in Nat /\ Start(j + 1) \in Nat
               /\ Start(j) <= Start(j + 1)
    <2> DEFINE e == Encoded(tables[j])
    <2>1. InMemory(j)
      BY <1>1
    <2>2. /\ Start(j) \in Nat /\ Start(j + 1) = Start(j) + Len(e)
          /\ Len(e) \in Nat
      BY <2>1 DEF InMemory
    <2> HIDE DEF e, Start
    <2>3. QED
      BY <2>2
  <1>3. from \in Nat /\ from \in 2 .. n
    BY <1>1
  <1> HIDE DEF Start, from, n
  <1>4. ASSUME Wrongs # {} PROVE FALSE
    <2>1. Wrongs \in SUBSET Nat
      BY <1>1, <1>3
    <2>2. PICK j \in Wrongs : \A i \in Wrongs : j <= i
      <3> HIDE DEF Wrongs
      <3>1. QED
        BY <1>4, <2>1, LeastElement
    <2>3. j \in from .. n /\ ~(Start(from) <= Start(j))
      OBVIOUS
    <2>4. from \in 1 .. n /\ j \in 1 .. n
      BY <1>1, <1>3, <2>3
    <2>5. j # from
      BY <1>2, <2>3, <2>4
    <2> DEFINE i == j - 1
    <2>6. i \in from .. n /\ i \in 1 .. n /\ i + 1 = j /\ ~(j <= i)
      BY <1>1, <1>3, <2>3, <2>4, <2>5
    <2> HIDE DEF i
    <2>7. Start(from) <= Start(i)
      BY <2>2, <2>6
    <2>8. Start(i) \in Nat /\ Start(j) \in Nat /\ Start(i) <= Start(j)
      BY <1>2, <2>6
    <2>9. Start(from) \in Nat
      BY <1>2, <2>4
    <2>10. QED
      BY <2>3, <2>7, <2>8, <2>9
  <1>5. QED
    BY <1>4 DEF Start, from, n
-----------------------------------------------------------------------------
(* The iterator is at a table that it may see, and has counted the tables  *)
(* of the type before it; the memory is what firmware wrote.               *)
TablesInv ==
  /\ TablesFound
  /\ memory = Memory(tables)
  /\ call.string \in NoString .. 2
  /\ tables_pc = "search" =>
       \E k \in Visible :
         /\ itr = StartOf(tables, k)
         /\ CountBefore(call.type, k) + instance = call.instance

(* What the iterator finds at a table.                                     *)
AtTable(k) ==
  /\ HeaderType(StartOf(tables, k)) = tables[k].type
  /\ Strings(StartOf(tables, k)) = Behind(k)
  /\ ~(EndOfStrings(Behind(k)) >= Len(memory))
  /\ Behind(k) + StringTableLen(Behind(k)) = StartOf(tables, k + 1)
  /\ StartOf(tables, k) \in 0 .. Len(memory)
  /\ StartOf(tables, k + 1) \in 0 .. Len(memory)
  /\ Position(k) = IF call.string = NoString THEN StartOf(tables, k)
                   ELSE GetString(Behind(k), call.string)
  /\ Position(k) \in Null .. Len(memory)

LEMMA TableRead ==
  ASSUME tables \in Lists, memory = Memory(tables),
         call.string \in NoString .. 2, NEW k \in 1 .. Len(tables)
  PROVE  AtTable(k)
  <1> DEFINE p == StartOf(tables, k)
             past == StartOf(tables, k + 1)
             behind == Behind(k)
             size == Len(Encoded(tables[k]))
             m == Len(tables[k].strings)
             all == Len(memory)
  <1>1. /\ InMemory(k) /\ tables[k] \in TableRecords
        /\ tables[k].length >= HeaderLen /\ all \in Nat
    BY MemoryOfTables
  <1>2. HeaderType(p) = tables[k].type /\ Strings(p) = behind
    BY <1>1, StringsInMemory
  <1>3. PICK at : StringsAt(k, at)
    BY <1>1, StringsInMemory
  <1>4. /\ m \in Nat /\ at \in [0 .. m -> Nat] /\ at[0] = behind
        /\ \A j \in 1 .. m : Mem(at[j - 1]) # 0
        /\ Mem(at[m]) = 0 /\ at[m] < all
        /\ past = at[m] + IF m = 0 THEN 2 ELSE 1
    BY <1>3 DEF StringsAt
  <1>5. EndOfStrings(behind) = at[m]
    BY <1>1, <1>3, EndOfStringsAt
  <1>6. p \in Nat /\ size \in Nat /\ past = p + size /\ p + size <= all
    <2>1. p \in Nat /\ past = p + size /\ p + size <= all
      BY <1>1 DEF InMemory
    <2>2. PICK offs : Shape(tables[k], Encoded(tables[k]), offs)
      BY <1>1, EncodedShape
    <2>3. Encoded(tables[k]) \in Seq(Nat)
      BY <2>2 DEF Shape
    <2>4. QED
      BY <2>1, <2>3
  <1>7. StringTableLen(behind) = IF Mem(behind) = 0 THEN 2
                                 ELSE EndOfStrings(behind) - behind + 1
    BY DEF StringTableLen, Byte
  <1> DEFINE table_len == StringTableLen(behind)
             end == EndOfStrings(behind)
  <1>8. p \in 0 .. all /\ past \in 0 .. all
    <2> HIDE DEF p, past, size, all
    <2>1. QED
      BY <1>1, <1>6
  <1>9. Position(k) = (IF call.string = NoString THEN p
                       ELSE GetString(behind, call.string))
        /\ Position(k) \in Null .. all
    BY <1>1, <1>3, <1>8, PositionFound
  <1>10. behind + table_len = past
    <2> HIDE DEF behind, past, m, table_len, end
    <2>1. 0 \in 0 .. m /\ m \in 0 .. m
      BY <1>4
    <2>2. behind \in Nat /\ at[m] \in Nat
      BY <1>4, <2>1
    <2>3. CASE m = 0
      <3>1. Mem(behind) = 0
        BY <1>4, <2>3
      <3>2. table_len = 2
        BY <1>7, <3>1 DEF table_len
      <3>3. past = behind + 2
        BY <1>4, <2>3
      <3>4. QED
        BY <3>2, <3>3
    <2>4. CASE m # 0
      <3>1. 1 \in 1 .. m /\ 1 - 1 = 0
        BY <1>4, <2>4
      <3>2. Mem(behind) # 0
        BY <1>4, <3>1
      <3>3. table_len = at[m] - behind + 1
        BY <1>5, <1>7, <3>2 DEF table_len, end
      <3>4. past = at[m] + 1
        BY <1>4, <2>4
      <3>5. \A a, b \in Nat : b + (a - b + 1) = a + 1
        OBVIOUS
      <3>6. QED
        BY <2>2, <3>3, <3>4, <3>5
    <2>5. QED
      BY <2>3, <2>4
  <1>11. ~(end >= all)
    <2>1. m \in 0 .. m /\ end = at[m]
      BY <1>4, <1>5
    <2>2. end \in Nat /\ end < all
      BY <1>4, <2>1
    <2> HIDE DEF end, all
    <2>3. QED
      BY <1>1, <2>2 DEF all
  <1>12. QED
    BY <1>2, <1>8, <1>9, <1>10, <1>11 DEF AtTable

(* A table that is wanted is the only one.                                 *)
LEMMA WantedOnce ==
  ASSUME NEW k \in Wanted, NEW l \in Wanted, Len(tables) \in Nat
  PROVE  k = l
  <1>1. /\ k \in Visible /\ l \in Visible
        /\ tables[k].type = call.type /\ tables[l].type = call.type
        /\ CountBefore(call.type, k) = call.instance
        /\ CountBefore(call.type, l) = call.instance
    BY DEF Wanted, CountBefore, Earlier
  <1>2. k \in Nat /\ l \in Nat
    BY <1>1 DEF Visible
  <1>3. ~(k < l)
    <2>1. ASSUME k < l PROVE FALSE
      <3>1. CountBefore(call.type, k) < CountBefore(call.type, l)
        BY <1>1, <2>1, CountStrict
      <3>2. CountBefore(call.type, k) \in Nat
        BY EarlierFinite
      <3>3. QED
        BY <1>1, <3>1, <3>2
    <2>2. QED
      BY <2>1
  <1>4. ~(l < k)
    <2>1. ASSUME l < k PROVE FALSE
      <3>1. CountBefore(call.type, l) < CountBefore(call.type, k)
        BY <1>1, <2>1, CountStrict
      <3>2. CountBefore(call.type, l) \in Nat
        BY EarlierFinite
      <3>3. QED
        BY <1>1, <3>1, <3>2
    <2>2. QED
      BY <2>1
  <1>5. QED
    BY <1>2, <1>3, <1>4

LEMMA TablesInitInv == TablesInit => TablesInv
  <1> SUFFICES ASSUME TablesInit PROVE TablesInv
    OBVIOUS
  <1>1. Len(memory) \in Nat
    BY MemoryOfTables DEF TablesInit
  <1>2. table_length \in 1 .. Len(memory)
    BY <1>1, TableIterAssumption DEF TablesInit
  <1>3. TablesTypeOK
    <2>1. call.type = 0 /\ call.instance = 0 /\ instance = 0
      BY DEF TablesInit, NoCall
    <2>2. -1 \in -1 .. Len(memory)
      BY <1>1
    <2>3. itr = -1 /\ ret = -1 /\ tables_pc = "idle" /\ outside = FALSE
          /\ tables \in Lists
      BY DEF TablesInit, Null
    <2>4. call.instance \in 0 .. 1 /\ instance \in 0 .. call.instance
      BY <2>1
    <2>5. QED
      BY <1>2, <2>1, <2>2, <2>3, <2>4 DEF TablesTypeOK, Null
  <1>4. QED
    BY <1>3 DEF TablesInit, TablesInv, TablesFound, FindsInstance,
                ReadsInside, NoCall, NoString

LEMMA FirmwareStays ==
  ASSUME UNCHANGED firmware
  PROVE  /\ tables' = tables /\ memory' = memory
         /\ table_length' = table_length /\ Visible' = Visible
         /\ \A k : Behind(k)' = Behind(k)
  BY DEF firmware, Visible, Behind

LEMMA CallInv ==
  ASSUME TablesInv, NEW type \in Types, NEW n \in 0 .. 1,
         NEW num \in NoString .. 2, Call(type, n, num)
  PROVE  TablesInv'
  <1>1. /\ TablesTypeOK /\ ~outside /\ memory = Memory(tables)
    BY DEF TablesInv, TablesFound, ReadsInside
  <1>2. /\ UNCHANGED firmware /\ outside' = outside
        /\ call' = [type |-> type, instance |-> n, string |-> num]
        /\ instance' = n /\ tables_pc = "idle"
    BY DEF Call
  <1>3. /\ tables' = tables /\ memory' = memory
        /\ table_length' = table_length /\ Visible' = Visible
    BY <1>2, FirmwareStays
  <1>4. \/ itr' = 0 /\ tables_pc' = "search" /\ ret' = ret
        \/ itr' = -1 /\ tables_pc' = "idle" /\ ret' = Null
    BY <1>2 DEF Call, Setup
  <1>5. tables \in Lists /\ Len(memory) \in Nat /\ Len(tables) \in Nat
    BY <1>1, MemoryOfTables DEF TablesTypeOK
  <1>6. TablesTypeOK'
    <2>1. /\ call'.type = type /\ call'.instance = n /\ instance' = n
          /\ n \in 0 .. n
      BY <1>2
    <2>2. itr' \in -1 .. Len(memory) /\ tables_pc' \in {"idle", "search"}
      BY <1>4, <1>5
    <2>3. ret' \in Null .. Len(memory)
      BY <1>1, <1>4, <1>5 DEF TablesTypeOK, Null
    <2>4. tables \in Lists /\ table_length \in 1 .. Len(memory)
          /\ outside \in BOOLEAN
      BY <1>1 DEF TablesTypeOK
    <2>5. QED
      BY <1>2, <1>3, <2>1, <2>2, <2>3, <2>4 DEF TablesTypeOK
  <1>7. (tables_pc = "search" =>
           \E k \in Visible :
             /\ itr = StartOf(tables, k)
             /\ CountBefore(call.type, k) + instance = call.instance)'
    <2> SUFFICES ASSUME tables_pc' = "search"
                 PROVE  (\E k \in Visible :
                           /\ itr = StartOf(tables, k)
                           /\ CountBefore(call.type, k) + instance
                                = call.instance)'
      OBVIOUS
    <2>1. itr' = 0
      BY <1>4
    <2>2. Len(tables) # 0
      <3>1. StartOf(tables, 1) = 0
            /\ StartOf(tables, Len(tables) + 1) = Len(memory)
        BY <1>1, <1>5, MemoryOfTables
      <3>2. Len(memory) # 0
        BY <1>1, <1>5 DEF TablesTypeOK
      <3>3. QED
        BY <3>1, <3>2
    <2>3. 1 \in Visible
      BY <1>5, <2>2 DEF Visible
    <2>4. (itr = StartOf(tables, 1))'
      BY <1>1, <1>3, <1>5, <2>1, MemoryOfTables
    <2>5. (CountBefore(type, 1) = 0)'
      <3>1. Earlier(type, 1)' = {}
        BY <1>3 DEF Earlier, Visible
      <3>2. QED
        BY <3>1, FS_EmptySet DEF CountBefore
    <2>6. (CountBefore(call.type, 1) + instance = call.instance)'
      BY <1>2, <2>5
    <2>7. QED
      BY <1>3, <2>3, <2>4, <2>6
  <1>8. FindsInstance'
    BY <1>4 DEF FindsInstance
  <1>9. QED
    BY <1>1, <1>2, <1>3, <1>6, <1>7, <1>8 DEF TablesInv, TablesFound,
                                              ReadsInside

(* At a table that the iterator is at.                                     *)
LEMMA AtVisible ==
  ASSUME TablesInv, tables_pc = "search"
  PROVE  /\ Len(tables) \in Nat /\ Len(memory) \in Nat
         /\ \E k \in Visible :
              /\ k \in 1 .. Len(tables) /\ itr = StartOf(tables, k)
              /\ CountBefore(call.type, k) + instance = call.instance
              /\ CountBefore(call.type, k) \in Nat
              /\ AtTable(k)
  <1>1. tables \in Lists /\ memory = Memory(tables)
        /\ call.string \in NoString .. 2
    BY DEF TablesInv, TablesFound, TablesTypeOK
  <1>2. Len(tables) \in Nat /\ Len(memory) \in Nat
    BY <1>1, MemoryOfTables
  <1>3. PICK k \in Visible :
          /\ itr = StartOf(tables, k)
          /\ CountBefore(call.type, k) + instance = call.instance
    BY DEF TablesInv
  <1>4. k \in 1 .. Len(tables)
    BY DEF Visible
  <1>5. AtTable(k)
    BY <1>1, <1>4, TableRead
  <1>6. CountBefore(call.type, k) \in Nat
    BY <1>2, EarlierFinite
  <1>7. QED
    BY <1>2, <1>3, <1>4, <1>5, <1>6

LEMMA FoundInv ==
  ASSUME TablesInv, Found
  PROVE  TablesInv'
  <1>1. /\ TablesTypeOK /\ ~outside /\ memory = Memory(tables)
        /\ call.string \in NoString .. 2
    BY DEF TablesInv, TablesFound, ReadsInside
  <1>2. /\ UNCHANGED firmware /\ itr' = itr /\ call' = call
        /\ instance' = instance /\ instance = 0 /\ Matches
        /\ tables_pc = "search" /\ tables_pc' = "idle"
        /\ ret' = IF call.string = NoString THEN itr
                  ELSE GetString(Strings(itr), call.string)
    BY DEF Found
  <1>3. outside' = (outside \/ EndOfStrings(Strings(itr)) >= Len(memory))
    BY DEF Found, ReadsTable
  <1>4. /\ tables' = tables /\ memory' = memory
        /\ table_length' = table_length /\ Visible' = Visible
    BY <1>2, FirmwareStays
  <1>5. PICK k \in Visible :
          /\ k \in 1 .. Len(tables) /\ itr = StartOf(tables, k)
          /\ CountBefore(call.type, k) + instance = call.instance
          /\ CountBefore(call.type, k) \in Nat
          /\ AtTable(k)
    BY <1>2, AtVisible
  <1>6. Len(tables) \in Nat /\ Len(memory) \in Nat
    BY <1>2, AtVisible
  <1>7. /\ HeaderType(itr) = tables[k].type /\ Strings(itr) = Behind(k)
        /\ ~(EndOfStrings(Behind(k)) >= Len(memory))
        /\ Position(k) = IF call.string = NoString THEN itr
                         ELSE GetString(Behind(k), call.string)
        /\ Position(k) \in Null .. Len(memory)
    BY <1>5 DEF AtTable
  <1>8. ret' = Position(k)
    BY <1>2, <1>7
  <1>9. outside' = FALSE
    BY <1>1, <1>3, <1>7
  <1>10. k \in Wanted
    <2>1. tables[k].type = call.type
      BY <1>2, <1>7 DEF Matches
    <2>2. CountBefore(call.type, k) = call.instance
      BY <1>2, <1>5
    <2>3. QED
      BY <2>1, <2>2 DEF Wanted, CountBefore, Earlier
  <1>11. Wanted' = Wanted
    BY <1>2, <1>4 DEF Wanted
  <1>12. \A l : Position(l)' = Position(l)
    BY <1>2, <1>4 DEF Position
  <1>13. FindsInstance'
    <2>1. \A l \in Wanted : l = k
      BY <1>6, <1>10, WantedOnce
    <2>2. \A l \in Wanted' : ret' = Position(l)'
      BY <1>8, <1>11, <1>12, <2>1
    <2>3. Wanted' # {}
      BY <1>10, <1>11
    <2>4. QED
      BY <2>2, <2>3 DEF FindsInstance
  <1>14. TablesTypeOK'
    BY <1>1, <1>2, <1>4, <1>7, <1>8, <1>9 DEF TablesTypeOK
  <1>15. QED
    BY <1>1, <1>2, <1>4, <1>9, <1>13, <1>14 DEF TablesInv, TablesFound,
                                                ReadsInside

LEMMA ItrNextInv ==
  ASSUME TablesInv, ItrNext
  PROVE  TablesInv'
  <1> DEFINE next == Strings(itr) + StringTableLen(Strings(itr))
  <1>1. /\ TablesTypeOK /\ ~outside /\ memory = Memory(tables)
        /\ call.string \in NoString .. 2
    BY DEF TablesInv, TablesFound, ReadsInside
  <1>2. /\ UNCHANGED firmware /\ call' = call
        /\ tables_pc = "search" /\ ~(Matches /\ instance = 0)
        /\ instance' = IF Matches THEN instance - 1 ELSE instance
        /\ IF Wrapped(next)
           THEN itr' = 0 /\ tables_pc' = "idle" /\ ret' = Null
           ELSE itr' = next /\ tables_pc' = tables_pc /\ ret' = ret
    BY DEF ItrNext
  <1>3. outside' = (outside \/ EndOfStrings(Strings(itr)) >= Len(memory))
    BY DEF ItrNext, ReadsTable
  <1>4. /\ tables' = tables /\ memory' = memory
        /\ table_length' = table_length /\ Visible' = Visible
    BY <1>2, FirmwareStays
  <1>5. PICK k \in Visible :
          /\ k \in 1 .. Len(tables) /\ itr = StartOf(tables, k)
          /\ CountBefore(call.type, k) + instance = call.instance
          /\ CountBefore(call.type, k) \in Nat
          /\ AtTable(k)
    BY <1>2, AtVisible
  <1>6. Len(tables) \in Nat /\ Len(memory) \in Nat
    BY <1>2, AtVisible
  <1>7. /\ HeaderType(itr) = tables[k].type /\ Strings(itr) = Behind(k)
        /\ ~(EndOfStrings(Behind(k)) >= Len(memory))
        /\ next = StartOf(tables, k + 1)
        /\ StartOf(tables, k + 1) \in 0 .. Len(memory)
    BY <1>5 DEF AtTable
  <1>8. Matches <=> tables[k].type = call.type
    BY <1>7 DEF Matches
  <1>9. outside' = FALSE
    BY <1>1, <1>3, <1>7
  <1> HIDE DEF next
  <1>10. /\ instance \in Nat /\ call.instance \in Nat
         /\ instance \in 0 .. call.instance
         /\ table_length \in 1 .. Len(memory)
    BY <1>1 DEF TablesTypeOK
  <1>11. instance' \in 0 .. call.instance
    BY <1>2, <1>10
  <1>12. TablesTypeOK'
    <2>1. 0 \in -1 .. Len(memory) /\ next \in -1 .. Len(memory)
      BY <1>6, <1>7
    <2>2. itr' \in -1 .. Len(memory) /\ tables_pc' \in {"idle", "search"}
      BY <1>2, <2>1
    <2>3. ret' \in Null .. Len(memory)
      <3>1. ret \in Null .. Len(memory)
        BY <1>1 DEF TablesTypeOK
      <3>2. Null \in Null .. Len(memory)
        BY <1>6 DEF Null
      <3>3. ret' = Null \/ ret' = ret
        BY <1>2
      <3>4. QED
        BY <3>1, <3>2, <3>3
    <2>4. /\ tables \in Lists /\ call.type \in Types \cup {0}
          /\ call.instance \in 0 .. 1
      BY <1>1 DEF TablesTypeOK
    <2>5. QED
      BY <1>2, <1>4, <1>9, <1>10, <1>11, <2>2, <2>3, <2>4 DEF TablesTypeOK
  <1>13. CASE Wrapped(next)
    <2>1. itr' = 0 /\ tables_pc' = "idle" /\ ret' = Null
      BY <1>2, <1>13
    (* No table behind this one is visible, and this one is not wanted.    *)
    <2>2. ASSUME NEW l \in Wanted PROVE FALSE
      <3>1. /\ l \in Visible /\ l \in 1 .. Len(tables)
            /\ tables[l].type = call.type
            /\ CountBefore(call.type, l) = call.instance
        BY DEF Wanted, Visible, CountBefore, Earlier
      <3>2. CASE k < l
        <4>1. l \in k + 1 .. Len(tables) /\ l # 1
          BY <1>5, <1>6, <3>1, <3>2
        <4>2. next <= StartOf(tables, l)
          BY <1>1, <1>5, <1>7, <4>1, StartsAscend DEF TablesTypeOK
        <4>3. StartOf(tables, l) < table_length - 1
          BY <3>1, <4>1 DEF Visible
        <4>4. next >= table_length - 1
          BY <1>13 DEF Wrapped
        <4>5. StartOf(tables, l) \in Nat
          <5>1. InMemory(l)
            BY <1>1, <3>1, MemoryOfTables DEF TablesTypeOK
          <5>2. QED
            BY <5>1 DEF InMemory
        <4>6. next \in Nat /\ table_length - 1 \in Nat
          BY <1>6, <1>7, <1>10
        <4>7. QED
          BY <4>2, <4>3, <4>4, <4>5, <4>6
      <3>3. CASE l = k
        BY <1>2, <1>5, <1>8, <1>10, <3>1, <3>3
      <3>4. CASE l < k
        <4>1. CountBefore(call.type, l) < CountBefore(call.type, k)
          BY <1>5, <1>6, <3>1, <3>4, CountStrict
        <4>2. QED
          BY <1>5, <1>10, <3>1, <4>1
      <3>5. QED
        BY <1>5, <3>1, <3>2, <3>3, <3>4
    <2>3. Wanted' = Wanted
      BY <1>2, <1>4 DEF Wanted
    <2>4. FindsInstance'
      BY <2>1, <2>2, <2>3 DEF FindsInstance
    <2>5. QED
      BY <1>1, <1>2, <1>4, <1>9, <1>12, <2>1, <2>4
         DEF TablesInv, TablesFound, ReadsInside
  <1>14. CASE ~Wrapped(next)
    <2>1. itr' = next /\ tables_pc' = "search"
      BY <1>2, <1>14
    <2>2. next < table_length - 1
      <3>1. next \in Nat /\ table_length - 1 \in Nat
        BY <1>6, <1>7, <1>10
      <3>2. QED
        BY <1>14, <3>1 DEF Wrapped
    <2>3. k + 1 \in Visible
      <3>1. k # Len(tables)
        <4>1. StartOf(tables, Len(tables) + 1) = Len(memory)
          BY <1>1, MemoryOfTables DEF TablesTypeOK
        <4>2. next # Len(memory)
          BY <1>6, <1>7, <1>10, <2>2
        <4>3. QED
          BY <1>7, <4>1, <4>2
      <3>2. k + 1 \in 1 .. Len(tables)
        BY <1>5, <1>6, <3>1
      <3>3. QED
        BY <1>7, <2>2, <3>2 DEF Visible
    <2> DEFINE count == CountBefore(call.type, k)
               more == CountBefore(call.type, k + 1)
    <2>4. more = count + IF Matches THEN 1 ELSE 0
      BY <1>5, <1>6, <1>8, CountSteps
    <2>5. more + instance' = call.instance
      <3>1. count \in Nat /\ count + instance = call.instance
        BY <1>5
      <3> HIDE DEF count, more
      <3>2. QED
        BY <1>2, <1>10, <2>4, <3>1
    <2>6. (CountBefore(call.type, k + 1) + instance = call.instance)'
      <3>1. CountBefore(call.type, k + 1)' = more
        BY <1>2, <1>4 DEF CountBefore, Earlier
      <3>2. QED
        BY <1>2, <2>5, <3>1
    <2>7. (itr = StartOf(tables, k + 1))'
      BY <1>4, <1>7, <2>1
    <2>8. (\E l \in Visible :
             /\ itr = StartOf(tables, l)
             /\ CountBefore(call.type, l) + instance = call.instance)'
      BY <1>4, <2>3, <2>6, <2>7
    <2>9. FindsInstance'
      BY <2>1 DEF FindsInstance
    <2>10. QED
      BY <1>1, <1>2, <1>4, <1>9, <1>12, <2>8, <2>9
         DEF TablesInv, TablesFound, ReadsInside
  <1>15. QED
    BY <1>13, <1>14

(* The inductive invariant of the iterator.                                *)
LEMMA TablesInvariant == TablesSpec => []TablesInv
  <1>1. TablesInit => TablesInv
    BY TablesInitInv
  <1>2. TablesInv /\ [TablesNext]_tablesVars => TablesInv'
    <2> SUFFICES ASSUME TablesInv, [TablesNext]_tablesVars
                 PROVE  TablesInv'
      OBVIOUS
    <2>1. ASSUME NEW type \in Types, NEW n \in 0 .. 1,
                 NEW num \in NoString .. 2, Call(type, n, num)
          PROVE  TablesInv'
      BY <2>1, CallInv
    <2>2. CASE Found
      BY <2>2, FoundInv
    <2>3. CASE ItrNext
      BY <2>3, ItrNextInv
    <2>4. CASE UNCHANGED tablesVars
      <3>1. /\ UNCHANGED firmware /\ tables_pc' = tables_pc /\ itr' = itr
            /\ call' = call /\ instance' = instance /\ ret' = ret
            /\ outside' = outside
        BY <2>4 DEF tablesVars, firmware
      <3>2. /\ tables' = tables /\ memory' = memory
            /\ table_length' = table_length /\ Visible' = Visible
        BY <3>1, FirmwareStays
      <3>3. TablesTypeOK' = TablesTypeOK
        BY <3>1, <3>2 DEF TablesTypeOK
      <3>4. Wanted' = Wanted /\ \A k : Position(k)' = Position(k)
        BY <3>1, <3>2 DEF Wanted, Position
      <3>5. FindsInstance' = FindsInstance
        BY <3>1, <3>4 DEF FindsInstance
      <3>6. \A k : CountBefore(call.type, k)' = CountBefore(call.type, k)
        BY <3>1, <3>2 DEF CountBefore, Earlier
      <3>7. QED
        BY <3>1, <3>2, <3>3, <3>5, <3>6 DEF TablesInv, TablesFound,
                                            ReadsInside
    <2>5. QED
      BY <2>1, <2>2, <2>3, <2>4 DEF TablesNext, TablesStep
  <1>3. QED
    BY <1>1, <1>2, PTL DEF TablesSpec

(* smbios_find_table() and smbios_find_string() return what firmware wrote *)
(* as the table or string that is asked for, whatever was asked before, and*)
(* never read behind the tables: for every list of tables with any number  *)
(* of strings of any length, and every table_length that is too short.     *)
THEOREM TableFoundIsWritten == TablesSpec => []TablesFound
  <1>1. TablesInv => TablesFound
    BY DEF TablesInv
  <1>2. QED
    BY <1>1, TablesInvariant, PTL
=============================================================================
