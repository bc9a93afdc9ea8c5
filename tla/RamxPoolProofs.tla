--------------------------- MODULE RamxPoolProofs ---------------------------
(***************************************************************************)
(* The block pools of ramx_alloc.h and of alloc.c keep their books right   *)
(* for every number of blocks below 256, as long as no request overflows   *)
(* the uint8_t that holds the number of blocks.  What a run of blocks does *)
(* to the marks is the same in both, and stated first for any pool.        *)
(***************************************************************************)
EXTENDS MCRamxPool, FiniteSetTheorems, TLAPS

(* What the uint8_t fields can hold: a pool of fewer than 256 blocks, and  *)
(* requests of fewer than 256 blocks.                                      *)
FitsInBytes == /\ BlockNum < U8
               /\ \A b \in 0..MaxBytes : DIV_ROUND_UP(b, BlockSize) < U8

Counted == blocks_used = Cardinality(Used)

IInv == TypeOK /\ BuffersMarked /\ Counted

-----------------------------------------------------------------------------
(* A value below the modulus is its own remainder.                         *)
LEMMA SmallMod ==
  ASSUME NEW x \in Nat, x < U8
  PROVE  x % U8 = x
BY PoolAssumption, Z3

(* DIV_ROUND_UP gives enough blocks.                                       *)
LEMMA RoundUp ==
  ASSUME NEW b \in Nat
  PROVE  /\ DIV_ROUND_UP(b, BlockSize) \in Nat
         /\ b <= DIV_ROUND_UP(b, BlockSize) * BlockSize
BY PoolAssumption, Z3 DEF DIV_ROUND_UP

(* A run of n blocks has n members.                                        *)
LEMMA RunCard ==
  ASSUME NEW i \in Nat, NEW n \in Nat
  PROVE  IsFiniteSet(Run(i, n)) /\ Cardinality(Run(i, n)) = n
<1>1. i \in Int /\ i + n - 1 \in Int
  OBVIOUS
<1>2. CASE n = 0
  <2>1. i > i + n - 1
    BY <1>2
  <2> QED BY <1>1, <1>2, <2>1, FS_Interval DEF Run
<1>3. CASE n # 0
  <2>1. ~(i > i + n - 1) /\ i + n - 1 - i + 1 = n
    BY <1>3
  <2> QED BY <1>1, <2>1, FS_Interval DEF Run
<1> QED BY <1>2, <1>3

-----------------------------------------------------------------------------
(* Marks.  bs and refs are the marks and counters of the blocks, own and   *)
(* len the owners and lengths of the buffers that start there.             *)
Typed(bs, refs, own, len) ==
  /\ bs \in [Block -> 0..BlockNum] /\ refs \in [Block -> Nat]
  /\ own \in [Block -> Nat] /\ len \in [Block -> Nat]

Marked(bs, refs, own, len) ==
  /\ \A i \in Block : BufferMarked(i, bs, refs, own, len)
  /\ Disjoint(own, len) /\ Covered(bs, own, len)

UsedOf(bs) == {j \in Block : bs[j] # 0}

(* m on every block of the run.                                            *)
Filled(bs, i, n, m) == [j \in Block |-> IF j \in Run(i, n) THEN m ELSE bs[j]]

(* The blocks in use are finitely many, and not more than there are.       *)
LEMMA UsedFinite ==
  ASSUME NEW bs
  PROVE  /\ IsFiniteSet(Block) /\ Cardinality(Block) = BlockNum
         /\ IsFiniteSet(UsedOf(bs)) /\ Cardinality(UsedOf(bs)) \in Nat
         /\ Cardinality(UsedOf(bs)) <= BlockNum
<1>1. IsFiniteSet(Block) /\ Cardinality(Block) = BlockNum
  <2>1. Block = Run(0, BlockNum)
    BY PoolAssumption DEF Block, Run
  <2> QED BY <2>1, RunCard, PoolAssumption
<1>2. UsedOf(bs) \subseteq Block
  BY DEF UsedOf
<1> QED BY <1>1, <1>2, FS_Subset, FS_CardinalityType

(* What the marks say of a buffer with owners.                             *)
LEMMA LiveIs ==
  ASSUME NEW bs, NEW refs, NEW own, NEW len, Typed(bs, refs, own, len),
         Marked(bs, refs, own, len), NEW i \in Block, own[i] > 0
  PROVE  /\ i \in Nat /\ len[i] \in Nat /\ len[i] >= 1 /\ i + len[i] <= BlockNum
         /\ i \in Run(i, len[i])
         /\ \A j \in Run(i, len[i]) : j \in Block /\ bs[j] = len[i] /\ refs[j] = own[i]
<1>1. /\ len[i] >= 1 /\ i + len[i] <= BlockNum
      /\ \A j \in Run(i, len[i]) : bs[j] = len[i] /\ refs[j] = own[i]
  BY DEF Marked, BufferMarked
<1>2. i \in Nat /\ len[i] \in Nat
  BY PoolAssumption DEF Typed, Block
<1>3. i \in Run(i, len[i]) /\ \A j \in Run(i, len[i]) : j \in Block
  BY <1>1, <1>2, PoolAssumption DEF Run, Block
<1> QED BY <1>1, <1>2, <1>3

(* The blocks of two buffers are different blocks.                         *)
LEMMA LiveApart ==
  ASSUME NEW bs, NEW refs, NEW own, NEW len, Typed(bs, refs, own, len),
         Marked(bs, refs, own, len), NEW i \in Block, NEW k \in Block,
         own[i] > 0, own[k] > 0, i # k
  PROVE  Run(i, len[i]) \cap Run(k, len[k]) = {}
<1>1. i \in Nat /\ k \in Nat /\ len[i] \in Nat /\ len[k] \in Nat
  BY LiveIs
<1>2. i + len[i] <= k \/ k + len[k] <= i
  BY <1>1 DEF Marked, Disjoint
<1> QED BY <1>1, <1>2 DEF Run

(* A run of free blocks meets no buffer.                                   *)
LEMMA FreeRunIsFree ==
  ASSUME NEW bs, NEW refs, NEW own, NEW len, Typed(bs, refs, own, len),
         Marked(bs, refs, own, len), NEW n \in 1..BlockNum, NEW i \in FreeRun(bs, n)
  PROVE  /\ i \in Block /\ i + n <= BlockNum
         /\ \A j \in Run(i, n) : j \in Block /\ bs[j] = 0
         /\ own[i] = 0
         /\ \A k \in Block : own[k] > 0 => k + len[k] <= i \/ i + n <= k
<1>1. i \in Block /\ i + n <= BlockNum /\ \A j \in Run(i, n) : bs[j] = 0
  BY DEF FreeRun
<1>2. i \in Nat /\ n \in Nat /\ n >= 1 /\ BlockNum \in Nat /\ i \in Run(i, n)
  BY <1>1, PoolAssumption DEF Block, Run
<1>3. \A j \in Run(i, n) : j \in Block
  BY <1>1, <1>2 DEF Run, Block
<1>4. ASSUME NEW k \in Block, own[k] > 0
      PROVE  Run(k, len[k]) \cap Run(i, n) = {} /\ (k + len[k] <= i \/ i + n <= k)
  <2>1. /\ k \in Nat /\ len[k] \in Nat /\ len[k] >= 1
        /\ \A j \in Run(k, len[k]) : bs[j] # 0
    <3>1. \A j \in Run(k, len[k]) : bs[j] = len[k]
      BY <1>4, LiveIs
    <3>2. k \in Nat /\ len[k] \in Nat /\ len[k] >= 1
      BY <1>4, LiveIs
    <3> QED BY <3>1, <3>2
  <2>2. Run(k, len[k]) \cap Run(i, n) = {}
    BY <1>1, <2>1
  <2>3. k \in Run(k, len[k])
    BY <2>1 DEF Run
  <2>4. ~(k < i /\ i < k + len[k]) /\ ~(i <= k /\ k < i + n)
    <3>1. k < i /\ i < k + len[k] => i \in Run(k, len[k])
      BY <1>2, <2>1 DEF Run
    <3>2. i <= k /\ k < i + n => k \in Run(i, n)
      BY <1>2, <2>1 DEF Run
    <3> QED BY <1>2, <2>2, <2>3, <3>1, <3>2
  <2> QED BY <1>2, <2>1, <2>2, <2>4
<1>5. own[i] = 0
  <2>1. own[i] \in Nat
    BY <1>1 DEF Typed
  <2>2. ASSUME own[i] > 0 PROVE FALSE
    <3>1. i \in Run(i, len[i]) /\ Run(i, len[i]) \cap Run(i, n) = {}
      BY <1>1, <1>4, <2>2, LiveIs
    <3> QED BY <1>2, <3>1
  <2> QED BY <2>1, <2>2
<1> QED BY <1>1, <1>3, <1>4, <1>5

(* The runs the scan accepts are the ones no buffer meets.                 *)
LEMMA FreeRunFits ==
  ASSUME NEW bs, NEW refs, NEW own, NEW len, Typed(bs, refs, own, len),
         Marked(bs, refs, own, len), NEW n \in 1..BlockNum, NEW i \in Block
  PROVE  i \in FreeRun(bs, n) <=>
           /\ i + n <= BlockNum
           /\ \A k \in Block : own[k] > 0 => Run(k, len[k]) \cap Run(i, n) = {}
<1>1. n \in Nat /\ n >= 1 /\ i \in Nat /\ BlockNum \in Nat
  BY PoolAssumption DEF Block
<1>2. ASSUME i \in FreeRun(bs, n), NEW k \in Block, own[k] > 0
      PROVE  Run(k, len[k]) \cap Run(i, n) = {}
  <2>1. k \in Nat /\ len[k] \in Nat
    BY <1>2, LiveIs
  <2>2. k + len[k] <= i \/ i + n <= k
    BY <1>2, FreeRunIsFree
  <2> QED BY <1>1, <2>1, <2>2 DEF Run
<1>3. ASSUME i + n <= BlockNum, \A k \in Block : own[k] > 0 => Run(k, len[k]) \cap Run(i, n) = {}
      PROVE  i \in FreeRun(bs, n)
  <2>1. ASSUME NEW j \in Run(i, n), bs[j] # 0 PROVE FALSE
    <3>1. j \in Block
      BY <1>1, <1>3 DEF Run, Block
    <3>2. PICK k \in Block : own[k] > 0 /\ j \in Run(k, len[k])
      BY <2>1, <3>1 DEF Marked, Covered
    <3> QED BY <1>3, <2>1, <3>2
  <2> QED BY <1>3, <2>1 DEF FreeRun
<1> QED BY <1>2, <1>3 DEF FreeRun

(* Marking a free run makes a buffer of it.                                *)
LEMMA TakeKeepsMarks ==
  ASSUME NEW bs, NEW refs, NEW own, NEW len, Typed(bs, refs, own, len),
         Marked(bs, refs, own, len), NEW n \in 1..BlockNum, NEW i \in FreeRun(bs, n)
  PROVE  /\ Marked(Filled(bs, i, n, n), Filled(refs, i, n, 1),
                   [own EXCEPT ![i] = 1], [len EXCEPT ![i] = n])
         /\ Typed(Filled(bs, i, n, n), Filled(refs, i, n, 1),
                  [own EXCEPT ![i] = 1], [len EXCEPT ![i] = n])
         /\ Cardinality(UsedOf(Filled(bs, i, n, n))) = Cardinality(UsedOf(bs)) + n
<1> DEFINE bs2 == Filled(bs, i, n, n)
           refs2 == Filled(refs, i, n, 1)
           own2 == [own EXCEPT ![i] = 1]
           len2 == [len EXCEPT ![i] = n]
<1>1. /\ i \in Block /\ i + n <= BlockNum /\ own[i] = 0
      /\ \A j \in Run(i, n) : j \in Block /\ bs[j] = 0
      /\ \A k \in Block : own[k] > 0 => k + len[k] <= i \/ i + n <= k
  BY FreeRunIsFree
<1>2. n \in Nat /\ n >= 1 /\ i \in Nat /\ n <= BlockNum /\ BlockNum \in Nat
  BY <1>1, PoolAssumption DEF Block
<1>3. /\ own2[i] = 1 /\ len2[i] = n
      /\ \A k \in Block : k # i => own2[k] = own[k] /\ len2[k] = len[k]
      /\ \A j \in Run(i, n) : bs2[j] = n /\ refs2[j] = 1
      /\ \A j \in Block : j \notin Run(i, n) => bs2[j] = bs[j] /\ refs2[j] = refs[j]
  BY <1>1 DEF Filled, Typed
<1>4. Typed(bs2, refs2, own2, len2)
  <2>1. bs \in [Block -> 0..BlockNum] /\ refs \in [Block -> Nat] /\ n \in 0..BlockNum
    BY <1>2 DEF Typed
  <2>2. bs2 \in [Block -> 0..BlockNum] /\ refs2 \in [Block -> Nat]
    BY <2>1 DEF Filled
  <2>3. own2 \in [Block -> Nat] /\ len2 \in [Block -> Nat]
    BY <1>2 DEF Typed
  <2> QED BY <2>2, <2>3 DEF Typed
<1>5. UsedOf(bs2) = UsedOf(bs) \cup Run(i, n) /\ UsedOf(bs) \cap Run(i, n) = {}
  <2> HIDE DEF bs2
  <2>1. \A j \in Block : bs2[j] # 0 <=> bs[j] # 0 \/ j \in Run(i, n)
    BY <1>2, <1>3
  <2> QED BY <1>1, <2>1 DEF UsedOf
<1> HIDE DEF bs2, refs2, own2, len2
<1>6. ASSUME NEW k \in Block, own[k] > 0
      PROVE  k # i /\ \A j \in Run(k, len[k]) : j \notin Run(i, n)
  <2>1. k \in Nat /\ len[k] \in Nat /\ (k + len[k] <= i \/ i + n <= k)
    BY <1>1, <1>6, LiveIs
  <2> QED BY <1>1, <1>2, <1>6, <2>1 DEF Run
<1>7. ASSUME NEW k \in Block
      PROVE  BufferMarked(k, bs2, refs2, own2, len2)
  <2>1. CASE k = i
    BY <1>1, <1>2, <1>3, <2>1 DEF BufferMarked
  <2>2. CASE k # i /\ own[k] > 0
    <3>1. /\ len[k] >= 1 /\ k + len[k] <= BlockNum
          /\ \A j \in Run(k, len[k]) : j \in Block /\ bs[j] = len[k] /\ refs[j] = own[k]
      BY <2>2, LiveIs
    <3>2. \A j \in Run(k, len[k]) : bs2[j] = bs[j] /\ refs2[j] = refs[j]
      BY <1>3, <1>6, <2>2, <3>1
    <3> QED BY <1>3, <2>2, <3>1, <3>2 DEF BufferMarked
  <2>3. CASE k # i /\ ~(own[k] > 0)
    BY <1>3, <2>3 DEF BufferMarked
  <2> QED BY <2>1, <2>2, <2>3
<1>8. Disjoint(own2, len2)
  <2> SUFFICES ASSUME NEW a \in Block, NEW k \in Block, own2[a] > 0, own2[k] > 0, a < k
               PROVE  a + len2[a] <= k
    BY DEF Disjoint
  <2>1. a \in Nat /\ k \in Nat
    BY PoolAssumption DEF Block
  <2>2. CASE a = i
    <3>1. own[k] > 0 /\ k # i
      BY <1>3, <2>1, <2>2
    <3>2. len[k] \in Nat /\ len[k] >= 1
      BY <3>1, LiveIs
    <3> QED BY <1>1, <1>2, <1>3, <2>1, <2>2, <3>1, <3>2
  <2>3. CASE k = i
    <3>1. own[a] > 0 /\ a # i
      BY <1>3, <2>1, <2>3
    <3>2. len[a] \in Nat
      BY <3>1, LiveIs
    <3> QED BY <1>1, <1>2, <1>3, <2>1, <2>3, <3>1, <3>2
  <2>4. CASE a # i /\ k # i
    BY <1>3, <2>4 DEF Marked, Disjoint
  <2> QED BY <2>2, <2>3, <2>4
<1>9. Covered(bs2, own2, len2)
  <2> SUFFICES ASSUME NEW j \in Block, bs2[j] # 0
               PROVE  \E k \in Block : own2[k] > 0 /\ j \in Run(k, len2[k])
    BY DEF Covered
  <2>1. CASE j \in Run(i, n)
    BY <1>1, <1>3, <2>1
  <2>2. CASE j \notin Run(i, n)
    <3>1. bs[j] # 0
      BY <1>3, <2>2
    <3>2. PICK k \in Block : own[k] > 0 /\ j \in Run(k, len[k])
      BY <3>1 DEF Marked, Covered
    <3> QED BY <1>3, <1>6, <3>2
  <2> QED BY <2>1, <2>2
<1>10. Cardinality(UsedOf(bs2)) = Cardinality(UsedOf(bs)) + n
  <2>1. IsFiniteSet(Run(i, n)) /\ Cardinality(Run(i, n)) = n
    BY <1>2, RunCard
  <2>2. Cardinality(UsedOf(bs) \cap Run(i, n)) = 0
    BY <1>5, FS_EmptySet
  <2>3. Cardinality(UsedOf(bs) \cup Run(i, n)) = Cardinality(UsedOf(bs)) + n - 0
    BY <2>1, <2>2, UsedFinite, FS_Union
  <2> QED BY <1>2, <1>5, <2>3, UsedFinite
<1> QED BY <1>4, <1>7, <1>8, <1>9, <1>10 DEF Marked, bs2, refs2, own2, len2

(* The last owner of a buffer gives all its blocks back.                   *)
LEMMA FreeKeepsMarks ==
  ASSUME NEW bs, NEW refs, NEW own, NEW len, Typed(bs, refs, own, len),
         Marked(bs, refs, own, len), NEW i \in Block, own[i] = 1
  PROVE  /\ Marked(Filled(bs, i, len[i], 0), refs, [own EXCEPT ![i] = 0], len)
         /\ Typed(Filled(bs, i, len[i], 0), refs, [own EXCEPT ![i] = 0], len)
         /\ Cardinality(UsedOf(Filled(bs, i, len[i], 0))) = Cardinality(UsedOf(bs)) - len[i]
<1> DEFINE R == Run(i, len[i])
           bs2 == Filled(bs, i, len[i], 0)
           own2 == [own EXCEPT ![i] = 0]
<1>1. own[i] > 0
  OBVIOUS
<1>2. /\ i \in Nat /\ len[i] \in Nat /\ len[i] >= 1
      /\ \A j \in R : j \in Block /\ bs[j] = len[i]
  BY <1>1, LiveIs
<1>3. /\ own2[i] = 0 /\ \A k \in Block : k # i => own2[k] = own[k]
      /\ \A j \in R : bs2[j] = 0
      /\ \A j \in Block : j \notin R => bs2[j] = bs[j]
  BY <1>2 DEF Filled, Typed
<1>4. Typed(bs2, refs, own2, len)
  BY PoolAssumption DEF Typed, Filled
<1>5. UsedOf(bs2) = UsedOf(bs) \ R /\ UsedOf(bs) \cap R = R
  <2> HIDE DEF bs2, R
  <2>1. \A j \in Block : bs2[j] # 0 <=> bs[j] # 0 /\ j \notin R
    BY <1>3
  <2>2. \A j \in R : j \in Block /\ bs[j] # 0
    BY <1>2
  <2> QED BY <2>1, <2>2 DEF UsedOf
<1>6. IsFiniteSet(R) /\ Cardinality(R) = len[i]
  BY <1>2, RunCard
<1> HIDE DEF bs2, own2, R
<1>7. ASSUME NEW k \in Block, own2[k] > 0
      PROVE  k # i /\ own[k] > 0 /\ own2[k] = own[k] /\ \A j \in Run(k, len[k]) : j \notin R
  <2>1. k # i /\ own2[k] = own[k]
    BY <1>3, <1>7
  <2> QED BY <1>1, <1>7, <2>1, LiveApart DEF R
<1>8. ASSUME NEW k \in Block, own2[k] > 0
      PROVE  /\ len[k] >= 1 /\ k + len[k] <= BlockNum
             /\ \A j \in Run(k, len[k]) : bs2[j] = len[k] /\ refs[j] = own2[k]
  <2>1. /\ len[k] >= 1 /\ k + len[k] <= BlockNum
        /\ \A j \in Run(k, len[k]) : j \in Block /\ bs[j] = len[k] /\ refs[j] = own[k]
    BY <1>7, <1>8, LiveIs
  <2> QED BY <1>3, <1>7, <1>8, <2>1
<1>9. Disjoint(own2, len)
  BY <1>7 DEF Marked, Disjoint
<1>10. Covered(bs2, own2, len)
  <2> SUFFICES ASSUME NEW j \in Block, bs2[j] # 0
               PROVE  \E k \in Block : own2[k] > 0 /\ j \in Run(k, len[k])
    BY DEF Covered
  <2>1. bs[j] # 0 /\ j \notin R
    BY <1>3
  <2>2. PICK k \in Block : own[k] > 0 /\ j \in Run(k, len[k])
    BY <2>1 DEF Marked, Covered
  <2>3. k # i
    BY <2>1, <2>2 DEF R
  <2> QED BY <1>3, <2>2, <2>3
<1>11. Cardinality(UsedOf(bs) \ R) = Cardinality(UsedOf(bs)) - Cardinality(UsedOf(bs) \cap R)
  BY UsedFinite, FS_Difference
<1>12. Marked(bs2, refs, own2, len)
  BY <1>8, <1>9, <1>10 DEF Marked, BufferMarked
<1> QED BY <1>4, <1>5, <1>6, <1>11, <1>12 DEF bs2, own2

(* A pool in which every block is free.                                    *)
LEMMA EmptyMarks ==
  LET none == [i \in Block |-> 0] IN
  Marked(none, none, none, none) /\ Typed(none, none, none, none) /\ Cardinality(UsedOf(none)) = 0
<1> DEFINE none == [i \in Block |-> 0]
<1>1. Marked(none, none, none, none)
  BY DEF Marked, BufferMarked, Disjoint, Covered
<1>2. Typed(none, none, none, none)
  BY PoolAssumption DEF Typed
<1>3. UsedOf(none) = {}
  BY DEF UsedOf
<1> QED BY <1>1, <1>2, <1>3, FS_EmptySet

-----------------------------------------------------------------------------
(* ramx_alloc.h.                                                           *)

(* The pool starts with every block free.                                  *)
LEMMA InitIInv == Init => IInv
<1> SUFFICES ASSUME Init PROVE IInv OBVIOUS
<1>1. TypeOK
  BY PoolAssumption DEF Init, TypeOK, Block, NULL
<1>2. BuffersMarked
  BY PoolAssumption DEF Init, BuffersMarked, BufferMarked, Disjoint, Covered, Block
<1>3. Used = {}
  BY DEF Init, Used
<1> QED BY <1>1, <1>2, <1>3, FS_EmptySet DEF IInv, Counted, Init

-----------------------------------------------------------------------------
(* The books as the lemmas above have them.                                *)
LEMMA BooksAre ==
  ASSUME IInv
  PROVE  /\ Typed(blocks, blocks_reference_counter, owners, size)
         /\ Marked(blocks, blocks_reference_counter, owners, size)
         /\ Cardinality(UsedOf(blocks)) = blocks_used /\ blocks_used \in Nat
<1>1. Typed(blocks, blocks_reference_counter, owners, size)
  BY PoolAssumption DEF IInv, TypeOK, Typed
<1> QED BY <1>1, UsedFinite DEF IInv, BuffersMarked, Marked, Counted, Used, UsedOf

(* Marking a free run keeps the books.                                     *)
LEMMA TakeStep ==
  ASSUME FitsInBytes, IInv, NEW n \in 1..BlockNum, NEW i \in FreeRun(blocks, n), Take(i, n, n)
  PROVE  IInv'
<1>1. /\ blocks' = Filled(blocks, i, n, n)
      /\ blocks_reference_counter' = Filled(blocks_reference_counter, i, n, 1)
      /\ owners' = [owners EXCEPT ![i] = 1] /\ size' = [size EXCEPT ![i] = n]
      /\ blocks_used' = (blocks_used + n) % U8 /\ asked' = n /\ got' = i
  BY DEF Take, Filled
<1>2. /\ Typed(blocks', blocks_reference_counter', owners', size')
      /\ Marked(blocks', blocks_reference_counter', owners', size')
      /\ Cardinality(UsedOf(blocks')) = blocks_used + n
  BY <1>1, BooksAre, TakeKeepsMarks
<1>3. blocks_used' = blocks_used + n /\ blocks_used + n \in 0..(U8 - 1)
  <2>1. blocks_used + n \in Nat /\ blocks_used + n < U8
    <3>1. blocks_used + n <= BlockNum /\ blocks_used \in Nat
      BY <1>2, BooksAre, UsedFinite
    <3> QED BY <3>1, PoolAssumption DEF FitsInBytes
  <2> QED BY <1>1, <2>1, SmallMod, PoolAssumption
<1>4. TypeOK'
  <2>1. blocks_reference_counter' \in [Block -> 0..(U8 - 1)]
    BY <1>1, PoolAssumption DEF IInv, TypeOK, Filled
  <2>2. owners' \in [Block -> 0..MaxOwners]
    <3>1. 1 \in 0..MaxOwners
      BY PoolAssumption
    <3> QED BY <1>1, <3>1 DEF IInv, TypeOK
  <2>3. asked' \in Nat /\ got' \in -1..(BlockNum - 1)
    BY <1>1, PoolAssumption DEF FreeRun, Block
  <2> QED BY <1>2, <1>3, <2>1, <2>2, <2>3 DEF TypeOK, Typed
<1> QED BY <1>2, <1>3, <1>4 DEF IInv, BuffersMarked, Marked, Counted, Used, UsedOf

-----------------------------------------------------------------------------
(* What the marks say of a buffer with owners.                             *)
LEMMA LiveBuffer ==
  ASSUME IInv, NEW i \in Block, owners[i] > 0
  PROVE  /\ i \in Nat /\ size[i] \in Nat /\ size[i] >= 1 /\ i + size[i] <= BlockNum
         /\ blocks[i] = size[i] /\ blocks[i] # 0
         /\ owners[i] \in Nat /\ owners[i] <= MaxOwners
         /\ \A j \in Run(i, size[i]) : /\ j \in Block /\ blocks[j] = size[i]
                                       /\ blocks_reference_counter[j] = owners[i]
<1>1. /\ size[i] >= 1 /\ i + size[i] <= BlockNum
      /\ \A j \in Run(i, size[i]) : blocks[j] = size[i] /\ blocks_reference_counter[j] = owners[i]
  BY DEF IInv, BuffersMarked, BufferMarked
<1>2. i \in Nat /\ size[i] \in Nat /\ owners[i] \in Nat /\ owners[i] <= MaxOwners
  BY PoolAssumption DEF IInv, TypeOK, Block
<1>3. i \in Run(i, size[i]) /\ \A j \in Run(i, size[i]) : j \in Block
  BY <1>1, <1>2, PoolAssumption DEF Run, Block
<1> QED BY <1>1, <1>2, <1>3

(* The blocks of two buffers are different blocks.                         *)
LEMMA RunsDisjoint ==
  ASSUME IInv, NEW i \in Block, NEW k \in Block, owners[i] > 0, owners[k] > 0, i # k
  PROVE  Run(i, size[i]) \cap Run(k, size[k]) = {}
<1>1. i \in Nat /\ k \in Nat /\ size[i] \in Nat /\ size[k] \in Nat
  BY LiveBuffer
<1>2. i + size[i] <= k \/ k + size[k] <= i
  BY <1>1 DEF IInv, BuffersMarked, Disjoint
<1> QED BY <1>1, <1>2 DEF Run

(* One more owner: every block of the buffer counts it.                    *)
LEMMA OwnStep ==
  ASSUME IInv, NEW i \in Block, ramx_take_ownership(i)
  PROVE  IInv'
<1>1. owners[i] \in 1..(MaxOwners - 1) /\ owners[i] > 0
  <2>1. owners[i] \in 1..(MaxOwners - 1)
    BY DEF ramx_take_ownership
  <2> QED BY <2>1
<1>2. /\ i \in Nat /\ size[i] \in Nat /\ size[i] >= 1 /\ i + size[i] <= BlockNum
      /\ blocks[i] = size[i]
      /\ \A j \in Run(i, size[i]) : /\ j \in Block /\ blocks[j] = size[i]
                                    /\ blocks_reference_counter[j] = owners[i]
  BY <1>1, LiveBuffer
<1>3. /\ blocks' = blocks /\ blocks_used' = blocks_used /\ size' = size /\ asked' = asked /\ got' = got
      /\ owners' = [owners EXCEPT ![i] = owners[i] + 1]
  BY DEF ramx_take_ownership
<1>4. (owners[i] + 1) % U8 = owners[i] + 1 /\ owners[i] + 1 \in 0..(U8 - 1)
  <2>1. owners[i] + 1 \in Nat /\ owners[i] + 1 < U8
    BY <1>1, PoolAssumption
  <2> QED BY <2>1, SmallMod, PoolAssumption
<1>5. blocks_reference_counter' =
       [j \in Block |-> IF j \in Run(i, size[i]) THEN owners[i] + 1
                                                 ELSE blocks_reference_counter[j]]
  BY <1>2, <1>4 DEF ramx_take_ownership
<1>6. TypeOK'
  <2>1. owners' \in [Block -> 0..MaxOwners]
    BY <1>1, <1>3, PoolAssumption DEF IInv, TypeOK
  <2>2. blocks_reference_counter' \in [Block -> 0..(U8 - 1)]
    BY <1>4, <1>5 DEF IInv, TypeOK
  <2> QED BY <1>3, <2>1, <2>2 DEF IInv, TypeOK
<1>7. /\ owners'[i] = owners[i] + 1
      /\ \A k \in Block : k # i => owners'[k] = owners[k]
      /\ \A k \in Block : owners'[k] > 0 <=> owners[k] > 0
  <2>1. owners \in [Block -> 0..MaxOwners]
    BY DEF IInv, TypeOK
  <2> QED BY <1>1, <1>3, <2>1
<1>8. ASSUME NEW k \in Block
      PROVE  BufferMarked(k, blocks, blocks_reference_counter', owners', size)
  <2> SUFFICES ASSUME owners[k] > 0
               PROVE  /\ size[k] >= 1 /\ k + size[k] <= BlockNum
                      /\ \A j \in Run(k, size[k]) :
                           blocks[j] = size[k] /\ blocks_reference_counter'[j] = owners'[k]
    BY <1>7 DEF BufferMarked
  <2>1. /\ size[k] >= 1 /\ k + size[k] <= BlockNum
        /\ \A j \in Run(k, size[k]) : /\ j \in Block /\ blocks[j] = size[k]
                                       /\ blocks_reference_counter[j] = owners[k]
    BY LiveBuffer
  <2>2. CASE k = i
    BY <1>5, <1>7, <2>1, <2>2
  <2>3. CASE k # i
    <3>1. \A j \in Run(k, size[k]) : j \notin Run(i, size[i])
      BY <1>1, <2>3, RunsDisjoint
    <3> QED BY <1>5, <1>7, <2>1, <2>3, <3>1
  <2> QED BY <2>2, <2>3
<1>9. Disjoint(owners', size) /\ Covered(blocks, owners', size)
  BY <1>7 DEF IInv, BuffersMarked, Disjoint, Covered
<1>10. Used' = Used
  BY <1>3 DEF Used
<1> QED BY <1>3, <1>6, <1>8, <1>9, <1>10 DEF IInv, BuffersMarked, Counted

(* An owner leaves: the last one gives every block of the buffer back, any *)
(* other one gives back none.                                              *)
LEMMA FreeEffect ==
  ASSUME IInv, NEW i \in Block, ramx_pool_free(i)
  PROVE  /\ owners[i] > 0 /\ owners' = [owners EXCEPT ![i] = owners[i] - 1]
         /\ size' = size /\ asked' = asked /\ got' = got
         /\ \/ /\ owners[i] = 1
               /\ blocks' = [j \in Block |-> IF j \in Run(i, size[i]) THEN 0 ELSE blocks[j]]
               /\ blocks_reference_counter' = blocks_reference_counter
               /\ blocks_used' = (blocks_used - size[i]) % U8
            \/ /\ owners[i] > 1
               /\ blocks' = blocks
               /\ blocks_reference_counter' =
                    [j \in Block |-> IF j \in Run(i, size[i]) THEN owners[i] - 1
                                                              ELSE blocks_reference_counter[j]]
               /\ blocks_used' = (blocks_used - 0) % U8
<1> DEFINE freed == {j \in Run(i, blocks[i]) : blocks_reference_counter[j] <= 1}
<1>1. /\ owners[i] > 0 /\ owners' = [owners EXCEPT ![i] = owners[i] - 1]
      /\ size' = size /\ asked' = asked /\ got' = got
      /\ blocks' = [j \in Block |-> IF j \in freed THEN 0 ELSE blocks[j]]
      /\ blocks_reference_counter' =
           [j \in Block |-> IF j \in Run(i, blocks[i]) \ freed
                            THEN blocks_reference_counter[j] - 1
                            ELSE blocks_reference_counter[j]]
      /\ blocks_used' = (blocks_used - Cardinality(freed)) % U8
  BY DEF ramx_pool_free
<1>2. /\ i \in Nat /\ size[i] \in Nat /\ blocks[i] = size[i] /\ owners[i] \in Nat
      /\ \A j \in Run(i, size[i]) : /\ j \in Block
                                    /\ blocks_reference_counter[j] = owners[i]
  BY <1>1, LiveBuffer
<1>3. blocks \in [Block -> 0..BlockNum] /\ blocks_reference_counter \in [Block -> 0..(U8 - 1)]
  BY DEF IInv, TypeOK
<1>4. CASE owners[i] = 1
  <2>1. freed = Run(i, size[i])
    BY <1>2, <1>4
  <2>2. Cardinality(freed) = size[i]
    BY <1>2, <2>1, RunCard
  <2>3. blocks_reference_counter' = blocks_reference_counter
    BY <1>1, <1>2, <1>3, <2>1
  <2> QED BY <1>1, <1>4, <2>1, <2>2, <2>3
<1>5. CASE owners[i] > 1
  <2>1. freed = {}
    BY <1>2, <1>5
  <2>2. Cardinality(freed) = 0
    BY <2>1, FS_EmptySet
  <2>3. blocks' = blocks
    BY <1>1, <1>3, <2>1
  <2> QED BY <1>1, <1>2, <1>5, <2>1, <2>2, <2>3
<1> QED BY <1>1, <1>2, <1>4, <1>5

(* A buffer's owner frees it.                                              *)
LEMMA FreeStep ==
  ASSUME FitsInBytes, IInv, NEW i \in Block, ramx_pool_free(i)
  PROVE  IInv'
<1>1. /\ owners[i] > 0 /\ owners' = [owners EXCEPT ![i] = owners[i] - 1]
      /\ size' = size /\ asked' = asked /\ got' = got
  BY FreeEffect
<1>2. /\ i \in Nat /\ size[i] \in Nat /\ size[i] >= 1 /\ i + size[i] <= BlockNum
      /\ owners[i] \in Nat /\ owners[i] <= MaxOwners
      /\ \A j \in Run(i, size[i]) : /\ j \in Block /\ blocks[j] = size[i]
                                    /\ blocks_reference_counter[j] = owners[i]
  BY <1>1, LiveBuffer
<1>3. /\ owners \in [Block -> 0..MaxOwners] /\ blocks \in [Block -> 0..BlockNum]
      /\ blocks_reference_counter \in [Block -> 0..(U8 - 1)]
      /\ blocks_used \in Nat /\ blocks_used < U8 /\ blocks_used = Cardinality(Used)
  BY PoolAssumption DEF IInv, TypeOK, Counted
<1>4. /\ owners'[i] = owners[i] - 1
      /\ \A k \in Block : k # i => owners'[k] = owners[k]
      /\ owners' \in [Block -> 0..MaxOwners]
  <2>1. owners[i] - 1 \in 0..MaxOwners
    BY <1>1, <1>2, PoolAssumption
  <2> QED BY <1>1, <1>3, <2>1
<1>5. CASE owners[i] = 1
  <2>1. /\ blocks' = Filled(blocks, i, size[i], 0)
        /\ blocks_reference_counter' = blocks_reference_counter
        /\ blocks_used' = (blocks_used - size[i]) % U8
        /\ owners' = [owners EXCEPT ![i] = 0]
    <3>1. ~(owners[i] > 1) /\ owners[i] - 1 = 0
      BY <1>5
    <3>2. /\ blocks' = [j \in Block |-> IF j \in Run(i, size[i]) THEN 0 ELSE blocks[j]]
          /\ blocks_reference_counter' = blocks_reference_counter
          /\ blocks_used' = (blocks_used - size[i]) % U8
      BY <3>1, FreeEffect
    <3> QED BY <1>1, <3>1, <3>2 DEF Filled
  <2>2. /\ Typed(blocks', blocks_reference_counter', owners', size')
        /\ Marked(blocks', blocks_reference_counter', owners', size')
        /\ Cardinality(UsedOf(blocks')) = blocks_used - size[i]
    <3> DEFINE bs == Filled(blocks, i, size[i], 0)
               own == [owners EXCEPT ![i] = 0]
    <3>1. /\ Typed(bs, blocks_reference_counter, own, size)
          /\ Marked(bs, blocks_reference_counter, own, size)
          /\ Cardinality(UsedOf(bs)) = Cardinality(UsedOf(blocks)) - size[i]
      BY <1>5, BooksAre, FreeKeepsMarks
    <3>2. blocks' = bs /\ owners' = own /\ size' = size
      BY <1>1, <2>1
    <3> HIDE DEF bs, own
    <3> QED BY <2>1, <3>1, <3>2, BooksAre
  <2>3. blocks_used' = blocks_used - size[i] /\ blocks_used' \in 0..(U8 - 1)
    <3>1. blocks_used - size[i] \in Nat /\ blocks_used - size[i] < U8
      BY <1>2, <1>3, <2>2, UsedFinite, PoolAssumption
    <3> QED BY <2>1, <3>1, SmallMod, PoolAssumption
  <2>4. TypeOK'
    BY <1>1, <1>3, <1>4, <2>1, <2>2, <2>3 DEF IInv, TypeOK, Typed
  <2> QED BY <2>2, <2>3, <2>4 DEF IInv, BuffersMarked, Marked, Counted, Used, UsedOf
<1>6. CASE owners[i] > 1
  <2>1. /\ blocks' = blocks /\ blocks_used' = (blocks_used - 0) % U8
        /\ blocks_reference_counter' =
             [j \in Block |-> IF j \in Run(i, size[i]) THEN owners[i] - 1
                                                       ELSE blocks_reference_counter[j]]
    <3>1. owners[i] # 1
      BY <1>2, <1>6
    <3> QED BY <3>1, FreeEffect
  <2>2. blocks_used' = blocks_used
    BY <1>3, <2>1, SmallMod
  <2>3. Used' = Used
    BY <2>1 DEF Used
  <2>4. TypeOK'
    <3>1. owners[i] - 1 \in 0..(U8 - 1)
      BY <1>2, <1>6, PoolAssumption
    <3>2. blocks_reference_counter' \in [Block -> 0..(U8 - 1)]
      BY <1>3, <2>1, <3>1
    <3> QED BY <1>1, <1>4, <2>1, <2>2, <3>2 DEF IInv, TypeOK
  <2>5. ASSUME NEW k \in Block PROVE owners'[k] > 0 <=> owners[k] > 0
    <3>1. owners[k] \in Nat
      BY <1>3
    <3> QED BY <1>2, <1>4, <1>6, <3>1
  <2>6. ASSUME NEW k \in Block
        PROVE  BufferMarked(k, blocks, blocks_reference_counter', owners', size)
    <3> SUFFICES ASSUME owners[k] > 0
                 PROVE  /\ size[k] >= 1 /\ k + size[k] <= BlockNum
                        /\ \A j \in Run(k, size[k]) :
                             blocks[j] = size[k] /\ blocks_reference_counter'[j] = owners'[k]
      BY <2>5 DEF BufferMarked
    <3>1. /\ size[k] >= 1 /\ k + size[k] <= BlockNum
          /\ \A j \in Run(k, size[k]) : /\ j \in Block /\ blocks[j] = size[k]
                                        /\ blocks_reference_counter[j] = owners[k]
      BY LiveBuffer
    <3>2. CASE k = i
      BY <1>4, <2>1, <3>1, <3>2
    <3>3. CASE k # i
      <4>1. \A j \in Run(k, size[k]) : j \notin Run(i, size[i])
        BY <1>1, <3>3, RunsDisjoint
      <4> QED BY <1>4, <2>1, <3>1, <3>3, <4>1
    <3> QED BY <3>2, <3>3
  <2>7. Disjoint(owners', size) /\ Covered(blocks, owners', size)
    BY <2>5 DEF IInv, BuffersMarked, Disjoint, Covered
  <2> QED BY <1>1, <2>1, <2>2, <2>3, <2>4, <2>6, <2>7 DEF IInv, BuffersMarked, Counted
<1> QED BY <1>1, <1>2, <1>5, <1>6

(* The state of a fresh pool, whatever was there before.                   *)
LEMMA ResetStep == ramx_pool_init => IInv'
<1> SUFFICES ASSUME ramx_pool_init PROVE IInv' OBVIOUS
<1>1. TypeOK'
  BY PoolAssumption DEF ramx_pool_init, TypeOK, Block, NULL
<1>2. BuffersMarked'
  BY PoolAssumption DEF ramx_pool_init, BuffersMarked, BufferMarked, Disjoint, Covered, Block
<1>3. Used' = {}
  BY DEF ramx_pool_init, Used
<1> QED BY <1>1, <1>2, <1>3, FS_EmptySet DEF IInv, Counted, ramx_pool_init

(* A refused request changes nothing but the answer.                       *)
LEMMA RefusedStep ==
  ASSUME IInv, NEW n \in Nat, Refused(n)
  PROVE  IInv'
<1>1. /\ blocks' = blocks /\ blocks_reference_counter' = blocks_reference_counter
      /\ blocks_used' = blocks_used /\ owners' = owners /\ size' = size
      /\ asked' = n /\ got' = -1
  BY DEF Refused, pool, NULL
<1>2. -1 \in -1..(BlockNum - 1)
  BY PoolAssumption
<1> QED BY <1>1, <1>2 DEF IInv, TypeOK, BuffersMarked, Counted, Used

(* Either way of asking is a request for n blocks that gets n blocks, if   *)
(* the number of blocks fits in a byte.                                    *)
LEMMA RequestInBlocks ==
  ASSUME FitsInBytes
  PROVE  /\ \A n \in 0..(U8 - 1) : ramx_pool_alloc_blocks(n) =>
               n \in Nat /\ n < U8 /\ Allocate(n, n)
         /\ \A b \in 0..MaxBytes : ramx_pool_alloc_bytes(b) =>
               \E n \in Nat : n < U8 /\ Allocate(n, n)
<1>1. ASSUME NEW n \in 0..(U8 - 1), ramx_pool_alloc_blocks(n)
      PROVE  n \in Nat /\ n < U8 /\ Allocate(n, n)
  BY <1>1, PoolAssumption DEF ramx_pool_alloc_blocks
<1>2. ASSUME NEW b \in 0..MaxBytes, ramx_pool_alloc_bytes(b)
      PROVE  \E n \in Nat : n < U8 /\ Allocate(n, n)
  <2> DEFINE n == DIV_ROUND_UP(b, BlockSize)
  <2>1. n \in Nat /\ n < U8
    BY RoundUp DEF FitsInBytes
  <2>2. n % U8 = n
    BY <2>1, SmallMod
  <2>3. Allocate(n % U8, n)
    BY <1>2 DEF ramx_pool_alloc_bytes
  <2> HIDE DEF n
  <2> QED BY <2>1, <2>2, <2>3
<1> QED BY <1>1, <1>2

(* An allocation, refused or not, keeps the books.                         *)
LEMMA AllocateStep ==
  ASSUME FitsInBytes, IInv, NEW n \in Nat, Allocate(n, n)
  PROVE  IInv'
<1>1. CASE Refused(n)
  BY <1>1, RefusedStep
<1>2. CASE n \in 1..BlockNum /\ \E i \in FreeRun(blocks, n) : Take(i, n, n)
  BY <1>2, TakeStep
<1> QED BY <1>1, <1>2 DEF Allocate

(* Every call keeps the books right.                                       *)
LEMMA NextIInv == FitsInBytes /\ IInv /\ [Next]_vars => IInv'
<1> SUFFICES ASSUME FitsInBytes, IInv, [Next]_vars PROVE IInv' OBVIOUS
<1>1. CASE UNCHANGED vars
  BY <1>1 DEF vars, IInv, TypeOK, BuffersMarked, Counted, Used
<1>2. CASE ramx_pool_init
  BY <1>2, ResetStep
<1>3. CASE \E n \in 0..(U8 - 1) : ramx_pool_alloc_blocks(n)
  BY <1>3, RequestInBlocks, AllocateStep
<1>4. CASE \E b \in 0..MaxBytes : ramx_pool_alloc_bytes(b)
  BY <1>4, RequestInBlocks, AllocateStep
<1>5. CASE \E i \in Block : ramx_take_ownership(i)
  BY <1>5, OwnStep
<1>6. CASE \E i \in Block : ramx_pool_free(i)
  BY <1>6, FreeStep
<1> QED BY <1>1, <1>2, <1>3, <1>4, <1>5, <1>6 DEF Next

(* The inductive invariant of the pool: types, marks, and the number of    *)
(* blocks in use.                                                          *)
THEOREM Invariance == ASSUME FitsInBytes PROVE Spec => []IInv
<1>1. IInv /\ [Next]_vars => IInv'
  BY NextIInv
<1> QED BY <1>1, InitIInv, PTL DEF Spec

(* The fields of pool_t stay in range for every number of blocks.          *)
THEOREM TypeCorrect == ASSUME FitsInBytes PROVE Spec => []TypeOK
<1>1. IInv => TypeOK
  BY DEF IInv
<1> QED BY <1>1, Invariance, PTL

(* No two owned buffers ever share a block, and the marks of ramx_alloc.h  *)
(* describe exactly the owned buffers.                                     *)
THEOREM MarksAreTrue == ASSUME FitsInBytes PROVE Spec => []BuffersMarked
<1>1. IInv => BuffersMarked
  BY DEF IInv
<1> QED BY <1>1, Invariance, PTL

(* ramx_pool_stats_free is exact whatever was allocated, shared and freed. *)
THEOREM StatsAreExact == ASSUME FitsInBytes PROVE Spec => []StatsExact
<1>1. IInv => StatsExact
  <2> SUFFICES ASSUME IInv PROVE StatsExact OBVIOUS
  <2>1. BlockNum % U8 = BlockNum
    BY SmallMod, PoolAssumption DEF FitsInBytes
  <2>2. Cardinality(Used) \in Nat /\ Cardinality(Used) <= BlockNum
    BY UsedFinite DEF Used, UsedOf
  <2>3. BlockNum - Cardinality(Used) \in Nat /\ BlockNum - Cardinality(Used) < U8
    BY <2>2, PoolAssumption DEF FitsInBytes
  <2> QED BY <2>1, <2>3, SmallMod DEF IInv, Counted, StatsExact, ramx_pool_stats_free
<1> QED BY <1>1, Invariance, PTL

-----------------------------------------------------------------------------
(* The pool implements shared, disjoint buffers.                           *)

(* The runs the scan accepts are the ones where a buffer fits.             *)
LEMMA ScanFits ==
  ASSUME IInv, NEW n \in 1..BlockNum, NEW i \in Block
  PROVE  i \in FreeRun(blocks, n) <=> Pool!Fits(i, n)
<1>1. i \in FreeRun(blocks, n) <=>
        /\ i + n <= BlockNum
        /\ \A k \in Block : owners[k] > 0 => Run(k, size[k]) \cap Run(i, n) = {}
  BY BooksAre, FreeRunFits
<1> QED BY <1>1 DEF Pool!Fits, Pool!Extent, Pool!Block, Block, Run

(* An allocation of n blocks is an abstract allocation or a refusal.       *)
LEMMA AllocateMaps ==
  ASSUME IInv, NEW n \in Nat, n < U8, Allocate(n, n)
  PROVE  Pool!Next
<1>0. n \in 0..(U8 - 1)
  BY PoolAssumption
<1>1. CASE n = 0 /\ Refused(n)
  <2>1. Pool!Refuse(n)
    BY <1>1 DEF Refused, NULL, Pool!Refuse
  <2> QED BY <1>0, <2>1 DEF Pool!Next
<1>2. CASE n > BlockNum /\ Refused(n)
  <2>1. ASSUME NEW i \in Block PROVE ~Pool!Fits(i, n)
    <3>1. i \in Nat /\ BlockNum \in Nat
      BY PoolAssumption DEF Block
    <3>2. ~(i + n <= BlockNum)
      BY <1>2, <3>1
    <3> QED BY <3>2 DEF Pool!Fits
  <2>2. asked' = n /\ got' = -1 /\ UNCHANGED <<owners, size>>
    BY <1>2 DEF Refused, NULL
  <2>3. Pool!Refuse(n)
    BY <2>1, <2>2 DEF Pool!Refuse, Pool!Block, Block
  <2> QED BY <1>0, <2>3 DEF Pool!Next
<1>3. CASE n \in 1..BlockNum /\ FreeRun(blocks, n) = {} /\ Refused(n)
  <2>1. \A i \in Block : ~Pool!Fits(i, n)
    BY <1>3, ScanFits
  <2>2. asked' = n /\ got' = -1 /\ UNCHANGED <<owners, size>>
    BY <1>3 DEF Refused, NULL
  <2>3. Pool!Refuse(n)
    BY <2>1, <2>2 DEF Pool!Refuse, Pool!Block, Block
  <2> QED BY <1>0, <2>3 DEF Pool!Next
<1>4. CASE n \in 1..BlockNum /\ \E i \in FreeRun(blocks, n) : Take(i, n, n)
  <2>1. PICK i \in FreeRun(blocks, n) : Take(i, n, n)
    BY <1>4
  <2>2. i \in Block /\ Pool!Fits(i, n)
    BY <1>4, <2>1, ScanFits DEF FreeRun
  <2>3. n >= 1
    BY <1>4
  <2>4. Pool!Alloc(i, n)
    BY <2>1, <2>2, <2>3 DEF Take, Pool!Alloc
  <2> QED BY <1>4, <2>2, <2>4 DEF Pool!Next, Pool!Block, Block
<1> QED BY <1>1, <1>2, <1>3, <1>4 DEF Allocate

(* Every step of the pool is a step of the abstract one.                   *)
LEMMA NextMaps == FitsInBytes /\ IInv /\ [Next]_vars => [Pool!Next]_(Pool!vars)
<1> SUFFICES ASSUME FitsInBytes, IInv, [Next]_vars PROVE [Pool!Next]_(Pool!vars) OBVIOUS
<1>1. CASE UNCHANGED vars
  BY <1>1 DEF vars, Pool!vars
<1>2. CASE ramx_pool_init
  BY <1>2 DEF ramx_pool_init, NULL, Block, Pool!Block, Pool!Reset, Pool!Next
<1>3. CASE \E n \in 0..(U8 - 1) : ramx_pool_alloc_blocks(n)
  BY <1>3, RequestInBlocks, AllocateMaps
<1>4. CASE \E b \in 0..MaxBytes : ramx_pool_alloc_bytes(b)
  BY <1>4, RequestInBlocks, AllocateMaps
<1>5. CASE \E i \in Block : ramx_take_ownership(i)
  BY <1>5 DEF ramx_take_ownership, Block, Pool!Block, Pool!Own, Pool!Next
<1>6. CASE \E i \in Block : ramx_pool_free(i)
  BY <1>6 DEF ramx_pool_free, Block, Pool!Block, Pool!Release, Pool!Next
<1> QED BY <1>1, <1>2, <1>3, <1>4, <1>5, <1>6 DEF Next

(* ramx_alloc.h implements disjoint, shared buffers for every pool of      *)
(* fewer than 256 blocks whose requests stay below 256 blocks.             *)
THEOREM Refinement == ASSUME FitsInBytes PROVE Spec => ImplementsPool
<1>1. Init => Pool!Init
  BY DEF Init, NULL, Block, Pool!Init, Pool!Block
<1>2. IInv /\ [Next]_vars => [Pool!Next]_(Pool!vars)
  BY NextMaps
<1> QED BY <1>1, <1>2, Invariance, PTL DEF Spec, ImplementsPool, Pool!Spec
-----------------------------------------------------------------------------
(* alloc.c: the same marks, with one owner for each buffer.  Its pool has  *)
(* no counters; a block that counted would always count one owner.         *)

One == [j \in Block |-> 1]

RamInv ==
  /\ Typed(ram_blocks, One, ram_owners, ram_size)
  /\ Marked(ram_blocks, One, ram_owners, ram_size)
  /\ \A i \in Block : ram_owners[i] \in {0, 1}
  /\ ram_used \in Nat /\ ram_used = Cardinality(UsedOf(ram_blocks))

LEMMA RamNames ==
  /\ Ram!NULL = -1 /\ Ram!Block = Block /\ Ram!Pool!Block = Block
  /\ \A i, n : Ram!Run(i, n) = Run(i, n)
  /\ \A n : Ram!space_found(n) = FreeRun(ram_blocks, n)
  /\ \A i, n : Ram!Mark(i, n) = Filled(ram_blocks, i, n, n)
BY DEF Ram!NULL, Ram!Block, Block, Ram!Pool!Block, Ram!Run, Run, Ram!space_found, FreeRun,
       Ram!Mark, Filled

LEMMA RamEmpty ==
  ASSUME NEW none, none = [i \in Block |-> 0]
  PROVE  /\ Marked(none, One, none, none) /\ Typed(none, One, none, none)
         /\ Cardinality(UsedOf(none)) = 0
<1>1. Marked(none, none, none, none) /\ Typed(none, none, none, none) /\ Cardinality(UsedOf(none)) = 0
  BY EmptyMarks
<1> QED BY <1>1 DEF Marked, BufferMarked, Typed, One

LEMMA RamInit == Ram!Init => RamInv
<1> SUFFICES ASSUME Ram!Init PROVE RamInv
  OBVIOUS
<1>1. PICK none : none = [i \in Block |-> 0]
  OBVIOUS
<1>2. ram_blocks = none /\ ram_owners = none /\ ram_size = none /\ ram_used = 0
  BY <1>1, RamNames DEF Ram!Init
<1> QED BY <1>1, <1>2, RamEmpty DEF RamInv

(* What an allocation that is granted does.                                *)
RamTake(i, n) ==
  /\ i \in FreeRun(ram_blocks, n)
  /\ ram_blocks' = Filled(ram_blocks, i, n, n)
  /\ ram_owners' = [ram_owners EXCEPT ![i] = 1]
  /\ ram_size' = [ram_size EXCEPT ![i] = n]
  /\ ram_asked' = n /\ ram_got' = i
  /\ ram_used' = (ram_used + n) % U8

RamRefused(n) == ram_asked' = n /\ ram_got' = -1
                 /\ UNCHANGED <<ram_blocks, ram_used, ram_owners, ram_size>>

LEMMA RamAllocateIs ==
  ASSUME NEW n \in Nat, Ram!Allocate(n, n)
  PROVE  \/ (n = 0 \/ n > BlockNum \/ FreeRun(ram_blocks, n) = {}) /\ RamRefused(n)
         \/ n \in 1..BlockNum /\ \E i \in FreeRun(ram_blocks, n) : RamTake(i, n)
<1>1. CASE /\ n = 0 \/ n > BlockNum \/ Ram!space_found(n) = {}
           /\ Ram!Refused(n)
  BY <1>1, RamNames DEF Ram!Refused, RamRefused
<1>2. CASE /\ n \in 1..BlockNum
           /\ \E i \in Ram!space_found(n) :
                /\ ram_blocks' = Ram!Mark(i, n)
                /\ ram_owners' = [ram_owners EXCEPT ![i] = 1]
                /\ ram_size' = [ram_size EXCEPT ![i] = n]
                /\ ram_asked' = n /\ ram_got' = i
           /\ ram_used' = (ram_used + n) % U8
  BY <1>2, RamNames DEF RamTake
<1> QED BY <1>1, <1>2 DEF Ram!Allocate

(* Either way of asking is a request for n blocks that gets n blocks.      *)
LEMMA RamRequestInBlocks ==
  ASSUME FitsInBytes
  PROVE  /\ \A n \in 0..(U8 - 1) : Ram!pool_alloc_blocks(n) =>
               n \in Nat /\ n < U8 /\ Ram!Allocate(n, n)
         /\ \A b \in 0..MaxBytes : Ram!pool_alloc_bytes(b) =>
               \E n \in Nat : n < U8 /\ Ram!Allocate(n, n)
<1>1. ASSUME NEW n \in 0..(U8 - 1), Ram!pool_alloc_blocks(n)
      PROVE  n \in Nat /\ n < U8 /\ Ram!Allocate(n, n)
  BY <1>1, PoolAssumption DEF Ram!pool_alloc_blocks
<1>2. ASSUME NEW b \in 0..MaxBytes, Ram!pool_alloc_bytes(b)
      PROVE  \E n \in Nat : n < U8 /\ Ram!Allocate(n, n)
  <2> DEFINE n == DIV_ROUND_UP(b, BlockSize)
  <2>1. n \in Nat /\ n < U8
    BY RoundUp DEF FitsInBytes
  <2>2. n % U8 = n
    BY <2>1, SmallMod
  <2>3. Ram!Allocate(n % U8, n)
    BY <1>2 DEF Ram!pool_alloc_bytes, Ram!DIV_ROUND_UP, DIV_ROUND_UP
  <2> HIDE DEF n
  <2> QED BY <2>1, <2>2, <2>3
<1> QED BY <1>1, <1>2

LEMMA RamTakeStep ==
  ASSUME FitsInBytes, RamInv, NEW n \in 1..BlockNum, NEW i, RamTake(i, n)
  PROVE  RamInv'
<1>1. /\ i \in FreeRun(ram_blocks, n) /\ i \in Block
      /\ ram_blocks' = Filled(ram_blocks, i, n, n)
      /\ ram_owners' = [ram_owners EXCEPT ![i] = 1] /\ ram_size' = [ram_size EXCEPT ![i] = n]
      /\ ram_used' = (ram_used + n) % U8
  BY DEF RamTake, FreeRun
<1>2. Filled(One, i, n, 1) = One
  BY DEF Filled, One
<1>3. /\ Typed(ram_blocks', One, ram_owners', ram_size')
      /\ Marked(ram_blocks', One, ram_owners', ram_size')
      /\ Cardinality(UsedOf(ram_blocks')) = ram_used + n
  <2> DEFINE bs == Filled(ram_blocks, i, n, n)
             own == [ram_owners EXCEPT ![i] = 1]
             len == [ram_size EXCEPT ![i] = n]
  <2>1. /\ Typed(bs, Filled(One, i, n, 1), own, len) /\ Marked(bs, Filled(One, i, n, 1), own, len)
        /\ Cardinality(UsedOf(bs)) = Cardinality(UsedOf(ram_blocks)) + n
    BY <1>1, TakeKeepsMarks DEF RamInv
  <2>2. ram_blocks' = bs /\ ram_owners' = own /\ ram_size' = len
    BY <1>1
  <2> HIDE DEF bs, own, len
  <2> QED BY <1>2, <2>1, <2>2 DEF RamInv
<1>4. ram_used' = ram_used + n /\ ram_used' \in Nat
  <2>1. ram_used + n \in Nat /\ ram_used + n < U8
    <3>1. ram_used + n <= BlockNum
      BY <1>3, UsedFinite
    <3> QED BY <3>1, PoolAssumption DEF FitsInBytes, RamInv
  <2> QED BY <1>1, <2>1, SmallMod
<1>5. \A k \in Block : ram_owners'[k] \in {0, 1}
  BY <1>1 DEF RamInv, Typed
<1> QED BY <1>3, <1>4, <1>5 DEF RamInv

(* What pool_free does: the mark of the first block is the length of the   *)
(* buffer.                                                                 *)
LEMMA RamFreeIs ==
  ASSUME RamInv, NEW i \in Block, Ram!pool_free(i)
  PROVE  /\ ram_owners[i] = 1 /\ ram_owners' = [ram_owners EXCEPT ![i] = 0]
         /\ ram_blocks' = Filled(ram_blocks, i, ram_size[i], 0)
         /\ ram_used' = (ram_used - ram_size[i]) % U8
         /\ UNCHANGED <<ram_size, ram_asked, ram_got>>
<1>1. /\ ram_owners[i] = 1 /\ ram_owners' = [ram_owners EXCEPT ![i] = 0]
      /\ ram_blocks' = Filled(ram_blocks, i, ram_blocks[i], 0)
      /\ ram_used' = (ram_used - ram_blocks[i]) % U8
      /\ UNCHANGED <<ram_size, ram_asked, ram_got>>
  BY RamNames DEF Ram!pool_free, Filled
<1>2. ram_blocks[i] = ram_size[i]
  <2>1. ram_owners[i] > 0
    BY <1>1
  <2> QED BY <2>1, LiveIs DEF RamInv
<1> QED BY <1>1, <1>2

LEMMA RamFreeStep ==
  ASSUME FitsInBytes, RamInv, NEW i \in Block, Ram!pool_free(i)
  PROVE  RamInv'
<1>1. /\ ram_owners[i] = 1 /\ ram_owners' = [ram_owners EXCEPT ![i] = 0]
      /\ ram_blocks' = Filled(ram_blocks, i, ram_size[i], 0) /\ ram_size' = ram_size
      /\ ram_used' = (ram_used - ram_size[i]) % U8
  BY RamFreeIs
<1>2. /\ Typed(ram_blocks', One, ram_owners', ram_size')
      /\ Marked(ram_blocks', One, ram_owners', ram_size')
      /\ Cardinality(UsedOf(ram_blocks')) = ram_used - ram_size[i]
  <2> DEFINE bs == Filled(ram_blocks, i, ram_size[i], 0)
             own == [ram_owners EXCEPT ![i] = 0]
  <2>1. /\ Typed(bs, One, own, ram_size) /\ Marked(bs, One, own, ram_size)
        /\ Cardinality(UsedOf(bs)) = Cardinality(UsedOf(ram_blocks)) - ram_size[i]
    <3>1. /\ Typed(ram_blocks, One, ram_owners, ram_size)
          /\ Marked(ram_blocks, One, ram_owners, ram_size) /\ ram_owners[i] = 1
      BY <1>1 DEF RamInv
    <3> QED BY <3>1, FreeKeepsMarks
  <2>2. ram_blocks' = bs /\ ram_owners' = own /\ ram_size' = ram_size
    BY <1>1
  <2> HIDE DEF bs, own
  <2> QED BY <2>1, <2>2 DEF RamInv
<1>3. ram_used' = ram_used - ram_size[i] /\ ram_used' \in Nat
  <2>1. ram_used - ram_size[i] \in Nat /\ ram_used - ram_size[i] < U8
    BY <1>2, UsedFinite, PoolAssumption DEF FitsInBytes
  <2> QED BY <1>1, <2>1, SmallMod
<1>4. \A k \in Block : ram_owners'[k] \in {0, 1}
  BY <1>1 DEF RamInv, Typed
<1> QED BY <1>2, <1>3, <1>4 DEF RamInv

LEMMA RamStep ==
  ASSUME FitsInBytes, RamInv, [Ram!Next]_(Ram!vars)
  PROVE  RamInv'
<1>1. CASE UNCHANGED Ram!vars
  BY <1>1 DEF Ram!vars, RamInv
<1>2. CASE Ram!pool_init
  <2>1. PICK none : none = [i \in Block |-> 0]
    OBVIOUS
  <2>2. ram_blocks' = none /\ ram_owners' = none /\ ram_size' = none /\ ram_used' = 0
    BY <1>2, <2>1, RamNames DEF Ram!pool_init
  <2> QED BY <2>1, <2>2, RamEmpty DEF RamInv
<1>3. ASSUME NEW n \in Nat, Ram!Allocate(n, n) PROVE RamInv'
  <2>1. CASE RamRefused(n)
    BY <2>1 DEF RamRefused, RamInv
  <2>2. CASE n \in 1..BlockNum /\ \E i \in FreeRun(ram_blocks, n) : RamTake(i, n)
    BY <2>2, RamTakeStep
  <2> QED BY <1>3, <2>1, <2>2, RamAllocateIs
<1>4. CASE \/ \E n \in 0..(U8 - 1) : Ram!pool_alloc_blocks(n)
           \/ \E b \in 0..MaxBytes : Ram!pool_alloc_bytes(b)
  BY <1>3, <1>4, RamRequestInBlocks
<1>5. CASE \E i \in Block : Ram!pool_free(i)
  BY <1>5, RamFreeStep
<1> QED BY <1>1, <1>2, <1>4, <1>5, RamNames DEF Ram!Next

LEMMA RamAlways == ASSUME FitsInBytes PROVE Ram!Spec => []RamInv
BY RamInit, RamStep, PTL DEF Ram!Spec

(* pool_stats_free counts the blocks that belong to no buffer.             *)
LEMMA RamStats ==
  ASSUME FitsInBytes, RamInv
  PROVE  Ram!StatsTrue
<1> DEFINE Idle == {j \in Block : \A i \in Block : ram_owners[i] = 1 => j \notin Run(i, ram_size[i])}
<1>1. Idle = Block \ UsedOf(ram_blocks)
  <2>1. ASSUME NEW j \in Block, ram_blocks[j] # 0 PROVE j \notin Idle
    <3>1. PICK k \in Block : ram_owners[k] > 0 /\ j \in Run(k, ram_size[k])
      BY <2>1 DEF RamInv, Marked, Covered
    <3>2. ram_owners[k] = 1
      BY <3>1 DEF RamInv
    <3> QED BY <3>1, <3>2
  <2>2. ASSUME NEW j \in Block, ram_blocks[j] = 0 PROVE j \in Idle
    <3>1. ASSUME NEW i \in Block, ram_owners[i] = 1, j \in Run(i, ram_size[i]) PROVE FALSE
      <4>1. ram_owners[i] > 0
        BY <3>1
      <4>2. ram_blocks[j] = ram_size[i] /\ ram_size[i] \in Nat /\ ram_size[i] >= 1
        BY <3>1, <4>1, LiveIs DEF RamInv
      <4> QED BY <2>2, <4>2
    <3> QED BY <3>1
  <2> QED BY <2>1, <2>2 DEF UsedOf
<1>2. Cardinality(Block \ UsedOf(ram_blocks)) = BlockNum - ram_used
  <2>1. UsedOf(ram_blocks) = Block \cap UsedOf(ram_blocks)
    BY DEF UsedOf
  <2> QED BY <2>1, UsedFinite, FS_Difference DEF RamInv
<1>3. BlockNum - ram_used \in Nat /\ BlockNum - ram_used < U8
  BY UsedFinite, PoolAssumption DEF RamInv, FitsInBytes
<1>4. (BlockNum - ram_used) % U8 = BlockNum - ram_used
  BY <1>3, SmallMod
<1>5. Ram!StatsTrue <=> (BlockNum - ram_used) % U8 = Cardinality(Idle)
  <2> DEFINE Theirs == {j \in Ram!Block :
                          \A i \in Ram!Block : ram_owners[i] = 1 => j \notin Ram!Run(i, ram_size[i])}
  <2>1. Ram!StatsTrue <=> (BlockNum - ram_used) % U8 = Cardinality(Theirs)
    BY Zenon DEF Ram!StatsTrue, Ram!pool_stats_free, Ram!Cardinality, Cardinality
  <2>2. \A j : j \in Theirs <=> j \in Idle
    BY RamNames
  <2>3. Theirs = Idle
    <3> HIDE DEF Theirs, Idle
    <3> QED BY <2>2
  <2> HIDE DEF Theirs, Idle
  <2> QED BY <2>1, <2>3
<1> HIDE DEF Idle
<1> QED BY <1>1, <1>2, <1>4, <1>5

LEMMA RamFits ==
  ASSUME RamInv, NEW n \in 1..BlockNum, NEW i \in Block
  PROVE  i \in FreeRun(ram_blocks, n) <=> Ram!Pool!Fits(i, n)
<1>1. i \in FreeRun(ram_blocks, n) <=>
        /\ i + n <= BlockNum
        /\ \A k \in Block : ram_owners[k] > 0 => Run(k, ram_size[k]) \cap Run(i, n) = {}
  BY FreeRunFits DEF RamInv
<1> QED BY <1>1, RamNames DEF Ram!Pool!Fits, Ram!Pool!Extent, Run

(* A request is answered as the abstract pool may answer it.               *)
LEMMA RamAllocateMaps ==
  ASSUME RamInv, NEW n \in Nat, n < U8, Ram!Allocate(n, n)
  PROVE  Ram!Pool!Next
<1>1. n \in 0..(U8 - 1)
  BY PoolAssumption
<1>2. CASE RamRefused(n) /\ (n = 0 \/ n > BlockNum \/ FreeRun(ram_blocks, n) = {})
  <2>1. ASSUME NEW i \in Block, n # 0 PROVE ~Ram!Pool!Fits(i, n)
    <3>1. CASE n > BlockNum
      <4>1. ~(i + n <= BlockNum)
        BY <3>1, PoolAssumption DEF Block
      <4> QED BY <4>1 DEF Ram!Pool!Fits
    <3>2. CASE ~(n > BlockNum)
      <4>1. n \in 1..BlockNum /\ FreeRun(ram_blocks, n) = {}
        BY <1>2, <2>1, <3>2, PoolAssumption
      <4> QED BY <4>1, RamFits
    <3> QED BY <3>1, <3>2
  <2>2. ram_asked' = n /\ ram_got' = -1 /\ UNCHANGED <<ram_owners, ram_size>>
    BY <1>2 DEF RamRefused
  <2>3. Ram!Pool!Refuse(n)
    BY <2>1, <2>2, RamNames DEF Ram!Pool!Refuse
  <2> QED BY <1>1, <2>3 DEF Ram!Pool!Next
<1>3. CASE n \in 1..BlockNum /\ \E i \in FreeRun(ram_blocks, n) : RamTake(i, n)
  <2>1. PICK i \in FreeRun(ram_blocks, n) : RamTake(i, n)
    BY <1>3
  <2>2. i \in Block /\ Ram!Pool!Fits(i, n)
    BY <1>3, RamFits DEF FreeRun
  <2>3. n >= 1
    BY <1>3
  <2>4. Ram!Pool!Alloc(i, n)
    BY <2>1, <2>2, <2>3 DEF RamTake, Ram!Pool!Alloc
  <2> QED BY <1>3, <2>2, <2>4, RamNames DEF Ram!Pool!Next
<1> QED BY <1>2, <1>3, RamAllocateIs

LEMMA RamMaps ==
  ASSUME FitsInBytes, RamInv, [Ram!Next]_(Ram!vars)
  PROVE  [Ram!Pool!Next]_(Ram!Pool!vars)
<1>1. CASE UNCHANGED Ram!vars
  BY <1>1 DEF Ram!vars, Ram!Pool!vars
<1>2. CASE Ram!pool_init
  <2>1. Ram!Pool!Reset
    BY <1>2, RamNames DEF Ram!pool_init, Ram!Pool!Reset
  <2> QED BY <2>1 DEF Ram!Pool!Next
<1>3. CASE \/ \E n \in 0..(U8 - 1) : Ram!pool_alloc_blocks(n)
           \/ \E b \in 0..MaxBytes : Ram!pool_alloc_bytes(b)
  BY <1>3, RamRequestInBlocks, RamAllocateMaps
<1>4. ASSUME NEW i \in Block, Ram!pool_free(i)
      PROVE  Ram!Pool!Release(i)
  BY <1>4, RamFreeIs DEF Ram!Pool!Release
<1>5. CASE \E i \in Block : Ram!pool_free(i)
  BY <1>4, <1>5, RamNames DEF Ram!Pool!Next
<1> QED BY <1>1, <1>2, <1>3, <1>5, RamNames DEF Ram!Next

(* alloc.c hands out disjoint buffers, refuses only when nothing fits, and *)
(* its statistics are exact: for every pool of fewer than 256 blocks whose *)
(* requests stay below 256 blocks, in every behaviour that uses it.        *)
THEOREM RamRefinement == ASSUME FitsInBytes PROVE MCSpec => RamImplementsPool
<1>1. [MCNext]_<<vars, ram_vars, ram>> => [Ram!Next]_(Ram!vars)
  BY DEF MCNext, ram_vars, Ram!vars
<1>2. MCSpec => Ram!Spec
  BY <1>1, PTL DEF MCSpec, MCInit, Ram!Spec
<1>3. Ram!Init => Ram!Pool!Init
  BY RamNames DEF Ram!Init, Ram!Pool!Init
<1>4. RamInv => Ram!StatsTrue
  BY RamStats
<1>5. RamInv /\ [Ram!Next]_(Ram!vars) => [Ram!Pool!Next]_(Ram!Pool!vars)
  BY RamMaps
<1> QED
  BY <1>2, <1>3, <1>4, <1>5, RamAlways, PTL DEF RamImplementsPool, Ram!ImplementsPool, Ram!Spec, Ram!Pool!Spec
=============================================================================
