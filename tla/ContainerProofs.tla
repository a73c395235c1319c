-------------------------- MODULE ContainerProofs --------------------------
(***************************************************************************)
(* Proofs about the two containers of a virtual processor, the job heap    *)
(* and the context stack, for every set of elements and every capacity.    *)
(***************************************************************************)
EXTENDS AnahySmartHeap, AnahySmartStack, SequenceTheorems, TLAPS

-----------------------------------------------------------------------------
(* The job heap *)

\* What the refinement needs beyond the type: no id is in the heap twice, and
\* none that was never inserted.
Distinct == \A i, k \in 1 .. Len(heap) : heap[i] = heap[k] => i = k
OnlyInserted == \A i \in 1 .. Len(heap) : heap[i] \in inserted

HeapInv == TypeOK /\ InBounds /\ Distinct /\ OnlyInserted

\* The smallest array has room for four ids.
LEMMA MinSizeFact == MinSize \in Nat /\ MinSize >= 4
  BY HeapAssumption DEF MinSize

\* A sequence without its last element.
LEMMA PopFact ==
  ASSUME NEW S, NEW s \in Seq(S), s # <<>>
  PROVE  /\ Pop(s) \in Seq(S) /\ Len(Pop(s)) = Len(s) - 1 /\ Len(s) \in Nat \ {0}
         /\ \A i \in 1 .. Len(s) - 1 : Pop(s)[i] = s[i]
<1>1. Len(s) \in Nat /\ Len(s) > 0
  BY EmptySeq, LenProperties
<1>3. \A i \in 1 .. Len(s) - 1 : s[i] \in S
  BY <1>1, ElementOfSeq
<1>. DEFINE n == Len(s) - 1
            P == SubSeq(s, 1, n)
<1>4. n \in Nat /\ n - 1 + 1 = n /\ \A i \in 1 .. n : 1 + i - 1 = i
  BY <1>1
<1>. HIDE DEF n
<1>5. /\ P \in Seq(S)
      /\ Len(P) = IF 1 <= n THEN n - 1 + 1 ELSE 0
      /\ \A i \in 1 .. n - 1 + 1 : P[i] = s[1 + i - 1]
  BY <1>3, <1>4, SubSeqProperties DEF n
<1>6. P = Pop(s)
  BY DEF Pop, n
<1>. HIDE DEF P
<1>7. Len(P) = n
  BY <1>4, <1>5
<1>8. \A i \in 1 .. n : P[i] = s[i]
  BY <1>4, <1>5
<1>. QED BY <1>1, <1>5, <1>6, <1>7, <1>8 DEF n

\* An array with a slot for every element holds the elements.
LEMMA StoredFact ==
  ASSUME NEW h \in Seq(Elements), NEW n \in Nat, Len(h) < n
  PROVE  Stored(h, n) = h
<1>1. Len(h) \in Nat /\ h = [i \in 1 .. Len(h) |-> h[i]]
  BY LenProperties
<1>2. \A i \in 1 .. Len(h) : i < n
  BY <1>1
<1>3. Stored(h, n) = [i \in 1 .. Len(h) |-> h[i]]
  BY <1>2 DEF Stored
<1>. QED BY <1>1, <1>3

\* Exchanging two elements changes neither the length nor what is in the heap.
LEMMA SwapFact ==
  ASSUME NEW h \in Seq(Elements), NEW i \in 1 .. Len(h), NEW k \in 1 .. Len(h)
  PROVE  /\ Swap(h, i, k) \in Seq(Elements) /\ Len(Swap(h, i, k)) = Len(h)
         /\ \A n \in 1 .. Len(h) : Swap(h, i, k)[n] =
                IF n = k THEN h[i] ELSE IF n = i THEN h[k] ELSE h[n]
<1>. DEFINE g == [h EXCEPT ![i] = h[k]]
            f == [g EXCEPT ![k] = h[i]]
<1>1. h[i] \in Elements /\ h[k] \in Elements
  BY ElementOfSeq
<1>2. /\ g \in Seq(Elements) /\ Len(g) = Len(h)
      /\ \A n \in 1 .. Len(h) : g[n] = IF n = i THEN h[k] ELSE h[n]
  BY <1>1, ExceptSeq
<1>. HIDE DEF g
<1>3. /\ f \in Seq(Elements) /\ Len(f) = Len(h)
      /\ \A n \in 1 .. Len(h) : f[n] = IF n = k THEN h[i] ELSE g[n]
  BY <1>1, <1>2, ExceptSeq
<1>4. Swap(h, i, k) = f
  BY DEF Swap, g
<1>. HIDE DEF f
<1>. QED BY <1>2, <1>3, <1>4

\* An exchange permutes: the same ids, each still once.
LEMMA SwapKeeps ==
  ASSUME NEW h \in Seq(Elements), NEW i \in 1 .. Len(h), NEW k \in 1 .. Len(h),
         HeapInv, heap = h, heap' = Swap(h, i, k), inserted' = inserted
  PROVE  heap' \in Seq(Elements) /\ Len(heap') = Len(heap)
         /\ Distinct' /\ OnlyInserted' /\ Contents' = Contents
<1>. DEFINE g == Swap(h, i, k)
<1>1. /\ g \in Seq(Elements) /\ Len(g) = Len(h)
      /\ \A n \in 1 .. Len(h) : g[n] =
            IF n = k THEN h[i] ELSE IF n = i THEN h[k] ELSE h[n]
  BY ZenonT(40), SwapFact
<1>. HIDE DEF g
<1>2. heap' = g
  BY DEF g
<1>3. Distinct'
  BY <1>1, <1>2 DEF Distinct, HeapInv
<1>4. OnlyInserted'
  BY <1>1, <1>2 DEF OnlyInserted, HeapInv
<1>5. Contents' = Contents
  <2>. DEFINE D == 1 .. Len(h)
  <2>1. \A n \in D : \E m \in D : g[n] = h[m]
    BY <1>1
  <2>2. \A n \in D : \E m \in D : h[n] = g[m]
    <3>. TAKE n \in D
    <3>1. CASE n = i
      BY <3>1, <1>1
    <3>2. CASE n = k
      BY <3>2, <1>1
    <3>3. CASE n # i /\ n # k
      BY <3>3, <1>1
    <3>. QED BY <3>1, <3>2, <3>3
  <2>3. Contents = {h[n] : n \in D}
    BY DEF Contents
  <2>4. Contents' = {g[n] : n \in D}
    <3>1. Contents' = {heap'[n] : n \in 1 .. Len(heap')}
      BY DEF Contents
    <3>2. 1 .. Len(heap') = D
      BY <1>1, <1>2
    <3>. HIDE DEF D
    <3>. QED BY <1>2, <3>1, <3>2
  <2>. HIDE DEF D
  <2>5. {h[n] : n \in D} = {g[n] : n \in D}
    BY <2>1, <2>2
  <2>. QED BY <2>3, <2>4, <2>5
<1>. QED BY <1>1, <1>2, <1>3, <1>4, <1>5

\* A new, empty heap satisfies the invariant.
LEMMA HeapInit == Init => HeapInv
  BY MinSizeFact, HeapAssumption, EmptySeq
     DEF Init, HeapInv, TypeOK, InBounds, Distinct, OnlyInserted

\* One step of the pool, or none, seen through the refinement mapping.
PoolStep == Pool!PoolNext \/ UNCHANGED <<Contents, out>>

\* insert, with the resize before it, keeps the invariant.
LEMMA InsertStep ==
  ASSUME HeapInv, NEW e \in Elements, Insert(e)
  PROVE  HeapInv' /\ PoolStep
<1>. DEFINE n == Len(heap)
<1>1. heap \in Seq(Elements) /\ n \in Nat /\ upper \in Nat /\ lower \in Nat
  BY DEF HeapInv, TypeOK
<1>0. /\ upper' \in Nat /\ lower' \in Nat
      /\ n + 1 < upper' /\ upper' >= MinSize /\ 4 * lower' <= upper'
  <2>1. CASE n + 1 = upper
    BY <1>1, <2>1, MinSizeFact DEF Insert, Grow, HeapInv, InBounds
  <2>2. CASE n + 1 # upper
    <3>1. upper' = upper /\ lower' = lower
      BY <1>1, <2>2 DEF Insert, Grow
    <3>. QED BY <1>1, <2>2, <3>1 DEF HeapInv, InBounds
  <2>. QED BY <2>1, <2>2
<1>2. /\ heap' \in Seq(Elements) /\ Len(heap') = n + 1
      /\ \A i \in 1 .. n : heap'[i] = heap[i]
      /\ heap'[n + 1] = e
  <2>. DEFINE h == Append(heap, e)
  <2>1. /\ h \in Seq(Elements) /\ Len(h) = n + 1
        /\ \A i \in 1 .. n : h[i] = heap[i]
        /\ h[n + 1] = e
    BY <1>1, AppendProperties
  <2>2. heap' = Stored(h, upper')
    BY DEF Insert
  <2>. HIDE DEF h
  <2>3. heap' = h
    BY <1>0, <2>1, <2>2, StoredFact
  <2>. QED BY <2>1, <2>3
<1>4. TypeOK'
  BY <1>1, <1>2, <1>0 DEF Insert, HeapInv, TypeOK
<1>5. InBounds'
  BY <1>1, <1>2, <1>0 DEF InBounds
<1>6. \A i \in 1 .. n : heap[i] # e
  BY DEF Insert, HeapInv, OnlyInserted
<1>7. Distinct'
  BY <1>1, <1>2, <1>6 DEF HeapInv, Distinct
<1>8. OnlyInserted'
  BY <1>1, <1>2 DEF Insert, HeapInv, OnlyInserted
<1>9. Pool!PoolInsert(e)
  <2>1. e \notin Contents
    BY <1>6 DEF Contents
  <2>2. Contents' = Contents \cup {e}
    <3>1. \A x : x \in Contents' <=> \E i \in 1 .. n + 1 : x = heap'[i]
      BY <1>2 DEF Contents
    <3>2. \A x : x \in Contents <=> \E i \in 1 .. n : x = heap[i]
      BY DEF Contents
    <3>3. \A x : x \in Contents' <=> x \in Contents \/ x = e
      BY <1>1, <1>2, <3>1, <3>2
    <3>. QED BY <3>3
  <2>. QED BY <2>1, <2>2 DEF Pool!PoolInsert, Insert
<1>. QED BY <1>4, <1>5, <1>7, <1>8, <1>9 DEF HeapInv, PoolStep, Pool!PoolNext

\* One iteration of heapify_up only exchanges two elements.
LEMMA HeapifyUpStep ==
  ASSUME HeapInv, HeapifyUp
  PROVE  HeapInv' /\ PoolStep
<1>. DEFINE q == idx \div 2
<1>1. CASE q >= 1 /\ idx > 1 /\ Above(q, idx)
  <2>1. /\ heap' = Swap(heap, q, idx) /\ idx' = q /\ pc' = pc
        /\ UNCHANGED <<upper, lower, out, inserted, steals>>
    BY <1>1 DEF HeapifyUp
  <2>2. heap \in Seq(Elements) /\ idx \in 1 .. Len(heap) /\ q \in 1 .. Len(heap)
    BY <1>1 DEF HeapifyUp, HeapInv, TypeOK
  <2>. HIDE DEF q
  <2>3. /\ heap' \in Seq(Elements) /\ Len(heap') = Len(heap)
        /\ Distinct' /\ OnlyInserted' /\ Contents' = Contents
    <3>. PICK h \in Seq(Elements) : h = heap
      BY <2>2
    <3>. QED BY <2>1, <2>2, SwapKeeps
  <2>4. TypeOK' /\ InBounds'
    BY <2>1, <2>2, <2>3 DEF HeapInv, TypeOK, InBounds
  <2>. QED BY <2>1, <2>3, <2>4 DEF HeapInv, PoolStep
<1>2. CASE ~(q >= 1 /\ idx > 1 /\ Above(q, idx))
  <2>1. /\ heap' = heap /\ idx' = 1 /\ pc' = "idle"
        /\ UNCHANGED <<upper, lower, out, inserted, steals>>
    BY <1>2 DEF HeapifyUp
  <2>. QED BY <2>1 DEF HeapInv, TypeOK, InBounds, Distinct, OnlyInserted,
                       PoolStep, Contents
<1>. QED BY <1>1, <1>2

\* One iteration of heapify_down only exchanges two elements.
LEMMA HeapifyDownStep ==
  ASSUME HeapInv, HeapifyDown
  PROVE  HeapInv' /\ PoolStep
<1>. DEFINE l == 2 * idx
            r == 2 * idx + 1
            c == IF r <= Len(heap) /\ Above(l, r) THEN r ELSE l
<1>1. CASE l <= Len(heap)
  <2>1. /\ heap' = Swap(heap, idx, c) /\ idx' = c /\ pc' = pc
        /\ UNCHANGED <<upper, lower, out, inserted, steals>>
    BY <1>1 DEF HeapifyDown, SiftTo
  <2>2. heap \in Seq(Elements) /\ idx \in 1 .. Len(heap) /\ c \in 1 .. Len(heap)
    BY <1>1 DEF HeapInv, TypeOK
  <2>. HIDE DEF c
  <2>3. /\ heap' \in Seq(Elements) /\ Len(heap') = Len(heap)
        /\ Distinct' /\ OnlyInserted' /\ Contents' = Contents
    <3>. PICK h \in Seq(Elements) : h = heap
      BY <2>2
    <3>. QED BY <2>1, <2>2, SwapKeeps
  <2>4. TypeOK' /\ InBounds'
    BY <2>1, <2>2, <2>3 DEF HeapInv, TypeOK, InBounds
  <2>. QED BY <2>1, <2>3, <2>4 DEF HeapInv, PoolStep
<1>2. CASE ~(l <= Len(heap))
  <2>1. /\ heap' = heap /\ idx' = 1 /\ pc' = "idle"
        /\ UNCHANGED <<upper, lower, out, inserted, steals>>
    BY <1>2 DEF HeapifyDown
  <2>. QED BY <2>1 DEF HeapInv, TypeOK, InBounds, Distinct, OnlyInserted,
                       PoolStep, Contents
<1>. QED BY <1>1, <1>2

\* Halving at the lower bound leaves room for everything in the heap.
LEMMA ShrinkFact ==
  ASSUME NEW n \in Nat, upper \in Nat, lower \in Nat, n + 1 < upper,
         upper >= MinSize, 4 * lower <= upper, Shrink(n)
  PROVE  /\ upper' \in Nat /\ lower' \in Nat
         /\ n < upper' /\ upper' >= MinSize /\ 4 * lower' <= upper'
<1>1. CASE n = lower /\ n > MinSize
  <2>1. upper' = upper \div 2 /\ lower' = lower \div 2
    BY <1>1 DEF Shrink
  <2>. QED BY <1>1, <2>1, MinSizeFact
<1>2. CASE ~(n = lower /\ n > MinSize)
  <2>1. upper' = upper /\ lower' = lower
    BY <1>2 DEF Shrink
  <2>. QED BY <2>1
<1>. QED BY <1>1, <1>2

\* extract_last takes out the id it returns, and shrinks the array safely.
LEMMA ExtractLastStep ==
  ASSUME HeapInv, ExtractLast
  PROVE  HeapInv' /\ PoolStep
<1>. DEFINE n == Len(heap) - 1
<1>1. /\ heap \in Seq(Elements) /\ heap # <<>> /\ out' = heap[Len(heap)]
      /\ heap' = Stored(Pop(heap), upper')
      /\ UNCHANGED <<pc, idx, inserted, steals>> /\ pc = "idle"
  BY DEF ExtractLast, HeapInv, TypeOK
<1>0. /\ Pop(heap) \in Seq(Elements) /\ Len(Pop(heap)) = n /\ Len(heap) \in Nat \ {0}
      /\ \A i \in 1 .. n : Pop(heap)[i] = heap[i]
  BY <1>1, PopFact
<1>3. n \in Nat /\ n + 1 = Len(heap)
  BY <1>0
<1>4. /\ upper' \in Nat /\ lower' \in Nat
      /\ n < upper' /\ upper' >= MinSize /\ 4 * lower' <= upper'
  <2>1. n + 1 < upper
    BY <1>3 DEF HeapInv, InBounds
  <2>2. Shrink(n)
    BY DEF ExtractLast
  <2>. HIDE DEF n
  <2>. QED BY <1>3, <2>1, <2>2, ShrinkFact DEF HeapInv, TypeOK, InBounds
<1>2. /\ heap' \in Seq(Elements) /\ Len(heap') = n
      /\ \A i \in 1 .. n : heap'[i] = heap[i]
  <2>1. Stored(Pop(heap), upper') = Pop(heap)
    BY <1>0, <1>4, StoredFact
  <2>. QED BY <1>0, <1>1, <2>1
<1>5. heap[n + 1] \in Elements
  BY <1>0, <1>1, <1>3, ElementOfSeq
<1>6. TypeOK'
  BY <1>1, <1>2, <1>3, <1>4, <1>5 DEF HeapInv, TypeOK
<1>7. InBounds'
  BY <1>2, <1>4 DEF InBounds
<1>8. Distinct' /\ OnlyInserted'
  BY <1>1, <1>2, <1>3 DEF HeapInv, Distinct, OnlyInserted
<1>9. Pool!PoolExtract(heap[n + 1])
  <2>1. \A x : x \in Contents <=> \E i \in 1 .. n + 1 : x = heap[i]
    BY <1>3 DEF Contents
  <2>2. \A x : x \in Contents' <=> \E i \in 1 .. n : x = heap[i]
    BY <1>2 DEF Contents
  <2>3. \A i \in 1 .. n : heap[i] # heap[n + 1]
    BY <1>3 DEF HeapInv, Distinct
  <2>4. \A x : x \in Contents' <=> x \in Contents /\ x # heap[n + 1]
    <3>. HIDE DEF n
    <3>1. \A i : i \in 1 .. n + 1 <=> i \in 1 .. n \/ i = n + 1
      BY <1>3
    <3>. QED BY <2>1, <2>2, <2>3, <3>1
  <2>5. Contents' = Contents \ {heap[n + 1]}
    BY <2>4
  <2>6. heap[n + 1] \in Contents
    BY <2>1, <1>3
  <2>7. out' = heap[n + 1]
    BY <1>1, <1>3
  <2>. QED BY <2>5, <2>6, <2>7 DEF Pool!PoolExtract
<1>. QED BY <1>5, <1>6, <1>7, <1>8, <1>9 DEF HeapInv, PoolStep, Pool!PoolNext

\* extract_min takes out the id it returns and leaves the others.
LEMMA ExtractMinStep ==
  ASSUME HeapInv, ExtractMin
  PROVE  HeapInv' /\ PoolStep
<1>. DEFINE n == Len(heap) - 1
            g == [heap EXCEPT ![1] = heap[Len(heap)]]
<1>1. /\ heap \in Seq(Elements) /\ heap # <<>> /\ out' = heap[1]
      /\ heap' = Stored(Pop(g), upper') /\ pc' = "down" /\ idx' = 1
      /\ steals' = steals + 1 /\ steals < MaxSteals /\ inserted' = inserted
  BY DEF ExtractMin, HeapInv, TypeOK, WithoutFirst
<1>2. Len(heap) \in Nat \ {0}
  BY <1>1, EmptySeq
<1>3. n \in Nat /\ n + 1 = Len(heap) /\ 1 \in 1 .. Len(heap)
  BY <1>2
<1>4. heap[1] \in Elements /\ heap[Len(heap)] \in Elements
  BY <1>1, <1>2, <1>3, ElementOfSeq
<1>5. /\ g \in Seq(Elements) /\ Len(g) = Len(heap)
      /\ \A i \in 1 .. Len(heap) : g[i] = IF i = 1 THEN heap[Len(heap)] ELSE heap[i]
  BY <1>1, <1>3, <1>4, ExceptSeq
<1>. HIDE DEF g
<1>6. g # <<>>
  BY <1>2, <1>5, EmptySeq
<1>0. /\ Pop(g) \in Seq(Elements) /\ Len(Pop(g)) = n
      /\ \A i \in 1 .. n : Pop(g)[i] = g[i]
  BY <1>1, <1>5, <1>6, PopFact
<1>9. /\ upper' \in Nat /\ lower' \in Nat
      /\ n < upper' /\ upper' >= MinSize /\ 4 * lower' <= upper'
  <2>1. n + 1 < upper
    BY <1>3 DEF HeapInv, InBounds
  <2>2. Shrink(n)
    BY DEF ExtractMin
  <2>. HIDE DEF n
  <2>. QED BY <1>3, <2>1, <2>2, ShrinkFact DEF HeapInv, TypeOK, InBounds
<1>7. /\ heap' \in Seq(Elements) /\ Len(heap') = n
      /\ \A i \in 1 .. n : heap'[i] = g[i]
  <2>1. Stored(Pop(g), upper') = Pop(g)
    BY <1>0, <1>9, StoredFact
  <2>. QED BY <1>0, <1>1, <2>1
<1>8. \A i \in 1 .. n : heap'[i] = IF i = 1 THEN heap[n + 1] ELSE heap[i]
  BY <1>3, <1>5, <1>7
<1>10. TypeOK'
  BY <1>1, <1>4, <1>7, <1>9, HeapAssumption DEF HeapInv, TypeOK
<1>11. InBounds'
  BY <1>7, <1>9 DEF InBounds
<1>12. Distinct' /\ OnlyInserted'
  <2>. HIDE DEF n
  <2>1. \A i, k \in 1 .. n + 1 : heap[i] = heap[k] => i = k
    BY <1>3 DEF HeapInv, Distinct
  <2>2. \A i \in 1 .. n + 1 : heap[i] \in inserted
    BY <1>3 DEF HeapInv, OnlyInserted
  <2>. QED BY <1>1, <1>3, <1>7, <1>8, <2>1, <2>2 DEF Distinct, OnlyInserted
<1>13. Pool!PoolExtract(heap[1])
  <2>1. \A x : x \in Contents <=> \E i \in 1 .. n + 1 : x = heap[i]
    BY <1>3 DEF Contents
  <2>2. \A x : x \in Contents' <=> \E i \in 1 .. n : x = heap'[i]
    BY <1>7 DEF Contents
  <2>3. \A i, k \in 1 .. n + 1 : heap[i] = heap[k] => i = k
    BY <1>3 DEF HeapInv, Distinct
  <2>. HIDE DEF n
  <2>4. \A x : x \in Contents' <=> x \in Contents /\ x # heap[1]
    <3>1. ASSUME NEW x \in Contents' PROVE x \in Contents /\ x # heap[1]
      <4>. PICK i \in 1 .. n : x = heap'[i]
        BY <2>2
      <4>. QED BY <1>3, <1>8, <2>1, <2>3
    <3>2. ASSUME NEW x \in Contents, x # heap[1] PROVE x \in Contents'
      <4>. PICK i \in 1 .. n + 1 : x = heap[i]
        BY <2>1
      <4>1. CASE i = n + 1
        <5>1. 1 \in 1 .. n /\ heap'[1] = heap[n + 1]
          BY <1>3, <1>8, <3>2, <4>1
        <5>. QED BY <2>2, <4>1, <5>1
      <4>2. CASE i \in 2 .. n
        BY <1>3, <1>8, <2>2, <4>2
      <4>. QED BY <1>3, <3>2, <4>1, <4>2
    <3>. QED BY <3>1, <3>2
  <2>5. Contents' = Contents \ {heap[1]}
    BY <2>4
  <2>6. heap[1] \in Contents
    BY <2>1, <1>3
  <2>. QED BY <1>1, <2>5, <2>6 DEF Pool!PoolExtract
<1>. QED BY <1>4, <1>10, <1>11, <1>12, <1>13 DEF HeapInv, PoolStep, Pool!PoolNext

\* An extraction from an empty heap changes nothing.
LEMMA ExtractEmptyStep ==
  ASSUME HeapInv, ExtractEmpty
  PROVE  HeapInv' /\ PoolStep
<1>1. HeapInv'
  BY DEF ExtractEmpty, HeapInv, TypeOK, InBounds, Distinct, OnlyInserted
<1>2. Contents = {} /\ Contents' = {}
  BY EmptySeq DEF ExtractEmpty, Contents
<1>. QED BY <1>1, <1>2 DEF ExtractEmpty, PoolStep, Pool!PoolNext, Pool!PoolExtractNone

\* Every step keeps the invariant and is a step of the abstract pool.
LEMMA HeapStep == HeapInv /\ [Next]_vars => HeapInv' /\ PoolStep
<1>. SUFFICES ASSUME HeapInv, [Next]_vars PROVE HeapInv' /\ PoolStep
  OBVIOUS
<1>1. CASE \E e \in Elements : Insert(e)
  BY <1>1, InsertStep
<1>2. CASE HeapifyUp
  BY <1>2, HeapifyUpStep
<1>3. CASE HeapifyDown
  BY <1>3, HeapifyDownStep
<1>4. CASE ExtractMin
  BY <1>4, ExtractMinStep
<1>5. CASE ExtractLast
  BY <1>5, ExtractLastStep
<1>6. CASE ExtractEmpty
  BY <1>6, ExtractEmptyStep
<1>7. CASE UNCHANGED vars
  BY <1>7 DEF vars, HeapInv, TypeOK, InBounds, Distinct, OnlyInserted, PoolStep,
              Contents
<1>. QED BY <1>1, <1>2, <1>3, <1>4, <1>5, <1>6, <1>7 DEF Next

\* For every capacity and every mix of insert, extract_min and extract_last,
\* the sift loops and all of AnahySmartHeap.h stay inside the array.
THEOREM HeapSafe == Spec => [](TypeOK /\ InBounds)
<1>1. HeapInv => TypeOK /\ InBounds
  BY DEF HeapInv
<1>. QED BY <1>1, HeapInit, HeapStep, PTL DEF Spec

\* AnahySmartHeap.h implements a pool of jobs: nothing that was inserted is
\* lost, duplicated or made up, for every set of ids and every capacity.
THEOREM HeapIsPool == Spec => IsPool
<1>1. Init => Pool!PoolInit
  BY EmptySeq DEF Init, Pool!PoolInit, Contents
<1>2. PoolStep => [Pool!PoolNext]_<<Contents, out>>
  BY DEF PoolStep
<1>. QED BY <1>1, <1>2, HeapInit, HeapStep, PTL
         DEF Spec, IsPool, Pool!PoolSpec, Pool!poolVars
-----------------------------------------------------------------------------
(* Fork order *)

\* With ids given out in order, the ids inserted so far are the smallest ones;
\* and until a thief comes the heap is sorted and heapify_down does not run.
Ordered ==
    Increasing =>
        /\ \A x \in inserted : \A d \in Elements : d < x => d \in inserted
        /\ steals = 0 =>
              /\ pc # "down"
              /\ \A i, k \in 1 .. Len(heap) : i < k => heap[i] < heap[k]

\* A list inside the bounds of its array is what was put there.
LEMMA StoredInBounds ==
  ASSUME NEW h \in Seq(Elements), HeapInv', heap' = Stored(h, upper')
  PROVE  heap' = h
<1>1. Len(h) \in Nat /\ Len(heap') \in Nat /\ Len(heap') < upper' /\ upper' \in Nat
  BY DEF HeapInv, TypeOK, InBounds
<1>2. DOMAIN heap' = 1 .. Len(h)
  BY DEF Stored
<1>3. DOMAIN heap' = 1 .. Len(heap')
  BY DEF HeapInv, TypeOK
<1>4. Len(heap') = Len(h)
  BY <1>1, <1>2, <1>3
<1>. QED BY <1>1, <1>4, StoredFact

\* A new job has a greater id than every job in the list, so it stays last.
LEMMA InsertOrdered ==
  ASSUME HeapInv, Ordered, Increasing, NEW e \in Elements, Insert(e)
  PROVE  Ordered'
<1>1. /\ heap' = Append(heap, e) /\ pc' = "up" /\ inserted' = inserted \cup {e}
      /\ steals' = steals /\ e \notin inserted
      /\ \A d \in Elements : d < e => d \in inserted
  <2>. DEFINE h == Append(heap, e)
  <2>1. h \in Seq(Elements)
    BY AppendProperties DEF HeapInv, TypeOK
  <2>2. heap' = Stored(h, upper')
    BY DEF Insert
  <2>. HIDE DEF h
  <2>3. heap' = h
    BY <2>1, <2>2, InsertStep, StoredInBounds
  <2>. QED BY <2>3 DEF Insert, h
<1>2. heap \in Seq(Elements) /\ Len(heap) \in Nat /\ inserted \subseteq Elements
  BY DEF HeapInv, TypeOK
<1>3. /\ Len(heap') = Len(heap) + 1 /\ heap'[Len(heap) + 1] = e
      /\ \A i \in 1 .. Len(heap) : heap'[i] = heap[i]
  BY <1>1, <1>2, AppendProperties
<1>4. \A x \in inserted : x < e
  <2>. SUFFICES ASSUME NEW x \in inserted PROVE x < e
    OBVIOUS
  <2>1. x \in Elements /\ x # e /\ x \in Nat /\ e \in Nat
    BY <1>1, <1>2, HeapAssumption
  <2>2. ~(e < x)
    BY <1>1 DEF Ordered
  <2>. QED BY <2>1, <2>2
<1>5. \A i \in 1 .. Len(heap) : heap[i] < e
  BY <1>4 DEF HeapInv, OnlyInserted
<1>6. \A x \in inserted' : \A d \in Elements : d < x => d \in inserted'
  BY <1>1 DEF Ordered
<1>7. steals = 0 => \A i, k \in 1 .. Len(heap') : i < k => heap'[i] < heap'[k]
  <2>. SUFFICES ASSUME steals = 0, NEW i \in 1 .. Len(heap'), NEW k \in 1 .. Len(heap'), i < k
                PROVE  heap'[i] < heap'[k]
    OBVIOUS
  <2>1. i \in 1 .. Len(heap)
    BY <1>2, <1>3
  <2>2. CASE k = Len(heap) + 1
    BY <1>3, <1>5, <2>1, <2>2
  <2>3. CASE k # Len(heap) + 1
    <3>1. k \in 1 .. Len(heap)
      BY <1>2, <1>3, <2>3
    <3>. QED BY <1>3, <2>1, <3>1 DEF Ordered
  <2>. QED BY <2>2, <2>3
<1>. QED BY <1>1, <1>6, <1>7 DEF Ordered

\* heapify_up exchanges nothing in a sorted heap.
LEMMA HeapifyUpOrdered ==
  ASSUME HeapInv, Ordered, Increasing, HeapifyUp
  PROVE  Ordered'
<1>1. pc = "up" /\ pc' \in {"up", "idle"} /\ UNCHANGED <<inserted, steals>>
  BY DEF HeapifyUp
<1>2. ASSUME steals = 0 PROVE heap' = heap
  <2>. DEFINE q == idx \div 2
  <2>1. CASE q >= 1 /\ idx > 1
    <3>1. idx \in 1 .. Len(heap) /\ q \in 1 .. Len(heap) /\ q < idx
      BY <1>1, <2>1 DEF HeapInv, TypeOK
    <3>2. heap[q] < heap[idx]
      BY <1>2, <3>1 DEF Ordered
    <3>3. heap[q] \in Nat /\ heap[idx] \in Nat
      BY <3>1, ElementOfSeq, HeapAssumption DEF HeapInv, TypeOK
    <3>4. ~Above(q, idx)
      BY <3>2, <3>3 DEF Above
    <3>. QED BY <3>4 DEF HeapifyUp
  <2>2. CASE ~(q >= 1 /\ idx > 1)
    BY <2>2 DEF HeapifyUp
  <2>. QED BY <2>1, <2>2
<1>. QED BY <1>1, <1>2 DEF Ordered

\* Taking the last element off leaves the others in order.
LEMMA ExtractLastOrdered ==
  ASSUME HeapInv, Ordered, Increasing, ExtractLast
  PROVE  Ordered'
<1>1. /\ heap' = Pop(heap) /\ heap # <<>> /\ heap \in Seq(Elements)
      /\ pc = "idle" /\ UNCHANGED <<pc, inserted, steals>>
  <2>1. heap # <<>> /\ heap \in Seq(Elements) /\ heap' = Stored(Pop(heap), upper')
    BY DEF ExtractLast, HeapInv, TypeOK
  <2>2. heap' = Pop(heap)
    BY <2>1, PopFact, ExtractLastStep, StoredInBounds
  <2>. QED BY <2>1, <2>2 DEF ExtractLast
<1>2. /\ Len(heap') = Len(heap) - 1 /\ Len(heap) \in Nat \ {0}
      /\ \A i \in 1 .. Len(heap) - 1 : heap'[i] = heap[i]
  BY <1>1, PopFact
<1>. QED BY <1>1, <1>2 DEF Ordered

\* Every step keeps the order until the first theft.
LEMMA OrderedStep == HeapInv /\ Ordered /\ [Next]_vars => Ordered'
<1>. SUFFICES ASSUME HeapInv, Ordered, [Next]_vars, Increasing PROVE Ordered'
  BY DEF Ordered
<1>1. CASE \E e \in Elements : Insert(e)
  BY <1>1, InsertOrdered
<1>2. CASE HeapifyUp
  BY <1>2, HeapifyUpOrdered
<1>3. CASE HeapifyDown
  <2>1. pc = "down" /\ UNCHANGED <<inserted, steals>>
    BY <1>3 DEF HeapifyDown
  <2>. QED BY <2>1 DEF Ordered
<1>4. CASE ExtractMin
  <2>1. steals' = steals + 1 /\ steals \in Nat /\ inserted' = inserted
    BY <1>4 DEF ExtractMin, HeapInv, TypeOK
  <2>. QED BY <2>1 DEF Ordered
<1>5. CASE ExtractLast
  BY <1>5, ExtractLastOrdered
<1>6. CASE ExtractEmpty
  BY <1>6 DEF ExtractEmpty, Ordered
<1>7. CASE UNCHANGED vars
  BY <1>7 DEF vars, Ordered
<1>. QED BY <1>1, <1>2, <1>3, <1>4, <1>5, <1>6, <1>7 DEF Next

\* As long as nobody steals, a job list is in fork order however large the heap
\* grows: extract_last gives the owner its newest job.
THEOREM ForkOrderKept == Spec => []InForkOrderUntilTheft
<1>1. Init => Ordered
  BY DEF Init, Ordered
<1>2. Ordered => InForkOrderUntilTheft
  BY DEF Ordered, InForkOrderUntilTheft
<1>. QED BY <1>1, <1>2, OrderedStep, HeapInit, HeapStep, PTL DEF Spec

-----------------------------------------------------------------------------
(* The context stack *)

\* The bounds of the array are kept by doubling and by halving.
StackInv == StackTypeOK /\ StackInBounds /\ ContextsKept

\* The smallest array has room for four contexts.
LEMMA StackMinSizeFact == StackMinSize \in Nat /\ StackMinSize >= 4
  BY StackAssumption DEF StackMinSize

\* A new, empty stack satisfies the invariant.
LEMMA StackInit == NewStack => StackInv
  BY StackMinSizeFact DEF NewStack, StackInv, StackTypeOK, StackInBounds, ContextsKept

\* push, with the resize before it, keeps the invariant.
LEMMA StackPush ==
  ASSUME StackInv, NEW v \in Values, Push(v)
  PROVE  StackInv'
<1>1. ASSUME Full PROVE StackInv'
  <2>1. /\ capacity' = 2 * capacity /\ quarter' = 2 * quarter /\ cur' = cur + 1
        /\ array' = [Realloc(2 * capacity) EXCEPT ![cur] = v]
    BY <1>1 DEF Push
  <2>2. StackTypeOK'
    BY <2>1, StackMinSizeFact DEF StackInv, StackTypeOK, StackInBounds, Realloc
  <2>3. StackInBounds'
    BY <1>1, <2>1, StackMinSizeFact DEF StackInv, StackTypeOK, StackInBounds, Full
  <2>4. ContextsKept'
    BY <1>1, <2>1, StackMinSizeFact
       DEF StackInv, StackTypeOK, StackInBounds, ContextsKept, Realloc, Full
  <2>. QED BY <2>2, <2>3, <2>4 DEF StackInv
<1>2. ASSUME ~Full PROVE StackInv'
  <2>1. /\ capacity' = capacity /\ quarter' = quarter /\ cur' = cur + 1
        /\ array' = [Realloc(capacity) EXCEPT ![cur] = v]
    BY <1>2 DEF Push, StackInv, StackTypeOK
  <2>0. Realloc(capacity) = array
    BY DEF StackInv, StackTypeOK, Realloc
  <2>. DEFINE A == 0 .. capacity - 1
  <2>5. array' = [array EXCEPT ![cur] = v]
    BY <2>0, <2>1
  <2>6. array \in [A -> Values \cup {Garbage}]
    BY DEF StackInv, StackTypeOK
  <2>7. array' \in [A -> Values \cup {Garbage}]
    <3>. HIDE DEF A
    <3>. QED BY <2>5, <2>6
  <2>2. StackTypeOK'
    BY <2>7, <2>1 DEF StackInv, StackTypeOK
  <2>3. StackInBounds'
    BY <1>2, <2>1, StackMinSizeFact DEF StackInv, StackTypeOK, StackInBounds, Full
  <2>4. ContextsKept'
    BY <1>2, <2>1, StackMinSizeFact
       DEF StackInv, StackTypeOK, StackInBounds, ContextsKept, Realloc, Full
  <2>. QED BY <2>2, <2>3, <2>4 DEF StackInv
<1>. QED BY <1>1, <1>2

\* pop, with the resize after it, keeps the invariant.
LEMMA StackPop ==
  ASSUME StackInv, PopTop
  PROVE  StackInv'
<1>1. ASSUME Sparse PROVE StackInv'
  <2>1. /\ capacity' = capacity \div 2 /\ quarter' = quarter \div 2 /\ cur' = cur - 1
        /\ array' = Realloc(capacity \div 2)
    BY <1>1 DEF PopTop
  <2>2. /\ cur = quarter /\ quarter > StackMinSize
        /\ capacity \div 2 \in Nat /\ quarter \div 2 \in Nat
        /\ capacity \div 2 >= 2 * quarter /\ capacity \div 2 <= capacity
        /\ 4 * (quarter \div 2) <= capacity \div 2
    BY <1>1, StackMinSizeFact DEF Sparse, StackInv, StackTypeOK, StackInBounds
  <2>3. StackTypeOK'
    BY <2>1, <2>2, StackMinSizeFact DEF StackInv, StackTypeOK, PopTop, Realloc
  <2>4. StackInBounds'
    BY <2>1, <2>2, StackMinSizeFact DEF StackInv, StackTypeOK, StackInBounds
  <2>5. ContextsKept'
    BY <2>1, <2>2, StackMinSizeFact DEF StackInv, StackTypeOK, StackInBounds, ContextsKept,
         Realloc
  <2>. QED BY <2>3, <2>4, <2>5 DEF StackInv
<1>2. ASSUME ~Sparse PROVE StackInv'
  <2>1. /\ capacity' = capacity /\ quarter' = quarter /\ cur' = cur - 1 /\ cur > 0
        /\ array' = array
    BY <1>2 DEF PopTop, StackInv, StackTypeOK
  <2>. QED BY <2>1 DEF StackInv, StackTypeOK, StackInBounds, ContextsKept
<1>. QED BY <1>1, <1>2

\* For every initial capacity and every sequence of pushes and pops, all that
\* was pushed is in the array (push and pop of AnahySmartStack.h).
THEOREM StackSafe == StackSpec => [](StackInBounds /\ ContextsKept)
<1>1. StackInv /\ [StackNext]_stackVars => StackInv'
  <2>. SUFFICES ASSUME StackInv, [StackNext]_stackVars PROVE StackInv'
    OBVIOUS
  <2>1. CASE \E v \in Values : Push(v)
    BY <2>1, StackPush
  <2>2. CASE PopTop
    BY <2>2, StackPop
  <2>3. CASE UNCHANGED stackVars
    BY <2>3 DEF stackVars, StackInv, StackTypeOK, StackInBounds, ContextsKept
  <2>. QED BY <2>1, <2>2, <2>3 DEF StackNext
<1>2. StackInv => StackInBounds /\ ContextsKept
  BY DEF StackInv
<1>. QED BY <1>1, <1>2, StackInit, PTL DEF StackSpec
=============================================================================
