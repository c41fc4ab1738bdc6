--------------------------- MODULE RingQueueProofs ---------------------------
(***************************************************************************)
(* The ring buffer implements a bounded queue, for every size and every    *)
(* set of items.  The type invariant is all that is needed of a state: a   *)
(* start and a next within the ring determine the items between them.      *)
(***************************************************************************)
EXTENDS RingQueue, SequenceTheorems, TLAPS

USE DEF NULL, NoFault, root, out_of_range

LEMMA InitTyped == Init => TypeOK
  BY SizeAssumption DEF Init, TypeOK, Slots

LEMMA NextTyped == TypeOK /\ [Next]_queue => TypeOK'
<1> SUFFICES ASSUME TypeOK, [Next]_queue PROVE TypeOK'
  OBVIOUS
<1> USE SizeAssumption DEF TypeOK, Slots
<1>1. ASSUME NEW x \in Items, MoveNext(x) PROVE TypeOK'
  BY <1>1 DEF MoveNext, Asserting, Wrap
<1>2. CASE Peek
  BY <1>2 DEF Peek, Asserting, is_empty
<1>3. CASE Dequeue
  BY <1>3 DEF Dequeue, Asserting, is_empty, Wrap
<1>4. CASE Clear
  BY <1>4 DEF Clear, Asserting
<1>5. CASE Exited \/ UNCHANGED queue
  BY <1>5 DEF Exited, queue
<1> QED BY <1>1, <1>2, <1>3, <1>4, <1>5 DEF Next

\* Whatever the calls, the two ends stay within the ring and what it fails on
\* is one of its two assertions.
THEOREM RingTypeCorrect == Spec => []TypeOK
  BY InitTyped, NextTyped, PTL DEF Spec

\* In a ring that holds items, count() is their number only where next has
\* come back to the root, or stands half way round an unwrapped ring.
THEOREM CountExact == Spec => []CountIsLengthAtRoot
<1>1. TypeOK => CountIsLengthAtRoot
  BY SizeAssumption DEF TypeOK, Slots, CountIsLengthAtRoot, count, Length, is_empty
<1> QED BY <1>1, RingTypeCorrect, PTL

-----------------------------------------------------------------------------
\* The items in the ring are a sequence, whose length is Length.
LEMMA ContentsSeq ==
    ASSUME TypeOK
    PROVE  /\ Length \in 0..Size
           /\ Contents \in Seq(Items \cup {NoItem})
           /\ Len(Contents) = Length
           /\ ~ is_empty => Length > 0 /\ \A k \in 1..Length : Slot(k) \in Slots
<1> USE SizeAssumption DEF TypeOK, Slots
<1>1. Length \in 0..Size /\ (~ is_empty => Length > 0)
  BY DEF Length, is_empty
<1>2. \A k \in 1..Length : Slot(k) \in Slots
  BY <1>1 DEF Length, Slot, is_empty
<1>3. \A k \in 1..Length : mem[Slot(k)] \in Items \cup {NoItem}
  BY <1>2
<1>4. Contents \in Seq(Items \cup {NoItem}) /\ Len(Contents) = Length
  BY <1>1, <1>3 DEF Contents
<1> QED BY <1>1, <1>2, <1>4

LEMMA InitRefines == Init => F!Init
<1> SUFFICES ASSUME Init PROVE F!Init
  OBVIOUS
<1>1. Length = 0
  BY DEF Init, Length, is_empty
<1>2. Contents = <<>>
  BY <1>1 DEF Contents
<1> QED BY <1>2 DEF Init, F!Init

\* move_next writes the slot after the last item, which is not one of them.
LEMMA MoveNextRefines ==
    ASSUME TypeOK, TypeOK', NEW x \in Items, MoveNext(x)
    PROVE  F!Next
<1> USE SizeAssumption DEF TypeOK, Slots
<1>1. CASE next # start
  <2>1. /\ mem' = [mem EXCEPT ![next] = x] /\ next' = Wrap(next + 1)
        /\ start' = IF start = NULL THEN next ELSE start
        /\ got' = got /\ fault' = fault /\ fault = NoFault
    BY <1>1 DEF MoveNext, Asserting
  <2>2. Length < Size /\ Length' = Length + 1 /\ Length \in Nat
    <3>1. start \in 0..Size /\ next \in 1..Size
      OBVIOUS
    <3>2. /\ next' = IF next + 1 >= 1 + Size THEN 1 ELSE next + 1
          /\ start' = IF start = 0 THEN next ELSE start
      BY <2>1 DEF Wrap
    <3>3. CASE start = 0
      BY <3>1, <3>2, <3>3 DEF Length, is_empty
    <3>4. CASE start # 0 /\ next > start
      BY <3>1, <3>2, <3>4 DEF Length, is_empty
    <3>5. CASE start # 0 /\ next < start
      BY <3>1, <3>2, <3>5 DEF Length, is_empty
    <3> QED BY <1>1, <3>1, <3>3, <3>4, <3>5
  <2>3. ASSUME NEW k, k = Length + 1 PROVE Slot(k)' = next
    BY <1>1, <2>1, <2>2, <2>3 DEF Length, is_empty, Slot
  <2>4. ASSUME NEW k \in 1..Length
        PROVE  Slot(k)' = Slot(k) /\ Slot(k) # next /\ Slot(k) \in Slots
    <3>1. start # NULL /\ start' = start
      BY <2>1 DEF Length, is_empty
    <3>2. Slot(k)' = Slot(k)
      BY <3>1 DEF Slot
    <3>3. CASE next > start
      BY <3>1, <3>2, <3>3 DEF Length, is_empty, Slot
    <3>4. CASE next < start
      BY <3>1, <3>2, <3>4 DEF Length, is_empty, Slot
    <3> QED BY <1>1, <3>3, <3>4
  <2>5. Contents' = Append(Contents, x)
    <3>1. Contents' = [k \in 1..Length + 1 |-> mem'[Slot(k)']]
      BY <2>2 DEF Contents
    <3>2. ASSUME NEW k, k = Length + 1 PROVE mem'[Slot(k)'] = x
      BY <2>1, <2>3, <3>2
    <3>3. \A k \in 1..Length : mem'[Slot(k)'] = Contents[k]
      BY <2>1, <2>4 DEF Contents
    <3>4. /\ Append(Contents, x) \in Seq(Items \cup {NoItem})
          /\ Len(Append(Contents, x)) = Length + 1
          /\ Append(Contents, x)[Length + 1] = x
          /\ \A k \in 1..Length : Append(Contents, x)[k] = Contents[k]
      BY <2>2, ContentsSeq
    <3>6. \A k \in 1..Length + 1 : mem'[Slot(k)'] = Append(Contents, x)[k]
      <4> SUFFICES ASSUME NEW k \in 1..Length + 1
                   PROVE  mem'[Slot(k)'] = Append(Contents, x)[k]
        OBVIOUS
      <4>1. CASE k = Length + 1
        BY <4>1, <3>2, <3>4
      <4>2. CASE k \in 1..Length
        BY <4>2, <3>3, <3>4
      <4>3. \/ k = Length + 1
            \/ k \in 1..Length
        BY <2>2
      <4> QED BY <4>1, <4>2, <4>3
    <3>7. /\ Contents' \in Seq(Items \cup {NoItem})
          /\ Len(Contents') = Length + 1
      <4>1. \A k \in 1..Length + 1 : mem'[Slot(k)'] \in Items \cup {NoItem}
        BY <2>2, <3>4, <3>6
      <4> QED BY <2>2, <3>1, <4>1
    <3>8. \A k \in 1..Length + 1 : Contents'[k] = Append(Contents, x)[k]
      BY <3>1, <3>6
    <3> HIDE DEF TypeOK, Slots
    <3> QED BY <3>4, <3>7, <3>8, SeqEqual
  <2> QED BY <2>1, <2>2, <2>5, ContentsSeq DEF F!Next, F!Give
<1>2. CASE next = start
  <2>1. fault' # NoFault /\ fault = NoFault /\ UNCHANGED <<mem, start, next, got>>
    BY <1>2 DEF MoveNext, Asserting
  <2>2. Length = Size
    BY <1>2 DEF Length, is_empty
  <2>3. Contents' = Contents
    BY <2>1 DEF Contents, Length, Slot, is_empty
  <2> QED BY <2>1, <2>2, <2>3, ContentsSeq DEF F!Next, F!Refuse
<1> QED BY <1>1, <1>2

\* A call of an empty queue that needs an item only stops it.
LEMMA EmptyRefuses ==
    ASSUME TypeOK, is_empty, fault = NoFault, fault' # NoFault,
           UNCHANGED <<mem, start, next, got>>
    PROVE  F!Next
<1>1. Contents = <<>>
  BY DEF Contents, Length
<1>2. Contents' = Contents
  BY DEF Contents, Length, Slot, is_empty
<1> QED BY <1>1, <1>2 DEF F!Next, F!Refuse

\* The item at start is the first of a queue that has one.
LEMMA StartIsHead ==
    ASSUME TypeOK, ~ is_empty
    PROVE  Contents # <<>> /\ Head(Contents) = mem[start]
<1> USE SizeAssumption DEF TypeOK, Slots
<1>1. Length \in Nat /\ Length > 0
  BY ContentsSeq
<1>2. Slot(1) = start
  BY DEF Slot, is_empty
<1>3. Contents[1] = mem[start]
  BY <1>1, <1>2 DEF Contents
<1> QED BY <1>1, <1>3, ContentsSeq

LEMMA PeekRefines == ASSUME TypeOK, Peek PROVE F!Next
<1>1. CASE is_empty
  BY <1>1, EmptyRefuses DEF Peek, Asserting
<1>2. CASE ~ is_empty
  <2>1. got' = mem[start] /\ UNCHANGED <<mem, start, next, fault>> /\ fault = NoFault
    BY <1>2 DEF Peek, Asserting
  <2>2. Contents' = Contents
    BY <2>1 DEF Contents, Length, Slot, is_empty
  <2> QED BY <1>2, <2>1, <2>2, StartIsHead DEF F!Next, F!Look
<1> QED BY <1>1, <1>2

\* dequeue moves start past its first item: what was the second is the first.
LEMMA DequeueRefines == ASSUME TypeOK, TypeOK', Dequeue PROVE F!Next
<1> USE SizeAssumption DEF TypeOK, Slots
<1>1. CASE is_empty
  BY <1>1, EmptyRefuses DEF Dequeue, Asserting
<1>2. CASE ~ is_empty
  <2>1. /\ got' = mem[start] /\ UNCHANGED <<mem, next, fault>> /\ fault = NoFault
        /\ start' = IF Wrap(start + 1) = next THEN NULL ELSE Wrap(start + 1)
    BY <1>2 DEF Dequeue, Asserting
  <2>2. Length \in Nat /\ Length > 0 /\ Length' = Length - 1
    <3>1. start \in 1..Size /\ next \in 1..Size /\ next' = next
      BY <1>2, <2>1 DEF is_empty
    <3>2. start' = LET s == IF start + 1 >= 1 + Size THEN 1 ELSE start + 1
                   IN  IF s = next THEN 0 ELSE s
      BY <2>1 DEF Wrap
    <3> QED BY <3>1, <3>2 DEF Length, is_empty
  <2>3. ASSUME NEW k \in 1..Length - 1 PROVE Slot(k)' = Slot(k + 1)
    <3>1. start' = Wrap(start + 1)
      BY <2>1, <2>2 DEF Length, is_empty
    <3> QED BY <1>2, <2>2, <3>1 DEF Length, is_empty, Slot, Wrap
  <2>4. Contents' = Tail(Contents)
    <3>1. Contents' = [k \in 1..Length - 1 |-> mem[Slot(k)']]
      BY <2>1, <2>2 DEF Contents
    <3>2. /\ Tail(Contents) \in Seq(Items \cup {NoItem})
          /\ Len(Tail(Contents)) = Length - 1
          /\ \A k \in 1..Length - 1 : Tail(Contents)[k] = Contents[k + 1]
      BY <2>2, ContentsSeq, StartIsHead, <1>2
    <3>3. \A k \in 1..Length - 1 : mem[Slot(k)'] = Tail(Contents)[k]
      BY <2>2, <2>3, <3>2 DEF Contents
    <3>4. /\ Contents' \in Seq(Items \cup {NoItem})
          /\ Len(Contents') = Length - 1
      <4>1. \A k \in 1..Length - 1 : mem[Slot(k)'] \in Items \cup {NoItem}
        BY <2>2, <3>2, <3>3
      <4> QED BY <2>2, <3>1, <4>1
    <3>5. \A k \in 1..Length - 1 : Contents'[k] = Tail(Contents)[k]
      BY <3>1, <3>3
    <3> HIDE DEF TypeOK, Slots
    <3> QED BY <3>2, <3>4, <3>5, SeqEqual
  <2> QED BY <1>2, <2>1, <2>4, StartIsHead DEF F!Next, F!Take
<1> QED BY <1>1, <1>2

LEMMA ClearRefines == ASSUME Clear PROVE F!Next
<1>1. start' = NULL /\ got' = got /\ fault = NoFault /\ fault' = fault
  BY DEF Clear, Asserting
<1>2. Contents' = <<>>
  BY <1>1 DEF Contents, Length, is_empty
<1> QED BY <1>1, <1>2 DEF F!Next, F!Clear

LEMMA NextRefines ==
    ASSUME TypeOK, TypeOK', [Next]_queue
    PROVE  [F!Next]_(F!fifo)
<1>1. CASE Exited \/ UNCHANGED queue
  <2>1. UNCHANGED <<mem, start, next, got, fault>>
    BY <1>1 DEF Exited, queue
  <2> QED BY <2>1 DEF F!fifo, Contents, Length, Slot, is_empty
<1> QED BY <1>1, MoveNextRefines, PeekRefines, DequeueRefines, ClearRefines DEF Next

\* Of whatever size, over whatever items: the ring is a bounded queue.
THEOREM RingIsFifo == Spec => ImplementsFifo
  BY InitRefines, NextRefines, RingTypeCorrect, PTL DEF Spec, ImplementsFifo, F!Spec

=============================================================================
