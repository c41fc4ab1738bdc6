--------------------------- MODULE HashTrieProofs ----------------------------
(***************************************************************************)
(* Proofs about HashTrie, for every hash, every capacity and every client. *)
(*                                                                         *)
(* The arena changes in three ways: a root is added, an entry is placed in *)
(* a free node, a node that holds an entry is split.  Of each we show what *)
(* it does to the forest and to the entries held, for any arena A; the     *)
(* actions then follow.                                                    *)
(***************************************************************************)
EXTENDS HashTrie, SequenceTheorems, TLAPS

NodesOf(n)  == {Fresh} \cup {Leaf(k, v) : k \in Keys, v \in Values} \cup {Inner(b) : b \in 1..n}
FramesOf(n) == [fn : {"add"}, map : Maps, key : Keys, value : Values,
                depth : 0..MaxDepth - 1, bucket : 1..n]
               \cup [fn : {"get"}, map : Maps, key : Keys, value : {NoValue},
                     depth : 0..MaxDepth - 1, bucket : 1..n]
BucketsOf(n) == [map : Maps, path : Seq(Bytes), nodes : [Bytes -> NodesOf(n)]]

Typed(A) == A \in Seq(BucketsOf(Len(A)))

\* No two buckets of a map have the same path,
Unique(A) == \A b, c \in 1..Len(A) : A[b].map = A[c].map /\ A[b].path = A[c].path => b = c

\* an inner node leads to the bucket of its map that is one byte further,
Linked(A) ==
    \A b \in 1..Len(A), h \in Bytes : is_inner(A[b].nodes[h]) =>
        /\ A[A[b].nodes[h].buckets].map = A[b].map
        /\ A[A[b].nodes[h].buckets].path = Append(A[b].path, h)

\* every bucket is reached through inner nodes,
Above(A, b, i, c) == /\ A[c].map = A[b].map /\ A[c].path = SubSeq(A[b].path, 1, i - 1)
                     /\ is_inner(A[c].nodes[A[b].path[i]])
Rooted(A) == \A b \in 1..Len(A) : \A i \in 1..Len(A[b].path) : \E c \in 1..Len(A) : Above(A, b, i, c)

\* from the root of its map,
RootsOf(A, R) ==
    /\ \A m \in Maps : R[m] # NULL => A[R[m]].map = m /\ A[R[m]].path = <<>>
    /\ \A b \in 1..Len(A) : A[b].path = <<>> => R[A[b].map] = b

\* and entries lie on the path of their key, at most MaxDepth bytes long.
OnPaths(A) == \A b \in 1..Len(A), h \in Bytes : is_leaf(A[b].nodes[h]) =>
                  OnPath(A[b].nodes[h].key, Append(A[b].path, h))
Short(A) == \A b \in 1..Len(A) : Len(A[b].path) < MaxDepth

Trie(A, R) == /\ Typed(A) /\ R \in [Maps -> 0..Len(A)]
              /\ Unique(A) /\ Linked(A) /\ Rooted(A) /\ RootsOf(A, R)
              /\ OnPaths(A) /\ Short(A)

\* A call stands in a bucket of its map, on the path of its key.
Stands(A, c) == c # NoCall =>
    /\ A[c.bucket].map = c.map
    /\ Len(A[c.bucket].path) = c.depth
    /\ OnPath(c.key, A[c.bucket].path)

-----------------------------------------------------------------------------
(***************************************************************************)
(* Nodes and sequences.                                                    *)
(***************************************************************************)
LEMMA NodeKinds ==
    /\ Fresh.is_init = FALSE
    /\ \A k, v : /\ Leaf(k, v).is_init = TRUE /\ Leaf(k, v).is_leaf = TRUE
                 /\ Leaf(k, v).key = k /\ Leaf(k, v).value = v
    /\ \A b : Inner(b).is_init = TRUE /\ Inner(b).is_leaf = FALSE /\ Inner(b).buckets = b
BY DEF Fresh, Leaf, Inner

LEMMA LeafInjective == \A k, v, l, w : Leaf(k, v) = Leaf(l, w) => k = l /\ v = w
<1> SUFFICES ASSUME NEW k, NEW v, NEW l, NEW w, Leaf(k, v) = Leaf(l, w) PROVE k = l /\ v = w
  OBVIOUS
<1>1. Leaf(k, v).key = k /\ Leaf(k, v).value = v BY NodeKinds, Zenon
<1>2. Leaf(l, w).key = l /\ Leaf(l, w).value = w BY NodeKinds, Zenon
<1> QED BY <1>1, <1>2

LEMMA NodePredicates ==
    /\ ~ is_leaf(Fresh) /\ ~ is_inner(Fresh) /\ ~ Fresh.is_init
    /\ \A k, v : is_leaf(Leaf(k, v)) /\ ~ is_inner(Leaf(k, v)) /\ Leaf(k, v).is_init
    /\ \A b : ~ is_leaf(Inner(b)) /\ is_inner(Inner(b)) /\ Inner(b).is_init
BY NodeKinds, Zenon DEF is_leaf, is_inner

LEMMA NodeCases ==
    ASSUME NEW n, NEW x \in NodesOf(n)
    PROVE  \/ x = Fresh
           \/ x = Leaf(x.key, x.value) /\ x.key \in Keys /\ x.value \in Values
           \/ x = Inner(x.buckets) /\ x.buckets \in 1..n
<1>1. CASE x = Fresh BY <1>1
<1>2. CASE x \in {Leaf(k, v) : k \in Keys, v \in Values}
  <2>1. PICK k \in Keys, v \in Values : x = Leaf(k, v) BY <1>2
  <2> QED BY <2>1, NodeKinds, Zenon
<1>3. CASE x \in {Inner(b) : b \in 1..n}
  <2>1. PICK b \in 1..n : x = Inner(b) BY <1>3
  <2> QED BY <2>1, NodeKinds, Zenon
<1> QED BY <1>1, <1>2, <1>3 DEF NodesOf

\* A node is of one kind, which the predicates tell.
LEMMA NodeOfKind ==
    ASSUME NEW n, NEW x \in NodesOf(n)
    PROVE  /\ ~ x.is_init <=> x = Fresh
           /\ is_leaf(x) <=> \E k \in Keys, v \in Values : x = Leaf(k, v)
           /\ is_inner(x) <=> \E b \in 1..n : x = Inner(b)
           /\ is_leaf(x) => x = Leaf(x.key, x.value) /\ x.key \in Keys /\ x.value \in Values
           /\ is_inner(x) => x.buckets \in 1..n
<1>1. CASE x = Fresh BY <1>1, NodePredicates, Zenon
<1>2. CASE x = Leaf(x.key, x.value) /\ x.key \in Keys /\ x.value \in Values
  BY <1>2, NodePredicates, Zenon
<1>3. CASE x = Inner(x.buckets) /\ x.buckets \in 1..n
  BY <1>3, NodePredicates, Zenon
<1> QED BY <1>1, <1>2, <1>3, NodeCases, Zenon

LEMMA NodesGrow ==
    ASSUME NEW n \in Nat
    PROVE  /\ NodesOf(n) \subseteq NodesOf(n + 1)
           /\ BucketsOf(n) \subseteq BucketsOf(n + 1)
           /\ FramesOf(n) \subseteq FramesOf(n + 1)
           /\ Inner(n + 1) \in NodesOf(n + 1)
<1>1. 1..n \subseteq 1..n + 1 /\ n + 1 \in 1..n + 1 OBVIOUS
<1>2. NodesOf(n) \subseteq NodesOf(n + 1) /\ Inner(n + 1) \in NodesOf(n + 1)
  BY <1>1 DEF NodesOf
<1>3. BucketsOf(n) \subseteq BucketsOf(n + 1)
  <2> HIDE <1>1
  <2> QED BY <1>2 DEF BucketsOf
<1>4. FramesOf(n) \subseteq FramesOf(n + 1) BY <1>1 DEF FramesOf
<1> QED BY <1>2, <1>3, <1>4

LEMMA BucketFields ==
    ASSUME NEW A, Typed(A), NEW b \in 1..Len(A)
    PROVE  /\ A[b].map \in Maps /\ A[b].path \in Seq(Bytes)
           /\ A[b].nodes \in [Bytes -> NodesOf(Len(A))]
           /\ \A h \in Bytes : A[b].nodes[h] \in NodesOf(Len(A))
<1>1. A[b] \in BucketsOf(Len(A)) BY DEF Typed
<1> QED BY <1>1 DEF BucketsOf

\* A path one byte longer
LEMMA Appended ==
    ASSUME NEW p \in Seq(Bytes), NEW h \in Bytes
    PROVE  /\ Append(p, h) \in Seq(Bytes) /\ Len(Append(p, h)) = Len(p) + 1
           /\ Append(p, h)[Len(p) + 1] = h
           /\ \A i \in 1..Len(p) : Append(p, h)[i] = p[i]
           /\ \A i \in 1..Len(p) : SubSeq(Append(p, h), 1, i - 1) = SubSeq(p, 1, i - 1)
           /\ SubSeq(Append(p, h), 1, Len(p)) = p
           /\ Len(p) \in Nat
<1>1. /\ Append(p, h) \in Seq(Bytes) /\ Len(Append(p, h)) = Len(p) + 1
      /\ Append(p, h)[Len(p) + 1] = h
      /\ \A i \in 1..Len(p) : Append(p, h)[i] = p[i]
      /\ Len(p) \in Nat
  OBVIOUS
<1> DEFINE q == Append(p, h)
<1>2. q \in Seq(Bytes) /\ Len(q) = Len(p) + 1 /\ \A i \in 1..Len(p) : q[i] = p[i] BY <1>1
<1> HIDE DEF q
<1>3. ASSUME NEW i \in 1..Len(p) PROVE SubSeq(q, 1, i - 1) = SubSeq(p, 1, i - 1)
  <2>1. /\ SubSeq(q, 1, i - 1) \in Seq(Bytes) /\ SubSeq(p, 1, i - 1) \in Seq(Bytes)
        /\ Len(SubSeq(q, 1, i - 1)) = i - 1 /\ Len(SubSeq(p, 1, i - 1)) = i - 1
        /\ \A j \in 1..i - 1 : SubSeq(q, 1, i - 1)[j] = q[j] /\ SubSeq(p, 1, i - 1)[j] = p[j]
    BY <1>1, <1>2
  <2>2. \A j \in 1..i - 1 : q[j] = p[j] BY <1>1, <1>2
  <2> QED BY <2>1, <2>2, SeqEqual
<1>4. SubSeq(q, 1, Len(p)) = p
  <2>1. /\ SubSeq(q, 1, Len(p)) \in Seq(Bytes) /\ Len(SubSeq(q, 1, Len(p))) = Len(p)
        /\ \A j \in 1..Len(p) : SubSeq(q, 1, Len(p))[j] = q[j]
    BY <1>1, <1>2
  <2> QED BY <1>2, <2>1, SeqEqual
<1> QED BY <1>1, <1>3, <1>4 DEF q

LEMMA HashBytes == \A k \in Keys, d \in 0..MaxDepth - 1 : hash[k][d] \in Bytes
BY TrieBounds

\* One byte more of the key's hash
LEMMA OnPathAppended ==
    ASSUME NEW p \in Seq(Bytes), NEW h \in Bytes, NEW k
    PROVE  OnPath(k, Append(p, h)) <=> OnPath(k, p) /\ h = hash[k][Len(p)]
<1>1. /\ Len(Append(p, h)) = Len(p) + 1 /\ Append(p, h)[Len(p) + 1] = h /\ Len(p) \in Nat
      /\ \A i \in 1..Len(p) : Append(p, h)[i] = p[i]
  BY Appended
<1>2. /\ \A i \in 1..Len(p) : i \in 1..Len(p) + 1
      /\ \A i \in 1..Len(p) + 1 : i \in 1..Len(p) \/ i = Len(p) + 1
      /\ Len(p) + 1 \in 1..Len(p) + 1 /\ Len(p) + 1 - 1 = Len(p)
  BY <1>1
<1>3. ASSUME OnPath(k, Append(p, h)) PROVE OnPath(k, p) /\ h = hash[k][Len(p)]
  BY <1>1, <1>2, <1>3 DEF OnPath
<1>4. ASSUME OnPath(k, p), h = hash[k][Len(p)] PROVE OnPath(k, Append(p, h))
  <2> SUFFICES ASSUME NEW i \in 1..Len(p) + 1 PROVE Append(p, h)[i] = hash[k][i - 1]
    BY <1>1, Zenon DEF OnPath
  <2>1. CASE i \in 1..Len(p) BY <1>1, <1>4, <2>1, Zenon DEF OnPath
  <2>2. CASE i = Len(p) + 1
    <3>1. i - 1 = Len(p) BY <1>1, <2>2
    <3>2. Append(p, h)[i] = h BY <1>1, <2>2, Zenon
    <3> QED BY <1>4, <3>1, <3>2, Zenon
  <2> QED BY <1>2, <2>1, <2>2, Zenon
<1> QED BY <1>3, <1>4

-----------------------------------------------------------------------------
(***************************************************************************)
(* A key has one place in a map: the first node on its path that is not    *)
(* an inner one.                                                           *)
(***************************************************************************)
LEMMA SamePath ==
    ASSUME NEW p \in Seq(Bytes), NEW q \in Seq(Bytes), NEW k, OnPath(k, p), OnPath(k, q),
           Len(p) <= Len(q)
    PROVE  SubSeq(q, 1, Len(p)) = p
<1>1. /\ SubSeq(q, 1, Len(p)) \in Seq(Bytes) /\ Len(SubSeq(q, 1, Len(p))) = Len(p)
      /\ \A j \in 1..Len(p) : SubSeq(q, 1, Len(p))[j] = q[j] /\ j \in 1..Len(q)
  OBVIOUS
<1>2. \A j \in 1..Len(p) : SubSeq(q, 1, Len(p))[j] = p[j] BY <1>1, Zenon DEF OnPath
<1> QED BY <1>1, <1>2, SeqEqual

\* On the path of a key no bucket lies below a node that is not inner.
LEMMA NotBelow ==
    ASSUME NEW A, Typed(A), Unique(A), Rooted(A), NEW b \in 1..Len(A), NEW c \in 1..Len(A),
           A[b].map = A[c].map, NEW h \in Bytes, NEW k,
           OnPath(k, Append(A[b].path, h)), OnPath(k, A[c].path), ~ is_inner(A[b].nodes[h])
    PROVE  Len(A[c].path) <= Len(A[b].path)
<1>1. A[b].path \in Seq(Bytes) /\ A[c].path \in Seq(Bytes) BY BucketFields
<1>2. OnPath(k, A[b].path) /\ h = hash[k][Len(A[b].path)] BY <1>1, OnPathAppended
<1> SUFFICES ASSUME Len(A[b].path) < Len(A[c].path) PROVE FALSE
  BY <1>1
<1> DEFINE i == Len(A[b].path) + 1
<1>3. i \in 1..Len(A[c].path) /\ i - 1 = Len(A[b].path) BY <1>1
<1>4. PICK d \in 1..Len(A) : Above(A, c, i, d) BY <1>3 DEF Rooted
<1>5. SubSeq(A[c].path, 1, i - 1) = A[b].path BY <1>1, <1>2, <1>3, SamePath
<1>6. A[c].path[i] = h BY <1>2, <1>3 DEF OnPath
<1>7. d = b BY <1>4, <1>5, Zenon DEF Above, Unique
<1> QED BY <1>4, <1>6, <1>7, Zenon DEF Above

LEMMA OnePlace ==
    ASSUME NEW A, Typed(A), Unique(A), Rooted(A), NEW b \in 1..Len(A), NEW c \in 1..Len(A),
           A[b].map = A[c].map, NEW h \in Bytes, NEW g \in Bytes, NEW k,
           OnPath(k, Append(A[b].path, h)), OnPath(k, Append(A[c].path, g)),
           ~ is_inner(A[b].nodes[h]), ~ is_inner(A[c].nodes[g])
    PROVE  b = c /\ h = g
<1>1. /\ A[b].path \in Seq(Bytes) /\ A[c].path \in Seq(Bytes)
      /\ Len(A[b].path) \in Nat /\ Len(A[c].path) \in Nat
  BY BucketFields, Appended
<1>2. /\ OnPath(k, A[b].path) /\ h = hash[k][Len(A[b].path)]
      /\ OnPath(k, A[c].path) /\ g = hash[k][Len(A[c].path)]
  BY <1>1, OnPathAppended
<1>3. Len(A[b].path) = Len(A[c].path)
  <2>1. Len(A[c].path) <= Len(A[b].path) BY <1>2, NotBelow
  <2>2. Len(A[b].path) <= Len(A[c].path) BY <1>2, NotBelow
  <2> QED BY <1>1, <2>1, <2>2
<1>4. A[b].path = A[c].path
  <2>1. SubSeq(A[c].path, 1, Len(A[b].path)) = A[b].path BY <1>1, <1>2, <1>3, SamePath
  <2>2. SubSeq(A[c].path, 1, Len(A[c].path)) = A[c].path BY <1>1, <1>2, <1>3, SamePath
  <2> QED BY <1>3, <2>1, <2>2
<1> QED BY <1>2, <1>4, Zenon DEF Unique

-----------------------------------------------------------------------------
(***************************************************************************)
(* A root added: a map that had none gets a bucket with an empty path.     *)
(***************************************************************************)
RootAdded(A, m, C) ==
    /\ Typed(C) /\ Len(C) = Len(A) + 1
    /\ C[Len(C)].map = m /\ C[Len(C)].path = <<>>
    /\ \A h \in Bytes : C[Len(C)].nodes[h] = Fresh
    /\ \A b \in 1..Len(A) : C[b] = A[b]

LEMMA AddingRoot ==
    ASSUME NEW A, Typed(A), NEW m \in Maps, NEW C, C = Append(A, Bucket(m, <<>>))
    PROVE  RootAdded(A, m, C)
<1> DEFINE n == Len(A)
           new == Bucket(m, <<>>)
<1>1. n \in Nat /\ A \in Seq(BucketsOf(n)) BY DEF Typed
<1>2. A \in Seq(BucketsOf(n + 1)) BY <1>1, NodesGrow
<1>3. /\ new.map = m /\ new.path = <<>> /\ \A h \in Bytes : new.nodes[h] = Fresh
      /\ new \in BucketsOf(n + 1)
  <2>1. Fresh \in NodesOf(n + 1) BY DEF NodesOf
  <2> QED BY <2>1 DEF Bucket, BucketsOf
<1> HIDE DEF new
<1>4. /\ C \in Seq(BucketsOf(n + 1)) /\ Len(C) = n + 1 /\ C[n + 1] = new
      /\ \A b \in 1..n : C[b] = A[b]
  BY <1>1, <1>2, <1>3 DEF new
<1> QED BY <1>3, <1>4, Zenon DEF RootAdded, Typed

LEMMA RootAddedTrie ==
    ASSUME NEW A, NEW R, Trie(A, R), NEW m \in Maps, R[m] = NULL, NEW C, RootAdded(A, m, C)
    PROVE  Trie(C, [R EXCEPT ![m] = Len(A) + 1])
<1> DEFINE n == Len(A) + 1
           S == [R EXCEPT ![m] = n]
<1>1. /\ Typed(A) /\ Len(A) \in Nat /\ R \in [Maps -> 0..Len(A)]
      /\ n \in Nat /\ n # NULL
  BY DEF Trie, Typed, NULL
<1>2. /\ Len(C) = n /\ n \in 1..Len(C) /\ 1..Len(A) \subseteq 1..Len(C)
      /\ \A b \in 1..Len(C) : b \in 1..Len(A) \/ b = n
      /\ \A b \in 1..Len(A) : b # n
  BY <1>1 DEF RootAdded
<1>3. /\ S \in [Maps -> 0..Len(C)] /\ S[m] = n
      /\ \A o \in Maps : o # m => S[o] = R[o]
  BY <1>1, <1>2
<1> HIDE DEF n, S
<1>4. /\ C[n].map = m /\ C[n].path = <<>> /\ \A h \in Bytes : C[n].nodes[h] = Fresh
      /\ \A b \in 1..Len(A) : C[b] = A[b]
  BY <1>2, Zenon DEF RootAdded
<1>5. \A b \in 1..Len(A) : A[b].path = <<>> => A[b].map # m
  <2> SUFFICES ASSUME NEW b \in 1..Len(A), A[b].path = <<>>, A[b].map = m PROVE FALSE
    OBVIOUS
  <2>1. R[m] = b BY DEF Trie, RootsOf
  <2> QED BY <1>1, <2>1 DEF NULL
<1>6. ~ is_leaf(Fresh) /\ ~ is_inner(Fresh) BY NodePredicates
<1>7. Unique(C)
  <2>1. Unique(A) BY DEF Trie
  <2> QED BY <1>2, <1>4, <1>5, <2>1 DEF Unique
<1>8. Linked(C)
  <2>1. \A b \in 1..Len(A), h \in Bytes : is_inner(A[b].nodes[h]) =>
           A[b].nodes[h].buckets \in 1..Len(A)
    BY <1>1, BucketFields, NodeOfKind, Zenon
  <2>2. ASSUME NEW b \in 1..Len(C), NEW h \in Bytes, is_inner(C[b].nodes[h])
        PROVE  /\ C[C[b].nodes[h].buckets].map = C[b].map
               /\ C[C[b].nodes[h].buckets].path = Append(C[b].path, h)
    <3>1. b \in 1..Len(A) /\ C[b] = A[b] BY <1>2, <1>4, <1>6, <2>2, Zenon
    <3>2. C[A[b].nodes[h].buckets] = A[A[b].nodes[h].buckets]
      BY <1>4, <2>1, <2>2, <3>1, Zenon
    <3> QED BY <2>2, <3>1, <3>2, Zenon DEF Trie, Linked
  <2> QED BY <2>2, Zenon DEF Linked
<1>9. Rooted(C)
  <2>1. ASSUME NEW b \in 1..Len(A), NEW i \in 1..Len(C[b].path)
        PROVE  \E c \in 1..Len(C) : Above(C, b, i, c)
    <3>1. i \in 1..Len(A[b].path) BY <1>4
    <3>2. PICK c \in 1..Len(A) : Above(A, b, i, c) BY <3>1 DEF Rooted, Trie
    <3>3. Above(C, b, i, c) BY <1>4, <3>2, Zenon DEF Above
    <3> QED BY <1>2, <3>3, Zenon
  <2>2. 1..Len(C[n].path) = {} BY <1>4
  <2> QED BY <1>2, <2>1, <2>2, Zenon DEF Rooted
<1>10. RootsOf(C, S)
  <2>1. ASSUME NEW o \in Maps, S[o] # NULL PROVE C[S[o]].map = o /\ C[S[o]].path = <<>>
    <3>1. CASE o = m BY <1>3, <1>4, <3>1
    <3>2. CASE o # m
      <4>1. S[o] = R[o] /\ R[o] \in 1..Len(A) BY <1>1, <1>3, <2>1, <3>2 DEF NULL
      <4>2. A[R[o]].map = o /\ A[R[o]].path = <<>>
        BY <2>1, <4>1, Zenon DEF Trie, RootsOf
      <4> QED BY <1>4, <4>1, <4>2
    <3> QED BY <3>1, <3>2
  <2>2. ASSUME NEW b \in 1..Len(C), C[b].path = <<>> PROVE S[C[b].map] = b
    <3>1. CASE b = n BY <1>3, <1>4, <3>1
    <3>2. CASE b \in 1..Len(A)
      <4>1. C[b] = A[b] /\ A[b].map # m /\ A[b].map \in Maps /\ R[A[b].map] = b
        BY <1>1, <1>4, <1>5, <2>2, <3>2, BucketFields, Zenon DEF Trie, RootsOf
      <4> QED BY <1>3, <4>1
    <3> QED BY <1>2, <3>1, <3>2
  <2> QED BY <2>1, <2>2, Zenon DEF RootsOf
<1>11. OnPaths(C) BY <1>2, <1>4, <1>6, Zenon DEF OnPaths, Trie
<1>12. Short(C)
  <2>1. Len(C[n].path) < MaxDepth BY <1>4, TrieBounds
  <2> QED BY <1>2, <1>4, <2>1, Zenon DEF Short, Trie
<1> QED BY <1>3, <1>7, <1>8, <1>9, <1>10, <1>11, <1>12, Zenon DEF Trie, RootAdded, S, n

-----------------------------------------------------------------------------
(***************************************************************************)
(* An entry placed in a free node.                                         *)
(***************************************************************************)
SameNodesBut(A, b, h, C) ==
    /\ \A d \in 1..Len(A) : C[d].map = A[d].map /\ C[d].path = A[d].path
    /\ \A d \in 1..Len(A), g \in Bytes : d # b \/ g # h => C[d].nodes[g] = A[d].nodes[g]

SetNode(A, b, h, x) == [A EXCEPT ![b].nodes[h] = x]

EntryPlaced(A, b, h, x, C) ==
    /\ Typed(C) /\ Len(C) = Len(A)
    /\ SameNodesBut(A, b, h, C) /\ C[b].nodes[h] = x

LEMMA SettingNode ==
    ASSUME NEW n, NEW A \in Seq(BucketsOf(n)), NEW b \in 1..Len(A), NEW h \in Bytes,
           NEW x \in NodesOf(n), NEW C, C = SetNode(A, b, h, x)
    PROVE  /\ C \in Seq(BucketsOf(n)) /\ Len(C) = Len(A)
           /\ SameNodesBut(A, b, h, C) /\ C[b].nodes[h] = x
<1> DEFINE c == [A[b] EXCEPT !.nodes[h] = x]
<1>1. A[b] \in BucketsOf(n) /\ Len(A) \in Nat OBVIOUS
<1>2. /\ c \in BucketsOf(n) /\ c.map = A[b].map /\ c.path = A[b].path /\ c.nodes[h] = x
      /\ \A g \in Bytes : g # h => c.nodes[g] = A[b].nodes[g]
  BY <1>1 DEF BucketsOf
<1>3. C = [A EXCEPT ![b] = c] BY DEF SetNode
<1> HIDE DEF c
<1>4. /\ C \in Seq(BucketsOf(n)) /\ Len(C) = Len(A) /\ C[b] = c
      /\ \A d \in 1..Len(A) : d # b => C[d] = A[d]
  BY <1>2, <1>3
<1> QED BY <1>2, <1>4, Zenon DEF SameNodesBut

LEMMA EntryPlacedTrie ==
    ASSUME NEW A, NEW R, Trie(A, R), NEW b \in 1..Len(A), NEW h \in Bytes,
           A[b].nodes[h] = Fresh, NEW k \in Keys, NEW v \in Values,
           OnPath(k, Append(A[b].path, h)), NEW C, EntryPlaced(A, b, h, Leaf(k, v), C)
    PROVE  Trie(C, R)
<1>1. /\ Typed(C) /\ Len(C) = Len(A)
      /\ \A d \in 1..Len(A) : C[d].map = A[d].map /\ C[d].path = A[d].path
      /\ \A d \in 1..Len(A), g \in Bytes : d # b \/ g # h => C[d].nodes[g] = A[d].nodes[g]
      /\ C[b].nodes[h] = Leaf(k, v)
  BY Zenon DEF EntryPlaced, SameNodesBut
<1>2. /\ ~ is_leaf(Fresh) /\ ~ is_inner(Fresh)
      /\ is_leaf(Leaf(k, v)) /\ ~ is_inner(Leaf(k, v)) /\ Leaf(k, v).key = k
  BY NodePredicates, NodeKinds, Zenon
<1>3. \A d \in 1..Len(A), g \in Bytes :
         /\ is_inner(C[d].nodes[g]) <=> is_inner(A[d].nodes[g])
         /\ is_inner(A[d].nodes[g]) => /\ C[d].nodes[g] = A[d].nodes[g]
                                       /\ A[d].nodes[g].buckets \in 1..Len(A)
  <2> SUFFICES ASSUME NEW d \in 1..Len(A), NEW g \in Bytes
               PROVE  /\ is_inner(C[d].nodes[g]) <=> is_inner(A[d].nodes[g])
                      /\ is_inner(A[d].nodes[g]) => /\ C[d].nodes[g] = A[d].nodes[g]
                                                    /\ A[d].nodes[g].buckets \in 1..Len(A)
    OBVIOUS
  <2>1. A[d].nodes[g] \in NodesOf(Len(A)) BY BucketFields DEF Trie
  <2>2. is_inner(A[d].nodes[g]) => A[d].nodes[g].buckets \in 1..Len(A)
    BY <2>1, NodeOfKind, Zenon
  <2>3. CASE d = b /\ g = h BY <1>1, <1>2, <2>3
  <2>4. CASE d # b \/ g # h BY <1>1, <2>2, <2>4
  <2> QED BY <2>3, <2>4
<1>4. /\ R \in [Maps -> 0..Len(A)] /\ Len(A) \in Nat BY DEF Trie, Typed
<1>5. Unique(C) BY <1>1, Zenon DEF Unique, Trie
<1>6. Linked(C)
  <2>1. ASSUME NEW d \in 1..Len(A), NEW g \in Bytes, is_inner(C[d].nodes[g])
        PROVE  /\ C[C[d].nodes[g].buckets].map = C[d].map
               /\ C[C[d].nodes[g].buckets].path = Append(C[d].path, g)
    <3>1. /\ C[d].nodes[g] = A[d].nodes[g] /\ A[d].nodes[g].buckets \in 1..Len(A)
          /\ is_inner(A[d].nodes[g])
      BY <1>3, <2>1, Zenon
    <3>2. /\ A[A[d].nodes[g].buckets].map = A[d].map
          /\ A[A[d].nodes[g].buckets].path = Append(A[d].path, g)
      BY <3>1, Zenon DEF Trie, Linked
    <3> QED BY <1>1, <3>1, <3>2, Zenon
  <2> QED BY <1>1, <2>1, Zenon DEF Linked
<1>7. Rooted(C)
  <2>1. ASSUME NEW d \in 1..Len(A), NEW i \in 1..Len(C[d].path)
        PROVE  \E c \in 1..Len(A) : Above(C, d, i, c)
    <3>1. i \in 1..Len(A[d].path) /\ C[d].path = A[d].path BY <1>1
    <3>2. PICK c \in 1..Len(A) : Above(A, d, i, c) BY <3>1 DEF Rooted, Trie
    <3>3. A[d].path[i] \in Bytes
      <4>1. A[d].path \in Seq(Bytes) BY BucketFields DEF Trie
      <4> QED BY <3>1, <4>1
    <3>4. Above(C, d, i, c) BY <1>1, <1>3, <3>1, <3>2, <3>3, Zenon DEF Above
    <3> QED BY <3>4
  <2> QED BY <1>1, <2>1, Zenon DEF Rooted
<1>8. RootsOf(C, R)
  <2>1. \A m \in Maps : R[m] # NULL => R[m] \in 1..Len(A) BY <1>4 DEF NULL
  <2>2. \A m \in Maps : R[m] # NULL => A[R[m]].map = m /\ A[R[m]].path = <<>>
    BY Zenon DEF Trie, RootsOf
  <2>3. \A m \in Maps : R[m] # NULL => C[R[m]].map = m /\ C[R[m]].path = <<>>
    BY <1>1, <2>1, <2>2
  <2>4. \A d \in 1..Len(C) : C[d].path = <<>> => R[C[d].map] = d
    BY <1>1, Zenon DEF Trie, RootsOf
  <2> QED BY <2>3, <2>4, Zenon DEF RootsOf
<1>9. OnPaths(C)
  <2>1. ASSUME NEW d \in 1..Len(A), NEW g \in Bytes, is_leaf(C[d].nodes[g])
        PROVE  OnPath(C[d].nodes[g].key, Append(C[d].path, g))
    <3>1. CASE d = b /\ g = h
      <4>1. C[d].nodes[g] = Leaf(k, v) /\ C[d].path = A[b].path BY <1>1, <3>1, Zenon
      <4> QED BY <1>2, <3>1, <4>1, Zenon
    <3>2. CASE d # b \/ g # h BY <1>1, <2>1, <3>2, Zenon DEF Trie, OnPaths
    <3> QED BY <3>1, <3>2
  <2> QED BY <1>1, <2>1, Zenon DEF OnPaths
<1>10. Short(C) BY <1>1, Zenon DEF Short, Trie
<1> QED BY <1>1, <1>4, <1>5, <1>6, <1>7, <1>8, <1>9, <1>10, Zenon DEF Trie

-----------------------------------------------------------------------------
(***************************************************************************)
(* A node that holds an entry split: the entry moves one byte further.     *)
(***************************************************************************)
NodeSplit(A, b, h, g, C) ==
    LET n == Len(A) + 1 IN
    /\ Typed(C) /\ Len(C) = n
    /\ SameNodesBut(A, b, h, C) /\ C[b].nodes[h] = Inner(n)
    /\ C[n].map = A[b].map /\ C[n].path = Append(A[b].path, h)
    /\ C[n].nodes[g] = A[b].nodes[h]
    /\ \A e \in Bytes : e # g => C[n].nodes[e] = Fresh

LEMMA SplittingNode ==
    ASSUME NEW A, Typed(A), NEW b \in 1..Len(A), NEW h \in Bytes, NEW g \in Bytes,
           NEW new, new = Bucket(A[b].map, Append(A[b].path, h)),
           NEW C, C = SetNode(Append(A, [new EXCEPT !.nodes[g] = A[b].nodes[h]]), b, h,
                              Inner(Len(A) + 1))
    PROVE  NodeSplit(A, b, h, g, C)
<1> DEFINE n == Len(A) + 1
           x == A[b].nodes[h]
           moved == [new EXCEPT !.nodes[g] = x]
           D == Append(A, moved)
<1>1. Len(A) \in Nat /\ A \in Seq(BucketsOf(Len(A))) /\ n \in Nat BY DEF Typed
<1>2. A \in Seq(BucketsOf(n)) BY <1>1, NodesGrow
<1>3. /\ A[b].map \in Maps /\ A[b].path \in Seq(Bytes) /\ x \in NodesOf(n)
      /\ Append(A[b].path, h) \in Seq(Bytes) /\ Inner(n) \in NodesOf(n)
  <2>1. A[b].map \in Maps /\ A[b].path \in Seq(Bytes) /\ x \in NodesOf(Len(A))
    BY BucketFields
  <2>2. Append(A[b].path, h) \in Seq(Bytes) BY <2>1, Appended
  <2>3. NodesOf(Len(A)) \subseteq NodesOf(n) /\ Inner(n) \in NodesOf(n)
    BY <1>1, NodesGrow, Zenon
  <2> QED BY <2>1, <2>2, <2>3, Zenon
<1>4. C = SetNode(D, b, h, Inner(n)) OBVIOUS
<1> HIDE DEF x
<1>5. /\ moved \in BucketsOf(n) /\ moved.map = A[b].map
      /\ moved.path = Append(A[b].path, h) /\ moved.nodes[g] = x
      /\ \A e \in Bytes : e # g => moved.nodes[e] = Fresh
  <2> DEFINE p == Append(A[b].path, h)
             m == A[b].map
  <2>1. m \in Maps /\ p \in Seq(Bytes) /\ new = Bucket(m, p) BY <1>3
  <2> HIDE DEF p, m, n
  <2>2. Fresh \in NodesOf(n) BY DEF NodesOf
  <2>3. /\ new \in BucketsOf(n) /\ new.map = m /\ new.path = p
        /\ \A e \in Bytes : new.nodes[e] = Fresh
    <3> DEFINE none == [e \in Bytes |-> Fresh]
    <3>1. none \in [Bytes -> NodesOf(n)] /\ \A e \in Bytes : none[e] = Fresh BY <2>2
    <3>2. new = [map |-> m, path |-> p, nodes |-> none] BY <2>1, Zenon DEF Bucket
    <3> HIDE DEF none
    <3>3. /\ new.map = m /\ new.path = p /\ new.nodes = none BY <3>2
    <3>4. new \in [map : Maps, path : Seq(Bytes), nodes : [Bytes -> NodesOf(n)]]
      BY <2>1, <3>1, <3>2
    <3> QED BY <3>1, <3>3, <3>4, Zenon DEF BucketsOf
  <2>4. /\ moved \in BucketsOf(n) /\ moved.map = m /\ moved.path = p /\ moved.nodes[g] = x
        /\ \A e \in Bytes : e # g => moved.nodes[e] = new.nodes[e]
    BY <1>3, <2>3 DEF BucketsOf
  <2> QED BY <2>3, <2>4 DEF p, m
<1> HIDE DEF moved
<1>6. /\ D \in Seq(BucketsOf(n)) /\ Len(D) = n /\ D[n] = moved /\ b \in 1..Len(D) /\ b # n
      /\ n \in 1..n /\ 1..Len(A) \subseteq 1..n
      /\ \A d \in 1..Len(A) : D[d] = A[d]
  BY <1>1, <1>2, <1>5
<1> HIDE DEF D, n
<1>7. /\ C \in Seq(BucketsOf(n)) /\ Len(C) = Len(D)
      /\ SameNodesBut(D, b, h, C) /\ C[b].nodes[h] = Inner(n)
  <2>1. D \in Seq(BucketsOf(n)) /\ b \in 1..Len(D) BY <1>6
  <2>2. Inner(n) \in NodesOf(n) BY <1>3
  <2> QED BY <1>4, <2>1, <2>2, SettingNode
<1>8. /\ \A d \in 1..n : C[d].map = D[d].map /\ C[d].path = D[d].path
      /\ \A d \in 1..n, e \in Bytes : d # b \/ e # h => C[d].nodes[e] = D[d].nodes[e]
  BY <1>6, <1>7, Zenon DEF SameNodesBut
<1>9. SameNodesBut(A, b, h, C)
  <2>1. \A d \in 1..Len(A) : /\ d \in 1..n /\ D[d].map = A[d].map /\ D[d].path = A[d].path
                              /\ D[d].nodes = A[d].nodes
    BY <1>6
  <2> QED BY <1>8, <2>1, ZenonT(30) DEF SameNodesBut
<1>10. /\ C[n].map = A[b].map /\ C[n].path = Append(A[b].path, h) /\ C[n].nodes[g] = x
       /\ \A e \in Bytes : e # g => C[n].nodes[e] = Fresh
  <2>1. /\ C[n].map = D[n].map /\ C[n].path = D[n].path
        /\ \A e \in Bytes : C[n].nodes[e] = D[n].nodes[e]
    BY <1>6, <1>8, Zenon
  <2>2. D[n] = moved BY <1>6
  <2> QED BY <1>5, <2>1, <2>2
<1>11. Typed(C) BY <1>6, <1>7, Zenon DEF Typed
<1> QED BY <1>6, <1>7, <1>9, <1>10, <1>11, Zenon DEF NodeSplit, n, x

LEMMA NodeSplitTrie ==
    ASSUME NEW A, NEW R, Trie(A, R), NEW b \in 1..Len(A), NEW h \in Bytes, NEW g \in Bytes,
           is_leaf(A[b].nodes[h]), Len(A[b].path) + 1 < MaxDepth,
           OnPath(A[b].nodes[h].key, Append(Append(A[b].path, h), g)),
           NEW C, NodeSplit(A, b, h, g, C)
    PROVE  Trie(C, R)
<1> DEFINE n == Len(A) + 1
           p == Append(A[b].path, h)
           x == A[b].nodes[h]
<1>1. /\ Typed(A) /\ R \in [Maps -> 0..Len(A)] /\ Len(A) \in Nat /\ n \in Nat
      /\ Unique(A) /\ Linked(A) /\ Rooted(A) /\ OnPaths(A) /\ Short(A) /\ RootsOf(A, R)
  BY DEF Trie, Typed
<1>2. /\ n \in 1..n /\ 1..Len(A) \subseteq 1..n
      /\ \A d \in 1..n : d \in 1..Len(A) \/ d = n
      /\ \A d \in 1..Len(A) : d # n
      /\ R \in [Maps -> 0..n]
      /\ \A m \in Maps : R[m] # NULL => R[m] \in 1..Len(A)
  BY <1>1 DEF NULL
<1>3. /\ A[b].path \in Seq(Bytes) /\ p \in Seq(Bytes) /\ Len(p) = Len(A[b].path) + 1
      /\ p[Len(A[b].path) + 1] = h /\ p # <<>>
      /\ \A i \in 1..Len(A[b].path) : p[i] = A[b].path[i]
      /\ \A i \in 1..Len(A[b].path) : SubSeq(p, 1, i - 1) = SubSeq(A[b].path, 1, i - 1)
      /\ SubSeq(p, 1, Len(A[b].path)) = A[b].path
      /\ Len(A[b].path) \in Nat
  <2>1. A[b].path \in Seq(Bytes) BY <1>1, BucketFields
  <2>2. Len(p) = Len(A[b].path) + 1 /\ Len(A[b].path) \in Nat BY <2>1, Appended, Zenon
  <2>3. p # <<>>
    <3>1. Len(p) # 0 BY <2>2
    <3> HIDE DEF p
    <3> QED BY <3>1
  <2> QED BY <2>1, <2>2, <2>3, Appended, Zenon
<1>4. /\ Typed(C) /\ Len(C) = n
      /\ \A d \in 1..Len(A) : C[d].map = A[d].map /\ C[d].path = A[d].path
      /\ \A d \in 1..Len(A), e \in Bytes : d # b \/ e # h => C[d].nodes[e] = A[d].nodes[e]
      /\ C[b].nodes[h] = Inner(n) /\ C[n].map = A[b].map /\ C[n].path = p
      /\ C[n].nodes[g] = x /\ \A e \in Bytes : e # g => C[n].nodes[e] = Fresh
  BY Zenon DEF NodeSplit, SameNodesBut
<1> HIDE DEF n, p
<1>5. /\ ~ is_leaf(Fresh) /\ ~ is_inner(Fresh)
      /\ is_inner(Inner(n)) /\ ~ is_leaf(Inner(n)) /\ Inner(n).buckets = n
  BY NodePredicates, NodeKinds, Zenon
<1>6. is_leaf(x) /\ ~ is_inner(x)
  <2>1. x \in NodesOf(Len(A)) BY <1>1, BucketFields
  <2>2. is_leaf(x) OBVIOUS
  <2> QED BY <2>1, <2>2, NodeOfKind, NodePredicates, Zenon
<1>7. \A e \in Bytes : ~ is_inner(C[n].nodes[e])
  BY <1>4, <1>5, <1>6, Zenon
<1>8. ASSUME NEW d \in 1..Len(A), NEW e \in Bytes, is_inner(A[d].nodes[e])
      PROVE  /\ C[d].nodes[e] = A[d].nodes[e] /\ A[d].nodes[e].buckets \in 1..Len(A)
             /\ is_inner(C[d].nodes[e])
  <2>1. A[d].nodes[e] \in NodesOf(Len(A)) BY <1>1, BucketFields
  <2>2. d # b \/ e # h BY <1>6, <1>8
  <2>3. C[d].nodes[e] = A[d].nodes[e] BY <1>4, <2>2, Zenon
  <2> QED BY <1>8, <2>1, <2>3, NodeOfKind, Zenon
<1>9. \A d \in 1..Len(A) : ~ (A[d].map = A[b].map /\ A[d].path = p)
  <2> SUFFICES ASSUME NEW d \in 1..Len(A), A[d].map = A[b].map, A[d].path = p PROVE FALSE
    OBVIOUS
  <2> DEFINE i == Len(A[b].path) + 1
  <2>1. i \in 1..Len(p) /\ i - 1 = Len(A[b].path) BY <1>3
  <2>2. PICK c \in 1..Len(A) : Above(A, d, i, c) BY <1>1, <2>1 DEF Rooted
  <2>3. /\ A[c].map = A[d].map /\ A[c].path = SubSeq(p, 1, i - 1)
        /\ is_inner(A[c].nodes[p[i]])
    BY <2>2, Zenon DEF Above
  <2>4. A[c].path = A[b].path /\ p[i] = h BY <1>3, <2>1, <2>3
  <2>5. c = b BY <1>1, <2>3, <2>4, Zenon DEF Unique
  <2> QED BY <1>6, <2>3, <2>4, <2>5, Zenon
<1> HIDE DEF x
<1>10. Unique(C)
  <2>1. ASSUME NEW c \in 1..n, NEW d \in 1..n, C[c].map = C[d].map, C[c].path = C[d].path
        PROVE  c = d
    <3>1. CASE c = n /\ d = n BY <3>1
    <3>2. CASE c \in 1..Len(A) /\ d \in 1..Len(A)
      BY <1>1, <1>4, <2>1, <3>2, Zenon DEF Unique
    <3>3. CASE c = n /\ d \in 1..Len(A) BY <1>4, <1>9, <2>1, <3>3
    <3>4. CASE d = n /\ c \in 1..Len(A) BY <1>4, <1>9, <2>1, <3>4
    <3> QED BY <1>2, <3>1, <3>2, <3>3, <3>4
  <2> QED BY <1>4, <2>1, Zenon DEF Unique
<1>11. Linked(C)
  <2>1. ASSUME NEW d \in 1..n, NEW e \in Bytes, is_inner(C[d].nodes[e])
        PROVE  /\ C[C[d].nodes[e].buckets].map = C[d].map
               /\ C[C[d].nodes[e].buckets].path = Append(C[d].path, e)
    <3>1. d \in 1..Len(A) BY <1>2, <1>7, <2>1, Zenon
    <3>2. CASE d = b /\ e = h
      <4>1. C[d].nodes[e].buckets = n BY <1>4, <1>5, <3>2
      <4>2. C[d].map = A[b].map /\ C[d].path = A[b].path BY <1>4, <3>2
      <4> QED BY <1>4, <3>2, <4>1, <4>2 DEF p
    <3>3. CASE d # b \/ e # h
      <4>1. C[d].nodes[e] = A[d].nodes[e] BY <1>4, <3>1, <3>3, Zenon
      <4>2. A[d].nodes[e].buckets \in 1..Len(A) BY <1>8, <2>1, <3>1, <4>1, Zenon
      <4>3. /\ A[A[d].nodes[e].buckets].map = A[d].map
            /\ A[A[d].nodes[e].buckets].path = Append(A[d].path, e)
        BY <1>1, <2>1, <3>1, <4>1, Zenon DEF Linked
      <4> QED BY <1>4, <3>1, <4>1, <4>2, <4>3
    <3> QED BY <3>2, <3>3
  <2> QED BY <1>4, <2>1, Zenon DEF Linked
<1>12. Rooted(C)
  <2>1. ASSUME NEW d \in 1..Len(A), NEW i \in 1..Len(A[d].path)
        PROVE  \E c \in 1..Len(A) : Above(A, d, i, c) /\ Above(C, d, i, c)
    <3>1. PICK c \in 1..Len(A) : Above(A, d, i, c) BY <1>1 DEF Rooted
    <3>2. A[d].path[i] \in Bytes
      <4>1. A[d].path \in Seq(Bytes) BY <1>1, BucketFields
      <4> QED BY <4>1
    <3>3. is_inner(C[c].nodes[A[d].path[i]]) BY <1>8, <3>1, <3>2, Zenon DEF Above
    <3>4. Above(C, d, i, c) BY <1>4, <3>1, <3>3, Zenon DEF Above
    <3> QED BY <3>1, <3>4
  <2>2. ASSUME NEW d \in 1..Len(A), NEW i \in 1..Len(C[d].path)
        PROVE  \E c \in 1..n : Above(C, d, i, c)
    <3>1. i \in 1..Len(A[d].path) BY <1>4
    <3> QED BY <1>2, <2>1, <3>1, Zenon
  <2>3. ASSUME NEW i \in 1..Len(C[n].path)
        PROVE  \E c \in 1..n : Above(C, n, i, c)
    <3>1. i \in 1..Len(A[b].path) \/ i = Len(A[b].path) + 1 BY <1>3, <1>4, <2>3
    <3>2. CASE i \in 1..Len(A[b].path)
      <4>1. PICK c \in 1..Len(A) : Above(C, b, i, c) BY <2>1, <3>2, Zenon
      <4>2. /\ C[c].map = C[b].map /\ C[c].path = SubSeq(C[b].path, 1, i - 1)
            /\ is_inner(C[c].nodes[C[b].path[i]])
        BY <4>1, Zenon DEF Above
      <4>3. /\ C[n].map = C[b].map /\ C[n].path[i] = C[b].path[i]
            /\ SubSeq(C[n].path, 1, i - 1) = SubSeq(C[b].path, 1, i - 1)
        BY <1>3, <1>4, <3>2
      <4>4. Above(C, n, i, c) BY <4>2, <4>3 DEF Above
      <4> QED BY <1>2, <4>4, Zenon
    <3>3. CASE i = Len(A[b].path) + 1
      <4>1. i - 1 = Len(A[b].path) BY <1>3, <3>3
      <4>2. /\ SubSeq(C[n].path, 1, i - 1) = C[b].path /\ C[n].path[i] = h
            /\ C[n].map = C[b].map
        BY <1>3, <1>4, <3>3, <4>1
      <4>3. is_inner(C[b].nodes[h]) BY <1>4, <1>5
      <4>4. Above(C, n, i, b) BY <4>2, <4>3 DEF Above
      <4> QED BY <1>2, <4>4, Zenon
    <3> QED BY <3>1, <3>2, <3>3
  <2>4. ASSUME NEW d \in 1..Len(C), NEW i \in 1..Len(C[d].path)
        PROVE  \E c \in 1..Len(C) : Above(C, d, i, c)
    <3>1. CASE d = n BY <1>4, <2>3, <3>1
    <3>2. CASE d \in 1..Len(A) BY <1>4, <2>2, <3>2
    <3> QED BY <1>2, <1>4, <3>1, <3>2
  <2> QED BY <2>4, Zenon DEF Rooted
<1>13. RootsOf(C, R)
  <2>1. \A m \in Maps : R[m] # NULL => A[R[m]].map = m /\ A[R[m]].path = <<>>
    BY <1>1, Zenon DEF RootsOf
  <2>2. \A m \in Maps : R[m] # NULL => C[R[m]].map = m /\ C[R[m]].path = <<>>
    BY <1>2, <1>4, <2>1
  <2>3. ASSUME NEW d \in 1..n, C[d].path = <<>> PROVE R[C[d].map] = d
    <3>1. d \in 1..Len(A) BY <1>2, <1>3, <1>4, <2>3
    <3> QED BY <1>1, <1>4, <2>3, <3>1 DEF RootsOf
  <2> QED BY <1>4, <2>2, <2>3, Zenon DEF RootsOf
<1>14. OnPaths(C)
  <2>1. ASSUME NEW d \in 1..n, NEW e \in Bytes, is_leaf(C[d].nodes[e])
        PROVE  OnPath(C[d].nodes[e].key, Append(C[d].path, e))
    <3>1. CASE d = n
      <4>1. e = g BY <1>4, <1>5, <2>1, <3>1, Zenon
      <4>2. C[d].nodes[e] = x /\ C[d].path = p BY <1>4, <3>1, <4>1, Zenon
      <4> QED BY <4>1, <4>2 DEF p, x
    <3>2. CASE d \in 1..Len(A)
      <4>1. d # b \/ e # h BY <1>4, <1>5, <2>1, Zenon
      <4>2. C[d].nodes[e] = A[d].nodes[e] /\ C[d].path = A[d].path
        BY <1>4, <3>2, <4>1, Zenon
      <4> QED BY <1>1, <2>1, <3>2, <4>2, Zenon DEF OnPaths
    <3> QED BY <1>2, <3>1, <3>2
  <2> QED BY <1>4, <2>1, Zenon DEF OnPaths
<1>15. Short(C)
  <2>1. Len(p) < MaxDepth BY <1>3
  <2>2. \A d \in 1..n : Len(C[d].path) < MaxDepth
    BY <1>1, <1>2, <1>4, <2>1 DEF Short
  <2> QED BY <1>4, <2>2, Zenon DEF Short
<1> QED BY <1>2, <1>4, <1>10, <1>11, <1>12, <1>13, <1>14, <1>15, Zenon DEF Trie

-----------------------------------------------------------------------------
(***************************************************************************)
(* The entries held: only the entry placed is new.                         *)
(***************************************************************************)
Holds(A, m, k, v) == \E b \in 1..Len(A), h \in Bytes :
                        A[b].map = m /\ A[b].nodes[h] = Leaf(k, v)

LEMMA RootAddedHolds ==
    ASSUME NEW A, Typed(A), NEW m, NEW C, RootAdded(A, m, C)
    PROVE  \A o, k, v : Holds(C, o, k, v) <=> Holds(A, o, k, v)
<1>1. /\ 1..Len(A) \subseteq 1..Len(C) /\ Len(A) \in Nat
      /\ \A b \in 1..Len(C) : b \in 1..Len(A) \/ b = Len(C)
  BY DEF Typed, RootAdded
<1>2. \A k, v : Fresh # Leaf(k, v) BY NodePredicates, Zenon
<1>3. ASSUME NEW o, NEW k, NEW v, Holds(C, o, k, v) PROVE Holds(A, o, k, v)
  <2>1. PICK b \in 1..Len(C), h \in Bytes : C[b].map = o /\ C[b].nodes[h] = Leaf(k, v)
    BY <1>3 DEF Holds
  <2>2. b \in 1..Len(A) BY <1>1, <1>2, <2>1, Zenon DEF RootAdded
  <2>3. C[b] = A[b] BY <2>2 DEF RootAdded
  <2> QED BY <2>1, <2>2, <2>3 DEF Holds
<1>4. ASSUME NEW o, NEW k, NEW v, Holds(A, o, k, v) PROVE Holds(C, o, k, v)
  <2>1. PICK b \in 1..Len(A), h \in Bytes : A[b].map = o /\ A[b].nodes[h] = Leaf(k, v)
    BY <1>4 DEF Holds
  <2>2. C[b] = A[b] /\ b \in 1..Len(C) BY <1>1, <2>1 DEF RootAdded
  <2> QED BY <2>1, <2>2 DEF Holds
<1> QED BY <1>3, <1>4

LEMMA EntryPlacedHolds ==
    ASSUME NEW A, Typed(A), NEW b \in 1..Len(A), NEW h \in Bytes, A[b].nodes[h] = Fresh,
           NEW k, NEW v, NEW C, EntryPlaced(A, b, h, Leaf(k, v), C)
    PROVE  \A o, l, w : Holds(C, o, l, w) <=>
                           Holds(A, o, l, w) \/ (o = A[b].map /\ l = k /\ w = v)
<1>1. /\ Len(C) = Len(A)
      /\ \A d \in 1..Len(A) : C[d].map = A[d].map
      /\ \A d \in 1..Len(A), g \in Bytes : d # b \/ g # h => C[d].nodes[g] = A[d].nodes[g]
      /\ C[b].nodes[h] = Leaf(k, v)
  BY Zenon DEF EntryPlaced, SameNodesBut
<1>2. \A l, w : Fresh # Leaf(l, w) BY NodePredicates, Zenon
<1>3. \A l, w : Leaf(l, w) = Leaf(k, v) => l = k /\ w = v BY LeafInjective, Zenon
<1>4. ASSUME NEW o, NEW l, NEW w, Holds(C, o, l, w)
      PROVE  Holds(A, o, l, w) \/ (o = A[b].map /\ l = k /\ w = v)
  <2>1. PICK d \in 1..Len(A), g \in Bytes : C[d].map = o /\ C[d].nodes[g] = Leaf(l, w)
    BY <1>1, <1>4 DEF Holds
  <2>2. CASE d = b /\ g = h BY <1>1, <1>3, <2>1, <2>2
  <2>3. CASE d # b \/ g # h
    <3>1. A[d].map = o /\ A[d].nodes[g] = Leaf(l, w) BY <1>1, <2>1, <2>3
    <3> QED BY <3>1 DEF Holds
  <2> QED BY <2>2, <2>3
<1>5. ASSUME NEW o, NEW l, NEW w, Holds(A, o, l, w) PROVE Holds(C, o, l, w)
  <2>1. PICK d \in 1..Len(A), g \in Bytes : A[d].map = o /\ A[d].nodes[g] = Leaf(l, w)
    BY <1>5 DEF Holds
  <2>2. C[d].map = o /\ C[d].nodes[g] = Leaf(l, w)
    <3>1. d # b \/ g # h BY <1>2, <2>1
    <3> QED BY <1>1, <2>1, <3>1
  <2> QED BY <1>1, <2>2 DEF Holds
<1>6. Holds(C, A[b].map, k, v) BY <1>1, Zenon DEF Holds
<1> QED BY <1>4, <1>5, <1>6

LEMMA NodeSplitHolds ==
    ASSUME NEW A, Typed(A), NEW b \in 1..Len(A), NEW h \in Bytes, NEW g \in Bytes,
           NEW C, NodeSplit(A, b, h, g, C)
    PROVE  \A o, k, v : Holds(C, o, k, v) <=> Holds(A, o, k, v)
<1> DEFINE n == Len(A) + 1
<1>1. /\ Len(C) = n /\ n \in 1..n /\ 1..Len(A) \subseteq 1..n
      /\ \A d \in 1..n : d \in 1..Len(A) \/ d = n
  BY DEF Typed, NodeSplit
<1>2. /\ \A d \in 1..Len(A) : C[d].map = A[d].map
      /\ \A d \in 1..Len(A), e \in Bytes : d # b \/ e # h => C[d].nodes[e] = A[d].nodes[e]
      /\ C[b].nodes[h] = Inner(n) /\ C[n].map = A[b].map
      /\ C[n].nodes[g] = A[b].nodes[h] /\ \A e \in Bytes : e # g => C[n].nodes[e] = Fresh
  BY Zenon DEF NodeSplit, SameNodesBut
<1> HIDE DEF n
<1>3. \A k, v : Fresh # Leaf(k, v) /\ Inner(n) # Leaf(k, v) BY NodePredicates, Zenon
<1>4. ASSUME NEW o, NEW k, NEW v, Holds(C, o, k, v) PROVE Holds(A, o, k, v)
  <2>1. PICK d \in 1..n, e \in Bytes : C[d].map = o /\ C[d].nodes[e] = Leaf(k, v)
    BY <1>1, <1>4 DEF Holds
  <2>2. CASE d = n
    <3>1. e = g /\ A[b].map = o /\ A[b].nodes[h] = Leaf(k, v) BY <1>2, <1>3, <2>1, <2>2
    <3> QED BY <3>1 DEF Holds
  <2>3. CASE d \in 1..Len(A)
    <3>1. d # b \/ e # h BY <1>2, <1>3, <2>1
    <3>2. A[d].map = o /\ A[d].nodes[e] = Leaf(k, v) BY <1>2, <2>1, <2>3, <3>1
    <3> QED BY <2>3, <3>2 DEF Holds
  <2> QED BY <1>1, <2>2, <2>3
<1>5. ASSUME NEW o, NEW k, NEW v, Holds(A, o, k, v) PROVE Holds(C, o, k, v)
  <2>1. PICK d \in 1..Len(A), e \in Bytes : A[d].map = o /\ A[d].nodes[e] = Leaf(k, v)
    BY <1>5 DEF Holds
  <2>2. CASE d = b /\ e = h
    <3>1. C[n].map = o /\ C[n].nodes[g] = Leaf(k, v) BY <1>2, <2>1, <2>2
    <3> QED BY <1>1, <3>1 DEF Holds
  <2>3. CASE d # b \/ e # h
    <3>1. C[d].map = o /\ C[d].nodes[e] = Leaf(k, v) BY <1>2, <2>1, <2>3
    <3> QED BY <1>1, <3>1, Zenon DEF Holds
  <2> QED BY <2>2, <2>3
<1> QED BY <1>4, <1>5

-----------------------------------------------------------------------------
(***************************************************************************)
(* Contents, as a function of the arena.                                   *)
(***************************************************************************)
HeldIn(A, m, k)   == {v \in Values : Holds(A, m, k, v)}
ValueIn(held)     == IF held = {} THEN NoValue ELSE CHOOSE v \in held : TRUE
ContentsIn(A)     == [m \in Maps |-> [k \in Keys |-> ValueIn(HeldIn(A, m, k))]]

LEMMA ContentsOfArena == Contents = ContentsIn(arena) /\ Contents' = ContentsIn(arena')
<1>1. Contents = ContentsIn(arena)
  <2> DEFINE Within(m, k) == {v \in Values : <<m, Leaf(k, v)>> \in Entries}
             Row(m) == [k \in Keys |-> ValueIn(Within(m, k))]
  <2>1. \A m, k, v : <<m, Leaf(k, v)>> \in Entries <=> Holds(arena, m, k, v)
    BY DEF Entries, Holds, Buckets, Entry
  <2>2. \A m, k : Within(m, k) = HeldIn(arena, m, k) BY <2>1 DEF HeldIn
  <2>3. Contents = [m \in Maps |-> Row(m)] BY Zenon DEF Contents, ValueIn
  <2> HIDE DEF Within
  <2>4. \A m \in Maps : Row(m) = [k \in Keys |-> ValueIn(HeldIn(arena, m, k))] BY <2>2
  <2> HIDE DEF Row
  <2> QED BY <2>3, <2>4 DEF ContentsIn
<1>2. Contents' = ContentsIn(arena')
  <2> DEFINE Within(m, k) == {v \in Values : <<m, Leaf(k, v)>> \in Entries'}
             Row(m) == [k \in Keys |-> ValueIn(Within(m, k))]
  <2>1. \A m, k, v : <<m, Leaf(k, v)>> \in Entries' <=> Holds(arena', m, k, v)
    BY DEF Entries, Holds, Buckets, Entry
  <2>2. \A m, k : Within(m, k) = HeldIn(arena', m, k) BY <2>1 DEF HeldIn
  <2>3. Contents' = [m \in Maps |-> Row(m)] BY Zenon DEF Contents, ValueIn
  <2> HIDE DEF Within
  <2>4. \A m \in Maps : Row(m) = [k \in Keys |-> ValueIn(HeldIn(arena', m, k))] BY <2>2
  <2> HIDE DEF Row
  <2> QED BY <2>3, <2>4 DEF ContentsIn
<1> QED BY <1>1, <1>2

LEMMA SameContents ==
    ASSUME NEW A, NEW C, \A m, k, v : Holds(C, m, k, v) <=> Holds(A, m, k, v)
    PROVE  ContentsIn(C) = ContentsIn(A)
<1>1. \A m, k : HeldIn(C, m, k) = HeldIn(A, m, k) BY DEF HeldIn
<1> QED BY <1>1, Zenon DEF ContentsIn

\* An entry is the only one of its key in its map.
LEMMA HeldOnce ==
    ASSUME NEW A, NEW R, Trie(A, R), NEW m, NEW k, NEW v, NEW w,
           Holds(A, m, k, v), Holds(A, m, k, w)
    PROVE  v = w
<1>1. PICK b \in 1..Len(A), h \in Bytes : A[b].map = m /\ A[b].nodes[h] = Leaf(k, v)
  BY DEF Holds
<1>2. PICK c \in 1..Len(A), g \in Bytes : A[c].map = m /\ A[c].nodes[g] = Leaf(k, w)
  BY DEF Holds
<1>3. /\ OnPath(k, Append(A[b].path, h)) /\ OnPath(k, Append(A[c].path, g))
      /\ ~ is_inner(A[b].nodes[h]) /\ ~ is_inner(A[c].nodes[g])
  <2>1. /\ is_leaf(A[b].nodes[h]) /\ A[b].nodes[h].key = k /\ ~ is_inner(A[b].nodes[h])
    BY <1>1, NodePredicates, NodeKinds
  <2>2. /\ is_leaf(A[c].nodes[g]) /\ A[c].nodes[g].key = k /\ ~ is_inner(A[c].nodes[g])
    BY <1>2, NodePredicates, NodeKinds
  <2> QED BY <2>1, <2>2 DEF Trie, OnPaths
<1>4. b = c /\ h = g BY <1>1, <1>2, <1>3, OnePlace, Zenon DEF Trie
<1>5. Leaf(k, v) = Leaf(k, w) BY <1>1, <1>2, <1>4
<1> QED BY <1>5, LeafInjective, Zenon

LEMMA ContentsHeld ==
    ASSUME NEW A, NEW R, Trie(A, R), NEW m \in Maps, NEW k \in Keys
    PROVE  /\ \A v \in Values : Holds(A, m, k, v) => ContentsIn(A)[m][k] = v
           /\ (\A v \in Values : ~ Holds(A, m, k, v)) => ContentsIn(A)[m][k] = NoValue
<1>1. ContentsIn(A)[m][k] = ValueIn(HeldIn(A, m, k)) BY DEF ContentsIn
<1>2. ASSUME NEW v \in Values, Holds(A, m, k, v) PROVE ContentsIn(A)[m][k] = v
  <2>1. HeldIn(A, m, k) = {v} BY <1>2, HeldOnce DEF HeldIn
  <2>2. ValueIn({v}) = v BY DEF ValueIn
  <2> QED BY <1>1, <2>1, <2>2
<1>3. ASSUME \A v \in Values : ~ Holds(A, m, k, v) PROVE ContentsIn(A)[m][k] = NoValue
  <2>1. HeldIn(A, m, k) = {} BY <1>3 DEF HeldIn
  <2> QED BY <1>1, <2>1 DEF ValueIn
<1> QED BY <1>2, <1>3

\* An entry placed for a key that the map does not hold
LEMMA PlacedContents ==
    ASSUME NEW A, NEW R, Trie(A, R), NEW C, Trie(C, R), NEW m \in Maps, NEW k \in Keys,
           NEW v \in Values, \A w \in Values : ~ Holds(A, m, k, w),
           \A o, l, w : Holds(C, o, l, w) <=> Holds(A, o, l, w) \/ (o = m /\ l = k /\ w = v)
    PROVE  ContentsIn(C) = [ContentsIn(A) EXCEPT ![m][k] = v]
<1> DEFINE F == [ContentsIn(A) EXCEPT ![m][k] = v]
<1>1. /\ \A o \in Maps, l \in Keys : ContentsIn(C)[o][l] = ValueIn(HeldIn(C, o, l))
      /\ \A o \in Maps, l \in Keys : ContentsIn(A)[o][l] = ValueIn(HeldIn(A, o, l))
  BY DEF ContentsIn
<1>2. \A o \in Maps, l \in Keys : o # m \/ l # k =>
         ContentsIn(C)[o][l] = ContentsIn(A)[o][l]
  <2>1. \A o, l : o # m \/ l # k => HeldIn(C, o, l) = HeldIn(A, o, l) BY DEF HeldIn
  <2> QED BY <1>1, <2>1
<1>3. ContentsIn(C)[m][k] = v BY ContentsHeld
<1>4. \A o \in Maps, l \in Keys : ContentsIn(C)[o][l] = F[o][l]
  BY <1>2, <1>3 DEF ContentsIn
<1>5. /\ ContentsIn(C) = [o \in Maps |-> [l \in Keys |-> ContentsIn(C)[o][l]]]
      /\ F = [o \in Maps |-> [l \in Keys |-> F[o][l]]]
  BY DEF ContentsIn
<1> HIDE DEF F
<1> DEFINE G == ContentsIn(C)
<1>6. \A o \in Maps : [l \in Keys |-> G[o][l]] = [l \in Keys |-> F[o][l]]
  <2> HIDE DEF G
  <2> QED BY <1>4 DEF G
<1>7. [o \in Maps |-> [l \in Keys |-> G[o][l]]] = [o \in Maps |-> [l \in Keys |-> F[o][l]]]
  <2> HIDE DEF G
  <2> QED BY <1>6
<1> QED BY <1>5, <1>7 DEF F

\* What a node on the path of a key says of the key
LEMMA HeldHere ==
    ASSUME NEW A, NEW R, Trie(A, R), NEW b \in 1..Len(A), NEW h \in Bytes, NEW k, NEW v,
           OnPath(k, Append(A[b].path, h)), ~ is_inner(A[b].nodes[h]),
           Holds(A, A[b].map, k, v)
    PROVE  A[b].nodes[h] = Leaf(k, v)
<1>1. PICK c \in 1..Len(A), g \in Bytes : A[c].map = A[b].map /\ A[c].nodes[g] = Leaf(k, v)
  BY DEF Holds
<1>2. is_leaf(A[c].nodes[g]) /\ A[c].nodes[g].key = k /\ ~ is_inner(A[c].nodes[g])
  BY <1>1, NodePredicates, NodeKinds
<1>3. OnPath(k, Append(A[c].path, g)) BY <1>2 DEF Trie, OnPaths
<1>4. b = c /\ h = g BY <1>1, <1>2, <1>3, OnePlace, Zenon DEF Trie
<1> QED BY <1>1, <1>4

-----------------------------------------------------------------------------
(***************************************************************************)
(* Where a call stands.                                                    *)
(***************************************************************************)
LEMMA FrameFields ==
    ASSUME NEW n, NEW c \in FramesOf(n)
    PROVE  /\ c.fn \in {"add", "get"} /\ c.map \in Maps /\ c.key \in Keys
           /\ c.depth \in 0..MaxDepth - 1 /\ c.bucket \in 1..n
           /\ c.fn = "add" => c.value \in Values
           /\ c # NoCall
<1>1. NoCall.fn = "none" BY DEF NoCall
<1>2. CASE c \in [fn : {"add"}, map : Maps, key : Keys, value : Values,
                  depth : 0..MaxDepth - 1, bucket : 1..n]
  BY <1>1, <1>2
<1>3. CASE c \in [fn : {"get"}, map : Maps, key : Keys, value : {NoValue},
                  depth : 0..MaxDepth - 1, bucket : 1..n]
  BY <1>1, <1>3
<1> QED BY <1>2, <1>3 DEF FramesOf

Moved(c, b) == [c EXCEPT !.depth = @ + 1, !.bucket = b]

LEMMA FrameMoved ==
    ASSUME NEW n, NEW c \in FramesOf(n), NEW b \in 1..n, c.depth + 1 < MaxDepth,
           NEW d, d = Moved(c, b)
    PROVE  /\ d \in FramesOf(n) /\ d.fn = c.fn /\ d.map = c.map /\ d.key = c.key
           /\ d.depth = c.depth + 1 /\ d.bucket = b
<1>1. c.depth + 1 \in 0..MaxDepth - 1
  <2>1. c.depth \in 0..MaxDepth - 1 BY FrameFields
  <2> QED BY <2>1, TrieBounds
<1>2. CASE c \in [fn : {"add"}, map : Maps, key : Keys, value : Values,
                  depth : 0..MaxDepth - 1, bucket : 1..n]
  BY <1>1, <1>2 DEF FramesOf, Moved
<1>3. CASE c \in [fn : {"get"}, map : Maps, key : Keys, value : {NoValue},
                  depth : 0..MaxDepth - 1, bucket : 1..n]
  BY <1>1, <1>3 DEF FramesOf, Moved
<1> QED BY <1>2, <1>3 DEF FramesOf

LEMMA AtPlace ==
    ASSUME NEW A, NEW R, Trie(A, R), NEW c \in FramesOf(Len(A)), Stands(A, c),
           NEW h, h = hpart(c.key, c.depth)
    PROVE  /\ h \in Bytes /\ c.bucket \in 1..Len(A)
           /\ A[c.bucket].nodes[h] \in NodesOf(Len(A))
           /\ A[c.bucket].map = c.map /\ A[c.bucket].path \in Seq(Bytes)
           /\ Len(A[c.bucket].path) = c.depth
           /\ OnPath(c.key, Append(A[c.bucket].path, h))
<1>1. /\ c.key \in Keys /\ c.depth \in 0..MaxDepth - 1 /\ c.bucket \in 1..Len(A)
      /\ c # NoCall
  BY FrameFields
<1>2. h \in Bytes BY <1>1, HashBytes DEF hpart
<1>3. /\ A[c.bucket].map = c.map /\ Len(A[c.bucket].path) = c.depth
      /\ OnPath(c.key, A[c.bucket].path)
  BY <1>1 DEF Stands
<1>4. /\ A[c.bucket].path \in Seq(Bytes) /\ A[c.bucket].nodes[h] \in NodesOf(Len(A))
  BY <1>1, <1>2, BucketFields DEF Trie
<1>5. OnPath(c.key, Append(A[c.bucket].path, h))
  BY <1>2, <1>3, <1>4, OnPathAppended DEF hpart
<1> QED BY <1>1, <1>2, <1>3, <1>4, <1>5

\* An inner node leads to a bucket where the call stands one level deeper: the
\* recursion never reaches assert(depth < 8) by descending.
LEMMA Descends ==
    ASSUME NEW A, NEW R, Trie(A, R), NEW c \in FramesOf(Len(A)), Stands(A, c),
           NEW x, x = A[c.bucket].nodes[hpart(c.key, c.depth)], is_inner(x),
           NEW d, d = Moved(c, x.buckets)
    PROVE  c.depth + 1 < MaxDepth /\ d \in FramesOf(Len(A)) /\ Stands(A, d)
<1> DEFINE h == hpart(c.key, c.depth)
           b == c.bucket
<1>1. /\ h \in Bytes /\ b \in 1..Len(A) /\ x \in NodesOf(Len(A))
      /\ A[b].map = c.map /\ A[b].path \in Seq(Bytes) /\ Len(A[b].path) = c.depth
      /\ OnPath(c.key, Append(A[b].path, h)) /\ x = A[b].nodes[h]
  BY AtPlace
<1> HIDE DEF h, b
<1>2. x.buckets \in 1..Len(A) BY <1>1, NodeOfKind
<1>3. A[x.buckets].map = A[b].map /\ A[x.buckets].path = Append(A[b].path, h)
  BY <1>1 DEF Trie, Linked
<1>4. Len(Append(A[b].path, h)) = c.depth + 1 BY <1>1, Appended
<1>5. c.depth + 1 < MaxDepth BY <1>2, <1>3, <1>4 DEF Trie, Short
<1>6. /\ d \in FramesOf(Len(A)) /\ d.map = c.map /\ d.key = c.key
      /\ d.depth = c.depth + 1 /\ d.bucket = x.buckets
  <2> DEFINE y == x.buckets
  <2>1. y \in 1..Len(A) /\ d = Moved(c, y) BY <1>2
  <2> HIDE DEF y
  <2>2. /\ d \in FramesOf(Len(A)) /\ d.map = c.map /\ d.key = c.key
        /\ d.depth = c.depth + 1 /\ d.bucket = y
    BY <1>5, <2>1, FrameMoved
  <2> QED BY <2>2 DEF y
<1>7. Stands(A, d) BY <1>1, <1>3, <1>4, <1>6 DEF Stands
<1> QED BY <1>5, <1>6, <1>7

LEMMA DescendsSplit ==
    ASSUME NEW A, NEW R, Trie(A, R), NEW c \in FramesOf(Len(A)), Stands(A, c),
           c.depth + 1 < MaxDepth, NEW g, NEW C,
           NodeSplit(A, c.bucket, hpart(c.key, c.depth), g, C),
           NEW d, d = Moved(c, Len(A) + 1)
    PROVE  d \in FramesOf(Len(C)) /\ Stands(C, d)
<1> DEFINE h == hpart(c.key, c.depth)
           b == c.bucket
           n == Len(A) + 1
<1>1. /\ h \in Bytes /\ A[b].map = c.map /\ A[b].path \in Seq(Bytes)
      /\ Len(A[b].path) = c.depth /\ OnPath(c.key, Append(A[b].path, h))
  BY AtPlace
<1>2. Len(C) = n /\ C[n].map = A[b].map /\ C[n].path = Append(A[b].path, h)
  BY DEF NodeSplit
<1>3. Len(Append(A[b].path, h)) = c.depth + 1 BY <1>1, Appended
<1>4. Len(A) \in Nat BY DEF Trie, Typed
<1>5. c \in FramesOf(n) /\ n \in 1..n BY <1>4, NodesGrow
<1>6. /\ d \in FramesOf(n) /\ d.map = c.map /\ d.key = c.key
      /\ d.depth = c.depth + 1 /\ d.bucket = n
  BY <1>5, FrameMoved DEF n
<1> HIDE DEF h, b, n
<1>7. Stands(C, d) BY <1>1, <1>2, <1>3, <1>6 DEF Stands
<1> QED BY <1>2, <1>6, <1>7

\* Two keys on a path of MaxDepth bytes have the same hash.
LEMMA SameHash ==
    ASSUME NEW p \in Seq(Bytes), Len(p) = MaxDepth, NEW k \in Keys, NEW l \in Keys,
           OnPath(k, p), OnPath(l, p)
    PROVE  hash[k] = hash[l]
<1>1. \A d \in 0..MaxDepth - 1 : hash[k][d] = hash[l][d]
  <2> SUFFICES ASSUME NEW d \in 0..MaxDepth - 1 PROVE hash[k][d] = hash[l][d]
    OBVIOUS
  <2>1. d + 1 \in 1..Len(p) /\ d + 1 - 1 = d BY TrieBounds
  <2>2. p[d + 1] = hash[k][d + 1 - 1] /\ p[d + 1] = hash[l][d + 1 - 1] BY <2>1 DEF OnPath
  <2> QED BY <2>1, <2>2
<1>2. hash[k] \in [0..MaxDepth - 1 -> Bytes] /\ hash[l] \in [0..MaxDepth - 1 -> Bytes]
  BY TrieBounds
<1> QED BY <1>1, <1>2

-----------------------------------------------------------------------------
(***************************************************************************)
(* The inductive invariant.  Forest alone is not: that a call stands on    *)
(* its key's path, in a bucket not too deep, is what keeps it.             *)
(***************************************************************************)
Faults == {NoFault, "Arena reached max capacity", "depth < 8", "Attempt to add duplicate key"}

IInv == /\ Trie(arena, roots) /\ Len(arena) <= MaxBuckets
        /\ call \in {NoCall} \cup FramesOf(Len(arena)) /\ Stands(arena, call)
        /\ found \in Values \cup {NoValue} /\ fault \in Faults
        /\ RefusesOnlyCollisions

\* The byte a call has come to, after those that lead to its bucket
byte == hpart(call.key, call.depth)
walk == arena[call.bucket].path

LEMMA Calling ==
    ASSUME IInv, NEW f \in {"add", "get"}, At(f)
    PROVE  /\ call \in FramesOf(Len(arena)) /\ call.fn = f /\ fault = NoFault
           /\ byte \in Bytes /\ call.bucket \in 1..Len(arena)
           /\ node \in NodesOf(Len(arena)) /\ node = arena[call.bucket].nodes[byte]
           /\ arena[call.bucket].map = call.map /\ walk \in Seq(Bytes)
           /\ Len(walk) = call.depth
           /\ OnPath(call.key, Append(walk, byte))
           /\ call.map \in Maps /\ call.key \in Keys /\ call.depth \in 0..MaxDepth - 1
<1>1. call \in FramesOf(Len(arena)) /\ fault = NoFault /\ call.fn = f
  <2>1. NoCall.fn = "none" BY DEF NoCall
  <2> QED BY <2>1 DEF IInv, At
<1>2. Trie(arena, roots) /\ Stands(arena, call) BY DEF IInv
<1>3. /\ byte \in Bytes /\ call.bucket \in 1..Len(arena)
      /\ arena[call.bucket].nodes[byte] \in NodesOf(Len(arena))
      /\ arena[call.bucket].map = call.map /\ walk \in Seq(Bytes)
      /\ Len(walk) = call.depth /\ OnPath(call.key, Append(walk, byte))
  BY <1>1, <1>2, AtPlace DEF walk, byte
<1>4. node = arena[call.bucket].nodes[byte] BY DEF node, byte
<1>5. call.map \in Maps /\ call.key \in Keys /\ call.depth \in 0..MaxDepth - 1
  BY <1>1, FrameFields
<1> QED BY <1>1, <1>3, <1>4, <1>5

\* An entry where the call stands is held by its map.
LEMMA NodeHeld ==
    ASSUME IInv, NEW f \in {"add", "get"}, At(f), is_leaf(node)
    PROVE  /\ node.key \in Keys /\ node.value \in Values /\ node = Leaf(node.key, node.value)
           /\ Contents[call.map][node.key] = node.value
           /\ OnPath(node.key, Append(walk, byte))
<1>1. /\ call.bucket \in 1..Len(arena) /\ byte \in Bytes /\ node \in NodesOf(Len(arena))
      /\ node = arena[call.bucket].nodes[byte] /\ arena[call.bucket].map = call.map
      /\ call.map \in Maps
  BY Calling
<1>2. node = Leaf(node.key, node.value) /\ node.key \in Keys /\ node.value \in Values
  BY <1>1, NodeOfKind
<1>3. Trie(arena, roots) BY DEF IInv
<1>4. Holds(arena, call.map, node.key, node.value) BY <1>1, <1>2 DEF Holds
<1>5. ContentsIn(arena)[call.map][node.key] = node.value
  BY <1>1, <1>2, <1>3, <1>4, ContentsHeld
<1>6. OnPath(node.key, Append(walk, byte)) BY <1>1, <1>3 DEF Trie, OnPaths, walk
<1> QED BY <1>2, <1>5, <1>6, ContentsOfArena

\* A key that is not where the call stands is not in the map.
LEMMA NotHeld ==
    ASSUME IInv, NEW f \in {"add", "get"}, At(f), ~ is_inner(node),
           ~ (is_leaf(node) /\ node.key = call.key)
    PROVE  /\ \A v \in Values : ~ Holds(arena, call.map, call.key, v)
           /\ Contents[call.map][call.key] = NoValue
<1>1. /\ call.bucket \in 1..Len(arena) /\ byte \in Bytes
      /\ node = arena[call.bucket].nodes[byte] /\ arena[call.bucket].map = call.map
      /\ call.map \in Maps /\ call.key \in Keys /\ OnPath(call.key, Append(walk, byte))
  BY Calling
<1>2. Trie(arena, roots) BY DEF IInv
<1>3. ASSUME NEW v \in Values, Holds(arena, call.map, call.key, v) PROVE FALSE
  <2>1. node = Leaf(call.key, v) BY <1>1, <1>2, <1>3, HeldHere DEF walk
  <2> QED BY <2>1, NodePredicates, NodeKinds
<1>4. ContentsIn(arena)[call.map][call.key] = NoValue BY <1>1, <1>2, <1>3, ContentsHeld
<1> QED BY <1>3, <1>4, ContentsOfArena

-----------------------------------------------------------------------------
(***************************************************************************)
(* What the actions do to the arena.                                       *)
(***************************************************************************)
LEMMA NewMapAdds ==
    ASSUME IInv, NEW m \in Maps, NewMap(m), HasRoom
    PROVE  /\ RootAdded(arena, m, arena') /\ Trie(arena', roots') /\ Contents' = Contents
<1>1. Trie(arena, roots) /\ Typed(arena) BY DEF IInv, Trie
<1>2. /\ arena' = Append(arena, Bucket(m, <<>>)) /\ roots[m] = NULL
      /\ roots' = [roots EXCEPT ![m] = Len(arena) + 1]
  BY DEF NewMap
<1>3. RootAdded(arena, m, arena') BY <1>1, <1>2, AddingRoot
<1>4. Trie(arena', roots') BY <1>1, <1>2, <1>3, RootAddedTrie
<1>5. ContentsIn(arena') = ContentsIn(arena) BY <1>1, <1>3, RootAddedHolds, SameContents
<1> QED BY <1>3, <1>4, <1>5, ContentsOfArena

LEMMA AddLeafPlaces ==
    ASSUME IInv, AddLeaf
    PROVE  /\ Len(arena') = Len(arena) /\ Trie(arena', roots)
           /\ call.map \in Maps /\ call.key \in Keys /\ call.value \in Values
           /\ Contents[call.map][call.key] = NoValue
           /\ Contents' = [Contents EXCEPT ![call.map][call.key] = call.value]
<1> DEFINE b == call.bucket
           x == Leaf(call.key, call.value)
<1>1. At("add") /\ ~ node.is_init /\ arena' = SetNode(arena, b, byte, x)
  BY DEF AddLeaf, Set, SetNode, byte
<1>2. /\ b \in 1..Len(arena) /\ byte \in Bytes /\ node \in NodesOf(Len(arena))
      /\ node = arena[b].nodes[byte] /\ arena[b].map = call.map
      /\ call.map \in Maps /\ call.key \in Keys /\ call.fn = "add"
      /\ OnPath(call.key, Append(arena[b].path, byte)) /\ call \in FramesOf(Len(arena))
  BY <1>1, Calling DEF walk
<1>3. call.value \in Values BY <1>2, FrameFields
<1>4. Trie(arena, roots) /\ Typed(arena) /\ arena \in Seq(BucketsOf(Len(arena)))
  BY DEF IInv, Trie, Typed
<1>5. arena[b].nodes[byte] = Fresh BY <1>1, <1>2, NodeOfKind
<1>6. x \in NodesOf(Len(arena)) BY <1>2, <1>3 DEF NodesOf
<1>7. EntryPlaced(arena, b, byte, x, arena')
  <2>1. /\ arena' \in Seq(BucketsOf(Len(arena))) /\ Len(arena') = Len(arena)
        /\ SameNodesBut(arena, b, byte, arena') /\ arena'[b].nodes[byte] = x
    <3> HIDE DEF b, x
    <3> QED BY <1>1, <1>2, <1>4, <1>6, SettingNode
  <2> QED BY <2>1 DEF EntryPlaced, Typed
<1>8. Trie(arena', roots) BY <1>2, <1>3, <1>4, <1>5, <1>7, EntryPlacedTrie
<1>9. \A o, l, w : Holds(arena', o, l, w) <=>
         Holds(arena, o, l, w) \/ (o = call.map /\ l = call.key /\ w = call.value)
  BY <1>2, <1>4, <1>5, <1>7, EntryPlacedHolds
<1>10. /\ \A v \in Values : ~ Holds(arena, call.map, call.key, v)
       /\ Contents[call.map][call.key] = NoValue
  BY <1>1, <1>2, <1>5, NodePredicates, NotHeld
<1>11. ContentsIn(arena') = [ContentsIn(arena) EXCEPT ![call.map][call.key] = call.value]
  BY <1>2, <1>3, <1>4, <1>8, <1>9, <1>10, PlacedContents
<1>12. Len(arena') = Len(arena) BY <1>7 DEF EntryPlaced
<1> QED BY <1>2, <1>3, <1>8, <1>10, <1>11, <1>12, ContentsOfArena

\* The entry is split off when its node and the next byte are within a hash.
LEMMA AddSplitSplits ==
    ASSUME IInv, At("add"), is_leaf(node), Split, call.depth + 1 < MaxDepth
    PROVE  /\ NodeSplit(arena, call.bucket, byte, hpart(node.key, call.depth + 1), arena')
           /\ Trie(arena', roots) /\ Contents' = Contents /\ call' = Moved(call, Len(arena) + 1)
           /\ UNCHANGED <<roots, found, fault>>
<1> DEFINE b == call.bucket
           g == hpart(node.key, call.depth + 1)
           new == Bucket(call.map, Append(walk, byte))
<1>1. /\ arena' = SetNode(Append(arena, [new EXCEPT !.nodes[g] = node]), b, byte,
                          Inner(Len(arena) + 1))
      /\ call' = Moved(call, Len(arena) + 1) /\ UNCHANGED <<roots, found, fault>>
  <2>1. call.depth \in 0..MaxDepth - 1 BY Calling
  <2>2. ~ (call.depth + 1 >= MaxDepth) BY <2>1, TrieBounds
  <2> QED BY <2>2, Zenon DEF Split, Deeper, SetNode, Moved, walk, byte
<1>2. /\ b \in 1..Len(arena) /\ byte \in Bytes
      /\ node = arena[b].nodes[byte] /\ arena[b].map = call.map
      /\ walk = arena[b].path /\ walk \in Seq(Bytes) /\ Len(walk) = call.depth
      /\ call.depth \in 0..MaxDepth - 1
  BY Calling DEF walk
<1>3. /\ node.key \in Keys /\ OnPath(node.key, Append(walk, byte)) BY NodeHeld
<1>4. Trie(arena, roots) /\ Typed(arena) BY DEF IInv, Trie
<1>5. g \in Bytes
  <2>1. call.depth + 1 \in 0..MaxDepth - 1 BY <1>2, TrieBounds
  <2> QED BY <1>3, <2>1, HashBytes DEF hpart
<1>6. OnPath(node.key, Append(Append(walk, byte), g))
  <2>1. Append(walk, byte) \in Seq(Bytes) /\ Len(Append(walk, byte)) = call.depth + 1
    BY <1>2, Appended
  <2> QED BY <1>3, <1>5, <2>1, OnPathAppended DEF hpart
<1> HIDE DEF b, g
<1>7. NodeSplit(arena, b, byte, g, arena')
  <2>1. new = Bucket(arena[b].map, Append(arena[b].path, byte)) BY <1>2
  <2>2. arena' = SetNode(Append(arena, [new EXCEPT !.nodes[g] = arena[b].nodes[byte]]), b, byte,
                         Inner(Len(arena) + 1))
    BY <1>1, <1>2
  <2> HIDE DEF new
  <2> QED BY <1>2, <1>4, <1>5, <2>1, <2>2, SplittingNode
<1>8. Trie(arena', roots) BY <1>2, <1>4, <1>5, <1>6, <1>7, NodeSplitTrie
<1>9. ContentsIn(arena') = ContentsIn(arena)
  BY <1>2, <1>4, <1>5, <1>7, NodeSplitHolds, SameContents
<1> QED BY <1>1, <1>7, <1>8, <1>9, ContentsOfArena DEF b, g

LEMMA Descending ==
    ASSUME IInv, NEW f \in {"add", "get"}, At(f), is_inner(node), Deeper(node.buckets, arena)
    PROVE  /\ call' \in FramesOf(Len(arena)) /\ Stands(arena, call')
           /\ UNCHANGED <<arena, roots, found, fault>>
<1>1. call \in FramesOf(Len(arena)) /\ call.depth \in 0..MaxDepth - 1 BY Calling
<1>2. Trie(arena, roots) /\ Stands(arena, call) BY DEF IInv
<1> DEFINE x == node
           d == Moved(call, x.buckets)
<1>3. x = arena[call.bucket].nodes[hpart(call.key, call.depth)] /\ is_inner(x) BY DEF node
<1> HIDE DEF x
<1>4. call.depth + 1 < MaxDepth /\ d \in FramesOf(Len(arena)) /\ Stands(arena, d)
  <2> HIDE DEF d
  <2>1. d = Moved(call, x.buckets) BY DEF d
  <2> QED BY <1>1, <1>2, <1>3, <2>1, Descends
<1>5. ~ (call.depth + 1 >= MaxDepth) BY <1>1, <1>4, TrieBounds
<1>6. call' = d /\ UNCHANGED <<arena, roots, found, fault>>
  BY <1>5, Zenon DEF Deeper, Moved, x
<1> QED BY <1>4, <1>6

-----------------------------------------------------------------------------
(***************************************************************************)
(* The invariant is inductive.                                             *)
(***************************************************************************)
LEMMA Quiet == ASSUME fault' = NoFault PROVE RefusesOnlyCollisions'
BY DEF RefusesOnlyCollisions, NoFault

LEMMA FailsKeeps ==
    ASSUME IInv, NEW why \in Faults, Fails(why), RefusesOnlyCollisions' PROVE IInv'
<1>1. arena' = arena /\ roots' = roots /\ call' = call /\ found' = found /\ fault' \in Faults
  BY DEF Fails
<1>2. /\ Trie(arena, roots) /\ Len(arena) <= MaxBuckets
      /\ call \in {NoCall} \cup FramesOf(Len(arena)) /\ Stands(arena, call)
      /\ found \in Values \cup {NoValue}
  BY DEF IInv
<1>3. /\ Trie(arena', roots') /\ Len(arena') <= MaxBuckets
      /\ call' \in {NoCall} \cup FramesOf(Len(arena')) /\ Stands(arena', call')
      /\ found' \in Values \cup {NoValue}
  BY <1>1, <1>2
<1> QED BY <1>1, <1>3, Zenon DEF IInv

LEMMA NoRoomKeeps == ASSUME IInv, Fails("Arena reached max capacity") PROVE IInv'
<1>1. RefusesOnlyCollisions' BY DEF Fails, RefusesOnlyCollisions
<1> QED BY <1>1, FailsKeeps DEF Faults

\* The arena and the roots change, and the call moves, without a failure.
LEMMA MovesKeep ==
    ASSUME IInv, Trie(arena', roots'), Len(arena') <= MaxBuckets,
           call' \in {NoCall} \cup FramesOf(Len(arena')), Stands(arena', call'),
           found' \in Values \cup {NoValue}, fault' = NoFault
    PROVE  IInv'
BY Quiet DEF IInv, Faults

LEMMA Deepest == \A d \in 0..MaxDepth - 1 : d + 1 >= MaxDepth => d + 1 = MaxDepth
BY TrieBounds

\* A failure of an add at a node: at the assertion about the depth, the key of
\* the node has the same hash.
LEMMA FailsAtNode ==
    ASSUME IInv, At("add"), is_leaf(node), NEW why, Fails(why),
           \/ why = "Attempt to add duplicate key" /\ node.key = call.key
           \/ why = "depth < 8" /\ node.key # call.key /\ call.depth + 1 >= MaxDepth
    PROVE  IInv' /\ Contents[call.map][node.key] # NoValue
<1>1. /\ call.map \in Maps /\ call.key \in Keys /\ walk \in Seq(Bytes) /\ byte \in Bytes
      /\ Len(walk) = call.depth /\ OnPath(call.key, Append(walk, byte))
      /\ call.fn = "add" /\ call.depth \in 0..MaxDepth - 1
  BY Calling
<1>2. /\ node.key \in Keys /\ OnPath(node.key, Append(walk, byte))
      /\ Contents[call.map][node.key] # NoValue
  BY NodeHeld, TrieBounds
<1>3. arena' = arena /\ roots' = roots /\ call' = call /\ found' = found /\ fault' = why
  BY DEF Fails
<1>4. Contents' = Contents BY <1>3, ContentsOfArena
<1>5. RefusesOnlyCollisions'
  <2> DEFINE held == {k \in Keys : Contents[call.map][k] # NoValue}
  <2>1. node.key \in held BY <1>2
  <2>2. CASE why = "Attempt to add duplicate key" /\ node.key = call.key
    BY <1>1, <1>3, <1>4, <2>1, <2>2 DEF RefusesOnlyCollisions
  <2>3. CASE why = "depth < 8" /\ node.key # call.key /\ call.depth + 1 >= MaxDepth
    <3>1. /\ Append(walk, byte) \in Seq(Bytes) /\ Len(Append(walk, byte)) = MaxDepth
      <4>1. Append(walk, byte) \in Seq(Bytes) /\ Len(Append(walk, byte)) = Len(walk) + 1
        BY <1>1, Appended
      <4>2. call.depth + 1 = MaxDepth BY <1>1, <2>3, Deepest, Zenon
      <4> QED BY <1>1, <4>1, <4>2
    <3>2. hash[node.key] = hash[call.key] BY <1>1, <1>2, <3>1, SameHash
    <3>3. \E k \in held \ {call.key} : hash[k] = hash[call.key] BY <2>1, <2>3, <3>2
    <3> QED BY <1>1, <1>3, <1>4, <2>3, <3>3 DEF RefusesOnlyCollisions
  <2> QED BY <2>2, <2>3
<1>6. why \in Faults BY DEF Faults
<1> QED BY <1>2, <1>5, <1>6, FailsKeeps

LEMMA InitKeeps == ASSUME Init PROVE IInv
<1>1. /\ arena = <<>> /\ roots = [m \in Maps |-> NULL] /\ call = NoCall
      /\ found = NoValue /\ fault = NoFault
  BY DEF Init
<1>2. Len(arena) = 0 /\ 1..Len(arena) = {} /\ Len(arena) <= MaxBuckets
  BY <1>1, TrieBounds
<1>3. Typed(arena) BY <1>1 DEF Typed
<1>4. roots \in [Maps -> 0..Len(arena)] /\ \A m \in Maps : roots[m] = NULL
  BY <1>1, <1>2 DEF NULL
<1>5. Trie(arena, roots)
  BY <1>2, <1>3, <1>4 DEF Trie, Unique, Linked, Rooted, RootsOf, OnPaths, Short
<1>6. Stands(arena, call) BY <1>1 DEF Stands
<1>7. RefusesOnlyCollisions BY <1>1 DEF RefusesOnlyCollisions, NoFault
<1> QED BY <1>1, <1>2, <1>5, <1>6, <1>7 DEF IInv, Faults

LEMMA ClientKeeps ==
    ASSUME IInv, NEW m \in Maps,
           \/ NewMap(m)
           \/ \E k \in Keys, v \in Values : Add(m, k, v)
           \/ \E k \in Keys : TryGet(m, k)
    PROVE  IInv'
<1>1. /\ Trie(arena, roots) /\ Typed(arena) /\ Len(arena) <= MaxBuckets /\ Len(arena) \in Nat
      /\ found \in Values \cup {NoValue}
  BY DEF IInv, Trie, Typed
<1>2. CASE NewMap(m) /\ ~ HasRoom BY <1>2, NoRoomKeeps DEF NewMap
<1>3. CASE NewMap(m) /\ HasRoom
  <2>1. Trie(arena', roots') BY <1>3, NewMapAdds
  <2>2. Len(arena') = Len(arena) + 1 BY <1>3, NewMapAdds DEF RootAdded
  <2>3. Len(arena') <= MaxBuckets BY <1>1, <1>3, <2>2, TrieBounds DEF HasRoom
  <2>4. call' = NoCall /\ found' = found /\ fault' = NoFault BY <1>3 DEF NewMap
  <2>5. Stands(arena', call') BY <2>4 DEF Stands
  <2> QED BY <1>1, <2>1, <2>3, <2>4, <2>5, MovesKeep
<1>4. ASSUME NEW f \in {"add", "get"}, NEW k \in Keys, NEW v, f = "add" => v \in Values,
             f = "get" => v = NoValue, roots[m] # NULL, fault = NoFault,
             call' = Frame(f, m, k, v), found' = NoValue, UNCHANGED <<arena, roots, fault>>
      PROVE  IInv'
  <2>1. roots[m] \in 1..Len(arena) BY <1>1, <1>4 DEF Trie, NULL
  <2>2. call' = [fn |-> f, map |-> m, key |-> k, value |-> v, depth |-> 0, bucket |-> roots[m]]
    BY <1>4 DEF Frame
  <2>3. 0 \in 0..MaxDepth - 1 BY TrieBounds
  <2>4. call' \in FramesOf(Len(arena))
    <3>1. CASE f = "add" BY <1>4, <2>1, <2>2, <2>3, <3>1 DEF FramesOf
    <3>2. CASE f = "get" BY <1>4, <2>1, <2>2, <2>3, <3>2 DEF FramesOf
    <3> QED BY <3>1, <3>2
  <2>5. arena[roots[m]].map = m /\ arena[roots[m]].path = <<>>
    BY <1>1, <1>4 DEF Trie, RootsOf
  <2>6. Stands(arena, call') BY <2>2, <2>5 DEF Stands, OnPath
  <2> QED BY <1>1, <1>4, <2>4, <2>6, MovesKeep
<1>5. ASSUME NEW k \in Keys, NEW v \in Values, Add(m, k, v) PROVE IInv'
  BY <1>4, <1>5 DEF Add
<1>6. ASSUME NEW k \in Keys, TryGet(m, k) PROVE IInv'
  BY <1>4, <1>6 DEF TryGet
<1> QED BY <1>2, <1>3, <1>5, <1>6

LEMMA RecursionKeeps == ASSUME IInv, Recursion PROVE IInv'
<1>1. /\ Trie(arena, roots) /\ Typed(arena) /\ Len(arena) <= MaxBuckets /\ Len(arena) \in Nat
      /\ found \in Values \cup {NoValue}
  BY DEF IInv, Trie, Typed
<1>2. CASE AddLeaf
  <2>1. Len(arena') = Len(arena) /\ Trie(arena', roots) BY <1>2, AddLeafPlaces
  <2>2. call' = NoCall /\ roots' = roots /\ found' = found /\ fault' = NoFault
    BY <1>2 DEF AddLeaf, At
  <2>3. Stands(arena', call') BY <2>2 DEF Stands
  <2> QED BY <1>1, <2>1, <2>2, <2>3, MovesKeep
<1>3. CASE AddDuplicate BY <1>3, FailsAtNode DEF AddDuplicate
<1>4. CASE AddSplit
  <2>1. At("add") /\ is_leaf(node) /\ node.key # call.key BY <1>4 DEF AddSplit
  <2>2. CASE ~ HasRoom BY <1>4, <2>2, NoRoomKeeps DEF AddSplit
  <2>3. CASE HasRoom /\ call.depth + 1 >= MaxDepth
    <3>1. Split BY <1>4, <2>3 DEF AddSplit
    <3>2. Fails("depth < 8") BY <2>3, <3>1 DEF Split, Deeper
    <3> QED BY <2>1, <2>3, <3>2, FailsAtNode
  <2>4. CASE HasRoom /\ ~ (call.depth + 1 >= MaxDepth)
    <3>1. Split BY <1>4, <2>4 DEF AddSplit
    <3>2. call \in FramesOf(Len(arena)) /\ call.depth \in 0..MaxDepth - 1 /\ fault = NoFault
      BY <2>1, Calling
    <3>3. call.depth + 1 < MaxDepth BY <2>4, <3>2, TrieBounds
    <3>4. /\ NodeSplit(arena, call.bucket, byte, hpart(node.key, call.depth + 1), arena')
          /\ Trie(arena', roots) /\ call' = Moved(call, Len(arena) + 1)
          /\ UNCHANGED <<roots, found, fault>>
      BY <2>1, <3>1, <3>3, AddSplitSplits
    <3>5. Len(arena') = Len(arena) + 1 BY <3>4 DEF NodeSplit
    <3>6. Len(arena') <= MaxBuckets BY <1>1, <2>4, <3>5, TrieBounds DEF HasRoom
    <3>7. call' \in FramesOf(Len(arena')) /\ Stands(arena', call')
      <4>1. Stands(arena, call) BY DEF IInv
      <4> QED BY <1>1, <3>2, <3>3, <3>4, <4>1, DescendsSplit DEF byte
    <3> QED BY <1>1, <3>2, <3>4, <3>6, <3>7, MovesKeep
  <2> QED BY <2>2, <2>3, <2>4
<1>5. ASSUME NEW f \in {"add", "get"}, At(f), is_inner(node), Deeper(node.buckets, arena)
      PROVE  IInv'
  <2>1. /\ call' \in FramesOf(Len(arena)) /\ Stands(arena, call')
        /\ UNCHANGED <<arena, roots, found, fault>>
    BY <1>5, Descending
  <2>2. fault = NoFault BY <1>5 DEF At
  <2> QED BY <1>1, <2>1, <2>2, MovesKeep
<1>6. CASE AddDescend BY <1>5, <1>6 DEF AddDescend
<1>7. CASE GetDescend BY <1>5, <1>7 DEF GetDescend
<1>8. ASSUME At("get"), call' = NoCall, UNCHANGED <<arena, roots, fault>>,
             found' \in Values \cup {NoValue}
      PROVE  IInv'
  <2>1. Stands(arena', call') BY <1>8 DEF Stands
  <2>2. fault' = NoFault BY <1>8 DEF At
  <2> QED BY <1>1, <1>8, <2>1, <2>2, MovesKeep
<1>9. CASE GetFound
  <2>1. node.value \in Values BY <1>9, NodeHeld DEF GetFound
  <2> QED BY <1>8, <1>9, <2>1 DEF GetFound
<1>10. CASE GetMissing BY <1>8, <1>10 DEF GetMissing
<1> QED BY <1>2, <1>3, <1>4, <1>6, <1>7, <1>9, <1>10 DEF Recursion

LEMMA NextKeeps == ASSUME IInv, [Next]_vars PROVE IInv'
<1>1. ASSUME UNCHANGED vars PROVE IInv'
  <2>1. /\ arena' = arena /\ roots' = roots /\ call' = call /\ found' = found
        /\ fault' = fault
    BY <1>1 DEF vars
  <2>2. Contents' = Contents BY <2>1, ContentsOfArena
  <2>3. RefusesOnlyCollisions' BY <2>1, <2>2 DEF IInv, RefusesOnlyCollisions
  <2> QED BY <2>1, <2>3 DEF IInv
<1>2. CASE Exited BY <1>1, <1>2 DEF Exited
<1> QED BY <1>1, <1>2, ClientKeeps, RecursionKeeps DEF Next

LEMMA Inductive == Spec => []IInv
<1>1. Init => IInv BY InitKeeps
<1>2. IInv /\ [Next]_vars => IInv' BY NextKeeps
<1> QED BY <1>1, <1>2, PTL DEF Spec

-----------------------------------------------------------------------------
(***************************************************************************)
(* The properties.                                                         *)
(***************************************************************************)
LEMMA Shared ==
    /\ Nodes = NodesOf(Len(arena)) /\ Frames = FramesOf(Len(arena))
    /\ [map : Maps, path : Seq(Bytes), nodes : [Bytes -> Nodes]] = BucketsOf(Len(arena))
<1>1. Nodes = NodesOf(Len(arena)) BY DEF Nodes, NodesOf, Buckets
<1>2. Frames = FramesOf(Len(arena)) BY Zenon DEF Frames, FramesOf, Buckets
<1> QED BY <1>1, <1>2, Zenon DEF BucketsOf

\* Every bucket, node and call frame is of its kind and points into the arena,
\* which never takes more buckets than it has room for.
THEOREM TrieTypeCorrect == Spec => []TypeOK
<1>1. ASSUME IInv PROVE TypeOK
  <2>1. /\ Trie(arena, roots) /\ Len(arena) <= MaxBuckets
        /\ call \in {NoCall} \cup FramesOf(Len(arena))
        /\ found \in Values \cup {NoValue} /\ fault \in Faults
    BY <1>1 DEF IInv
  <2>2. /\ arena \in Seq(BucketsOf(Len(arena))) /\ roots \in [Maps -> 0..Len(arena)]
    BY <2>1 DEF Trie, Typed
  <2>3. fault \in {NoFault, "Arena reached max capacity", "depth < 8",
                   "Attempt to add duplicate key"}
    BY <2>1 DEF Faults
  <2>4. arena \in Seq([map : Maps, path : Seq(Bytes), nodes : [Bytes -> Nodes]])
    BY <2>2, Shared, Zenon
  <2>5. call \in {NoCall} \cup Frames BY <2>1, Shared, Zenon
  <2> QED BY <2>1, <2>2, <2>3, <2>4, <2>5, Zenon DEF TypeOK
<1>2. IInv => TypeOK BY <1>1
<1> QED BY <1>2, Inductive, PTL

\* However the maps of an arena grow and split, their buckets stay one tree
\* for each map, none shared and none lost, with every entry on the path of
\* its key's hash.
THEOREM ForestKept == Spec => []Forest
<1>1. ASSUME IInv PROVE Forest
  <2>1. Unique(arena) /\ Linked(arena) /\ Rooted(arena) /\ RootsOf(arena, roots) /\ OnPaths(arena)
    BY <1>1 DEF IInv, Trie
  <2>2. \A b, c \in Buckets : arena[b].map = arena[c].map /\ arena[b].path = arena[c].path
           => b = c
    BY <2>1, Zenon DEF Unique, Buckets
  <2>3. \A b \in Buckets, h \in Bytes : is_inner(Entry(b, h)) =>
           LET c == Entry(b, h).buckets
           IN  arena[c].map = arena[b].map /\ arena[c].path = Append(arena[b].path, h)
    BY <2>1, Zenon DEF Linked, Buckets, Entry
  <2>4. \A b \in Buckets : \A i \in 1..Len(arena[b].path) : \E c \in Buckets :
           /\ arena[c].map = arena[b].map /\ arena[c].path = SubSeq(arena[b].path, 1, i - 1)
           /\ is_inner(Entry(c, arena[b].path[i]))
    BY <2>1, Zenon DEF Rooted, Above, Buckets, Entry
  <2>5. \A m \in Maps : roots[m] # NULL =>
           arena[roots[m]].map = m /\ arena[roots[m]].path = <<>>
    BY <2>1, Zenon DEF RootsOf
  <2>6. EntriesOnPath BY <2>1, Zenon DEF OnPaths, EntriesOnPath, Buckets, Entry
  <2> QED BY <2>2, <2>3, <2>4, <2>5, <2>6, Zenon DEF Forest, OnePathEach
<1>2. IInv => Forest BY <1>1
<1> QED BY <1>2, Inductive, PTL

\* Lookups never stop the process; an add does so for want of room, for a key
\* its map holds, or because a key of its map has the same hash in every byte.
THEOREM RefusalsCorrect == Spec => []RefusesOnlyCollisions
<1>1. IInv => RefusesOnlyCollisions BY DEF IInv
<1> QED BY <1>1, Inductive, PTL

-----------------------------------------------------------------------------
(***************************************************************************)
(* The trie implements a partial function for each map.                    *)
(***************************************************************************)
Stopped == CASE fault = NoFault -> "no"
             [] fault = "Attempt to add duplicate key" -> "duplicate"
             [] OTHER -> "no room"

LEMMA StoppedAs ==
    /\ fault = NoFault => Stopped = "no"
    /\ fault = "Attempt to add duplicate key" => Stopped = "duplicate"
    /\ fault \in {"Arena reached max capacity", "depth < 8"} => Stopped = "no room"
BY DEF Stopped, NoFault

LEMMA StoppedNext ==
    /\ fault' = NoFault => Stopped' = "no"
    /\ fault' = "Attempt to add duplicate key" => Stopped' = "duplicate"
    /\ fault' \in {"Arena reached max capacity", "depth < 8"} => Stopped' = "no room"
BY DEF Stopped, NoFault

LEMMA RefinedInit == ASSUME Init PROVE P!Init
<1>1. arena = <<>> /\ found = NoValue /\ fault = NoFault BY DEF Init
<1>2. \A m, k, v : ~ Holds(arena, m, k, v) BY <1>1 DEF Holds
<1>3. \A m, k : HeldIn(arena, m, k) = {} BY <1>2 DEF HeldIn
<1>4. \A m, k : ValueIn(HeldIn(arena, m, k)) = NoValue BY <1>3 DEF ValueIn
<1>5. ContentsIn(arena) = [m \in Maps |-> [k \in Keys |-> NoValue]]
  <2> DEFINE Row(m) == [k \in Keys |-> ValueIn(HeldIn(arena, m, k))]
  <2>1. \A m \in Maps : Row(m) = [k \in Keys |-> NoValue] BY <1>4
  <2>2. ContentsIn(arena) = [m \in Maps |-> Row(m)] BY Zenon DEF ContentsIn
  <2> HIDE DEF Row
  <2> QED BY <2>1, <2>2
<1>6. Stopped = "no" BY <1>1, StoppedAs
<1> QED BY <1>1, <1>5, <1>6, ContentsOfArena DEF P!Init, Stopped

\* A step that fails at an add, or for want of room
LEMMA RefinedFailure ==
    ASSUME fault = NoFault, UNCHANGED <<arena, found>>,
           \/ fault' \in {"Arena reached max capacity", "depth < 8"}
           \/ /\ fault' = "Attempt to add duplicate key"
              /\ \E m \in Maps, k \in Keys : Contents[m][k] # NoValue
    PROVE  P!Next
<1>1. Contents' = Contents BY ContentsOfArena
<1>2. Stopped = "no" BY StoppedAs
<1>3. CASE fault' \in {"Arena reached max capacity", "depth < 8"}
  <2>1. Stopped' = "no room" BY <1>3, StoppedNext
  <2> QED BY <1>1, <1>2, <2>1 DEF P!Next, P!RunOut, Stopped
<1>4. CASE /\ fault' = "Attempt to add duplicate key"
           /\ \E m \in Maps, k \in Keys : Contents[m][k] # NoValue
  <2>1. Stopped' = "duplicate" BY <1>4, StoppedNext
  <2> QED BY <1>1, <1>2, <1>4, <2>1 DEF P!Next, P!Refuse, Stopped
<1> QED BY <1>3, <1>4

LEMMA RefinedClient ==
    ASSUME IInv, NEW m \in Maps,
           \/ NewMap(m)
           \/ \E k \in Keys, v \in Values : Add(m, k, v)
           \/ \E k \in Keys : TryGet(m, k)
    PROVE  P!Next \/ UNCHANGED <<Contents, found, fault>>
<1>1. CASE NewMap(m) /\ ~ HasRoom BY <1>1, RefinedFailure DEF NewMap, Fails
<1>2. CASE NewMap(m) /\ HasRoom
  <2>1. Contents' = Contents BY <1>2, NewMapAdds
  <2> QED BY <1>2, <2>1 DEF NewMap
<1>3. ASSUME fault = NoFault, UNCHANGED <<arena, roots, fault>>, found' = NoValue
      PROVE  P!Next
  <2>1. Contents' = Contents BY <1>3, ContentsOfArena
  <2>2. Stopped = "no" /\ Stopped' = "no" BY <1>3, StoppedAs, StoppedNext
  <2> QED BY <1>3, <2>1, <2>2 DEF P!Next, P!Ask, Stopped
<1>4. ASSUME NEW k \in Keys, NEW v \in Values, Add(m, k, v) PROVE P!Next
  BY <1>3, <1>4 DEF Add
<1>5. ASSUME NEW k \in Keys, TryGet(m, k) PROVE P!Next BY <1>3, <1>5 DEF TryGet
<1> QED BY <1>1, <1>2, <1>4, <1>5

LEMMA RefinedAdd ==
    ASSUME IInv, AddLeaf \/ AddDuplicate \/ AddSplit \/ AddDescend
    PROVE  P!Next \/ UNCHANGED <<Contents, found, fault>>
<1>1. CASE AddLeaf
  <2>1. /\ call.map \in Maps /\ call.key \in Keys /\ call.value \in Values
        /\ Contents[call.map][call.key] = NoValue
        /\ Contents' = [Contents EXCEPT ![call.map][call.key] = call.value]
    BY <1>1, AddLeafPlaces
  <2>2. fault = NoFault /\ UNCHANGED <<found, fault>> BY <1>1 DEF AddLeaf, At
  <2>3. Stopped = "no" /\ Stopped' = "no" BY <2>2, StoppedAs, StoppedNext
  <2>4. P!Add BY <2>1, <2>2, <2>3 DEF P!Add, Stopped
  <2> QED BY <2>3, <2>4 DEF P!Next, Stopped
<1>2. CASE AddDuplicate
  <2>1. /\ At("add") /\ is_leaf(node) /\ node.key = call.key
        /\ Fails("Attempt to add duplicate key")
    BY <1>2 DEF AddDuplicate
  <2>2. call.map \in Maps /\ node.key \in Keys /\ Contents[call.map][node.key] # NoValue
    BY <2>1, Calling, NodeHeld, TrieBounds
  <2> QED BY <2>1, <2>2, RefinedFailure DEF Fails, At
<1>3. CASE AddSplit
  <2>1. At("add") /\ is_leaf(node) /\ fault = NoFault BY <1>3 DEF AddSplit, At
  <2>2. CASE ~ HasRoom BY <1>3, <2>1, <2>2, RefinedFailure DEF AddSplit, Fails
  <2>3. CASE HasRoom /\ call.depth + 1 >= MaxDepth
    <3>1. Fails("depth < 8") BY <1>3, <2>3 DEF AddSplit, Split, Deeper
    <3> QED BY <2>1, <3>1, RefinedFailure DEF Fails
  <2>4. CASE HasRoom /\ ~ (call.depth + 1 >= MaxDepth)
    <3>1. Split BY <1>3, <2>4 DEF AddSplit
    <3>2. call.depth \in 0..MaxDepth - 1 BY <2>1, Calling
    <3>3. call.depth + 1 < MaxDepth BY <2>4, <3>2, TrieBounds
    <3> QED BY <2>1, <3>1, <3>3, AddSplitSplits
  <2> QED BY <2>2, <2>3, <2>4
<1>4. CASE AddDescend
  <2>1. UNCHANGED <<arena, found, fault>> BY <1>4, Descending DEF AddDescend
  <2> QED BY <2>1, ContentsOfArena
<1> QED BY <1>1, <1>2, <1>3, <1>4

\* A lookup ends with what the map holds for its key.
Answers == found' = Contents[call.map][call.key] /\ UNCHANGED <<Contents, fault>>

LEMMA GetAnswers == ASSUME IInv, GetFound \/ GetMissing PROVE Answers
<1>1. CASE GetFound
  <2>1. /\ At("get") /\ is_leaf(node) /\ node.key = call.key
        /\ found' = node.value /\ UNCHANGED <<arena, fault>>
    BY <1>1 DEF GetFound
  <2>2. Contents[call.map][node.key] = node.value BY <2>1, NodeHeld
  <2> QED BY <2>1, <2>2, ContentsOfArena DEF Answers
<1>2. CASE GetMissing
  <2>1. /\ At("get") /\ (~ node.is_init \/ (is_leaf(node) /\ node.key # call.key))
        /\ found' = NoValue /\ UNCHANGED <<arena, fault>>
    BY <1>2 DEF GetMissing
  <2>2. node \in NodesOf(Len(arena)) BY <2>1, Calling
  <2>3. ~ is_inner(node) /\ ~ (is_leaf(node) /\ node.key = call.key)
    BY <2>1, <2>2, NodeOfKind, NodePredicates DEF is_inner, is_leaf
  <2>4. Contents[call.map][call.key] = NoValue BY <2>1, <2>3, NotHeld
  <2> QED BY <2>1, <2>4, ContentsOfArena DEF Answers
<1> QED BY <1>1, <1>2

LEMMA RefinedGet ==
    ASSUME IInv, GetFound \/ GetMissing \/ GetDescend
    PROVE  P!Next \/ UNCHANGED <<Contents, found, fault>>
<1>1. CASE GetFound \/ GetMissing
  <2>1. At("get") BY <1>1 DEF GetFound, GetMissing
  <2>2. call.map \in Maps /\ call.key \in Keys /\ fault = NoFault BY <2>1, Calling
  <2>3. Answers BY <1>1, GetAnswers
  <2>4. Stopped = "no" /\ Stopped' = "no" BY <2>2, <2>3, StoppedAs, StoppedNext DEF Answers
  <2>5. P!Get BY <2>2, <2>3, <2>4 DEF P!Get, Answers, Stopped
  <2> QED BY <2>4, <2>5 DEF P!Next, Stopped
<1>2. CASE GetDescend
  <2>1. UNCHANGED <<arena, found, fault>> BY <1>2, Descending DEF GetDescend
  <2> QED BY <2>1, ContentsOfArena
<1> QED BY <1>1, <1>2

\* However keys collide and buckets split, each map answers as a partial
\* function of its own: an add gives a key its value once, and changes nothing
\* else of any map; a lookup returns what the key was given.
THEOREM PartialMapImplemented == Spec => ImplementsPartialMap
<1>1. Init => P!Init BY RefinedInit
<1>2. IInv /\ [Next]_vars => [P!Next]_<<Contents, found, fault>>
  <2> SUFFICES ASSUME IInv, [Next]_vars
               PROVE  P!Next \/ UNCHANGED <<Contents, found, fault>>
    OBVIOUS
  <2>1. CASE UNCHANGED vars BY <2>1, ContentsOfArena DEF vars
  <2>2. CASE Exited BY <2>1, <2>2 DEF Exited
  <2> QED BY <2>1, <2>2, RefinedClient, RefinedAdd, RefinedGet DEF Next, Recursion
<1> QED BY <1>1, <1>2, Inductive, PTL DEF Spec, ImplementsPartialMap

\* Stronger than the refinement, which lets a step be about any key: a lookup
\* returns what its own map holds for its own key, and an add that ends has
\* given its own key its own value.
THEOREM CallsTakeEffect ==
    Spec => [][/\ GetFound \/ GetMissing => found' = Contents[call.map][call.key]
               /\ AddLeaf => Contents' = [Contents EXCEPT ![call.map][call.key] = call.value]]_vars
<1>1. IInv /\ [Next]_vars =>
         [/\ GetFound \/ GetMissing => found' = Contents[call.map][call.key]
          /\ AddLeaf => Contents' = [Contents EXCEPT ![call.map][call.key] = call.value]]_vars
  BY GetAnswers, AddLeafPlaces DEF Answers
<1> QED BY <1>1, Inductive, PTL DEF Spec

=============================================================================
