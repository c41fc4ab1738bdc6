------------------------------ MODULE HashTrie ------------------------------
(***************************************************************************)
(* map (map.hpp): a trie on the bytes of a key's hash.  All the maps of an *)
(* arena take their buckets from it.  One action is one level of the       *)
(* recursion of bucket_add or bucket_get.                                  *)
(***************************************************************************)
EXTENDS Integers, Sequences, Memory

CONSTANTS Maps, Keys, Values, NoValue,
          Bytes,         \* 0..255: the nodes of a bucket, N_BUCKETS of them
          MaxDepth,      \* 8, the bytes of a hash
          hash,          \* std::hash, byte by byte from the least significant
          MaxBuckets     \* capacity of the arena, in buckets

ASSUME TrieBounds == /\ MaxDepth \in Nat \ {0} /\ MaxBuckets \in Nat
                     /\ hash \in [Keys -> [0..MaxDepth - 1 -> Bytes]]
                     /\ NoValue \notin Values

VARIABLES arena,     \* the buckets in use
          roots,     \* the buckets of each map, NULL before its construction
          call,      \* the innermost bucket_add or bucket_get
          found,     \* the value a try_get has found, until the next call
          fault

vars == <<arena, roots, call, found, fault>>

\* A map_node: is_leaf and the union are read only once is_init is set.
Fresh      == [is_init |-> FALSE]
Leaf(k, v) == [is_init |-> TRUE, is_leaf |-> TRUE, key |-> k, value |-> v]
Inner(b)   == [is_init |-> TRUE, is_leaf |-> FALSE, buckets |-> b]

is_leaf(n)  == n.is_init /\ n.is_leaf
is_inner(n) == n.is_init /\ ~ n.is_leaf

\* map and path are history: for which map a bucket was allocated, and the
\* bytes that lead to it.
Bucket(m, p) == [map |-> m, path |-> p, nodes |-> [h \in Bytes |-> Fresh]]

NoCall == [fn |-> "none"]
Frame(f, m, k, v) == [fn |-> f, map |-> m, key |-> k, value |-> v,
                      depth |-> 0, bucket |-> roots[m]]

hpart_First(k, depth) == hash[k][0]       \* mutant: the same byte at every level
hpart(k, depth)       == hash[k][depth]
node == arena[call.bucket].nodes[hpart(call.key, call.depth)]

Init == /\ arena = <<>>
        /\ roots = [m \in Maps |-> NULL]
        /\ call = NoCall
        /\ found = NoValue
        /\ fault = NoFault

Fails(why) == fault' = why /\ UNCHANGED <<arena, roots, call, found>>

HasRoom_OneMore == Len(arena) <= MaxBuckets    \* mutant: off by one
HasRoom == Len(arena) < MaxBuckets

-----------------------------------------------------------------------------
\* map(bucket_arena)
NewMap(m) ==
    /\ fault = NoFault /\ call = NoCall /\ roots[m] = NULL
    /\ IF ~ HasRoom THEN Fails("Arena reached max capacity")
       ELSE /\ arena' = Append(arena, Bucket(m, <<>>))
            /\ roots' = [roots EXCEPT ![m] = Len(arena) + 1]
            /\ UNCHANGED <<call, found, fault>>

\* add(key, value) and try_get(key, &value): the first level
Add(m, k, v) ==
    /\ fault = NoFault /\ call = NoCall /\ roots[m] # NULL
    /\ call' = Frame("add", m, k, v)
    /\ found' = NoValue
    /\ UNCHANGED <<arena, roots, fault>>

TryGet(m, k) ==
    /\ fault = NoFault /\ call = NoCall /\ roots[m] # NULL
    /\ call' = Frame("get", m, k, NoValue)
    /\ found' = NoValue
    /\ UNCHANGED <<arena, roots, fault>>

At(f)  == fault = NoFault /\ call.fn = f
Set(n) == arena' = [arena EXCEPT ![call.bucket].nodes[hpart(call.key, call.depth)] = n]

\* The next level, whose assert(depth < 8) comes before all else
Deeper(b, buckets) ==
    /\ IF call.depth + 1 >= MaxDepth THEN Fails("depth < 8")
       ELSE /\ call' = [call EXCEPT !.depth = @ + 1, !.bucket = b]
            /\ arena' = buckets
            /\ UNCHANGED <<roots, found, fault>>

AddLeaf ==
    /\ At("add") /\ ~ node.is_init
    /\ Set(Leaf(call.key, call.value))
    /\ call' = NoCall
    /\ UNCHANGED <<roots, found, fault>>

AddDuplicate ==
    /\ At("add") /\ is_leaf(node) /\ node.key = call.key
    /\ Fails("Attempt to add duplicate key")

Split_NodeFirst ==                        \* mutant: the union is overwritten first
    Deeper(Len(arena) + 1,
           [Append(arena, Bucket(call.map, Append(arena[call.bucket].path,
                                                  hpart(call.key, call.depth))))
                 EXCEPT ![call.bucket].nodes[hpart(call.key, call.depth)] =
                            Inner(Len(arena) + 1)])

\* The entry moves one level down, into a bucket of its own; only then is its
\* node made to point there.
Split ==
    LET new == Bucket(call.map, Append(arena[call.bucket].path, hpart(call.key, call.depth)))
    IN  Deeper(Len(arena) + 1,
               [Append(arena, [new EXCEPT !.nodes[hpart(node.key, call.depth + 1)] = node])
                EXCEPT ![call.bucket].nodes[hpart(call.key, call.depth)] =
                           Inner(Len(arena) + 1)])

AddSplit ==
    /\ At("add") /\ is_leaf(node) /\ node.key # call.key
    /\ IF ~ HasRoom THEN Fails("Arena reached max capacity")
       ELSE Split

AddDescend ==
    /\ At("add") /\ is_inner(node)
    /\ Deeper(node.buckets, arena)

GetFound ==
    /\ At("get") /\ is_leaf(node) /\ node.key = call.key
    /\ found' = node.value
    /\ call' = NoCall
    /\ UNCHANGED <<arena, roots, fault>>

\* try_get returns false.
GetMissing ==
    /\ At("get")
    /\ ~ node.is_init \/ (is_leaf(node) /\ node.key # call.key)
    /\ found' = NoValue
    /\ call' = NoCall
    /\ UNCHANGED <<arena, roots, fault>>

GetDescend_Stays ==                       \* mutant: the recursion passes its own bucket
    /\ At("get") /\ is_inner(node)
    /\ UNCHANGED vars

GetDescend ==
    /\ At("get") /\ is_inner(node)
    /\ Deeper(node.buckets, arena)

Exited == fault # NoFault /\ UNCHANGED vars

Recursion == \/ AddLeaf \/ AddDuplicate \/ AddSplit \/ AddDescend
             \/ GetFound \/ GetMissing \/ GetDescend

Next == \/ \E m \in Maps : NewMap(m)
        \/ \E m \in Maps, k \in Keys, v \in Values : Add(m, k, v)
        \/ \E m \in Maps, k \in Keys : TryGet(m, k)
        \/ Recursion \/ Exited

Spec == Init /\ [][Next]_vars /\ WF_vars(Recursion)

-----------------------------------------------------------------------------
(***************************************************************************)
(* Properties.                                                             *)
(***************************************************************************)
Buckets == 1..Len(arena)
Entry(b, h) == arena[b].nodes[h]

Nodes  == {Fresh} \cup {Leaf(k, v) : k \in Keys, v \in Values} \cup {Inner(b) : b \in Buckets}
Frames == [fn : {"add"}, map : Maps, key : Keys, value : Values,
           depth : 0..MaxDepth - 1, bucket : Buckets]
          \cup [fn : {"get"}, map : Maps, key : Keys, value : {NoValue},
                depth : 0..MaxDepth - 1, bucket : Buckets]

TypeOK ==
    /\ arena \in Seq([map : Maps, path : Seq(Bytes), nodes : [Bytes -> Nodes]])
    /\ Len(arena) <= MaxBuckets
    /\ roots \in [Maps -> 0..Len(arena)]
    /\ call \in {NoCall} \cup Frames
    /\ found \in Values \cup {NoValue}
    /\ fault \in {NoFault, "Arena reached max capacity", "depth < 8",
                  "Attempt to add duplicate key"}

OnPath(k, p) == \A i \in 1..Len(p) : p[i] = hash[k][i - 1]

\* A bucket is reached by one path of one map, through inner nodes only.
OnePathEach ==
    /\ \A b, c \in Buckets : arena[b].map = arena[c].map /\ arena[b].path = arena[c].path
          => b = c
    /\ \A b \in Buckets, h \in Bytes : is_inner(Entry(b, h)) =>
          LET c == Entry(b, h).buckets
          IN  arena[c].map = arena[b].map /\ arena[c].path = Append(arena[b].path, h)
    /\ \A b \in Buckets : \A i \in 1..Len(arena[b].path) : \E c \in Buckets :
          /\ arena[c].map = arena[b].map /\ arena[c].path = SubSeq(arena[b].path, 1, i - 1)
          /\ is_inner(Entry(c, arena[b].path[i]))
    /\ \A m \in Maps : roots[m] # NULL =>
          arena[roots[m]].map = m /\ arena[roots[m]].path = <<>>

\* An entry lies on the path of its key's hash.
EntriesOnPath ==
    \A b \in Buckets, h \in Bytes : is_leaf(Entry(b, h)) =>
        OnPath(Entry(b, h).key, Append(arena[b].path, h))

\* The buckets of all maps in the shared arena form one tree for each map,
\* none shared and none lost, with every entry on the path of its key: splits
\* of one map never disturb another, or the entries beside the one they move.
Forest == OnePathEach /\ EntriesOnPath

Entries  == {<<arena[b].map, Entry(b, h)>> : b \in Buckets, h \in Bytes}
Contents == LET entries == Entries
                held(m, k) == {v \in Values : <<m, Leaf(k, v)>> \in entries}
            IN  [m \in Maps |-> [k \in Keys |->
                    IF held(m, k) = {} THEN NoValue ELSE CHOOSE v \in held(m, k) : TRUE]]

P == INSTANCE PartialMap WITH
        contents <- Contents,
        stopped  <- CASE fault = NoFault -> "no"
                      [] fault = "Attempt to add duplicate key" -> "duplicate"
                      [] OTHER -> "no room"

\* However keys collide and buckets split, a map answers as the partial
\* function of what was added to it, and calls a key a duplicate only if some
\* map holds a value for it.
ImplementsPartialMap == P!Init /\ [][P!Next]_<<Contents, found, fault>>

\* No lookup stops, and an add only for its key: one that its map holds, or
\* one whose hash agrees in every byte with that of a key its map holds.
RefusesOnlyCollisions ==
    LET held == {k \in Keys : Contents[call.map][k] # NoValue}
    IN  /\ fault = "Attempt to add duplicate key" => call.fn = "add" /\ call.key \in held
        /\ fault = "depth < 8" =>
              /\ call.fn = "add"
              /\ \E k \in held \ {call.key} : hash[k] = hash[call.key]

\* Every call returns or stops the process.
CallsReturn == call # NoCall ~> (call = NoCall \/ fault # NoFault)

=============================================================================
