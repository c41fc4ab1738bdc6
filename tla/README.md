# le-compiler: verification project

le-compiler is the middle of a small compiler in C++: a builder makes syntax trees, an
emitter lowers them to basic blocks of SSA instructions, an interpreter executes the
blocks. Everything runs on one thread, in arenas that only grow; every failed assertion
ends the process. The hard part is not concurrency but *order*: an explicit task stack
replaces recursion, three structures (task stack, scopes, blocks) must stay in step, and
values meet at joins through phis chosen by position.

This directory holds TLA+ modules for that pipeline, TLC configurations that check them on
small instances, and proofs checked by TLAPS. `PROJECT.json` maps every definition to the
source lines it models.

## 1. Inventory

Paths are relative to `src/`.

| Component | State | Operations | What makes it correct |
|---|---|---|---|
| **arena, stack** (`src/arena.hpp`, `src/stack.hpp`) | base, next, capacity | alloc, peek, clear; move_next, peek, pop | never hands out more than the capacity |
| **log, assert** (`src/log.*`) | severity | fatalf ends the process | nothing happens after a failed assertion |
| **IR and ir::builder** (`src/ir.hpp`, `basic-block.hpp`, `ir-builder.hpp`) | arenas of blocks, instructions and phi arguments; `current_block`, `phi_start` | alloc/start/end_block, start/push/end_phi, one function per instruction, branch, unconditional_branch | a block's instructions are contiguous and its own; phi lists do not overlap; predecessors and targets agree; an ended block does not change |
| **symbol_table** (`src/symbol.*`) | scopes with parent and declarations, current scope | new_scope, end_scope, new_symbol, resolve | scopes opened are closed once, in reverse order |
| **ast::builder** (`src/ast*.hpp`) | node arenas, stacks of lists in progress | one function per node kind; start/push/end of blocks and ifs | nested lists do not disturb outer ones; what is built is the tree of the calls, and never changes |
| **ir_emit** (`src/ir-emit.*`) | task stack, builder, symbol table | run_to_suspend pops a task and runs its handler at its step | terminates; keeps source order; every allocated block is started once; every value used was computed on the path |
| **interp** (`src/interp.*`) | next block, value returned, value of each instruction | `_exec`: one block; `exec`: until no block follows | returns the meaning of the tree, never a default or stale value; terminates |
| **map** (`src/map.hpp`) | 256-way hash trie in an arena | add (a key once), try_get | a partial function for each map, however keys collide and maps share the arena; stops only on a key it holds or a full collision |
| **queue** (`src/queue.hpp`) | ring buffer | move_next, dequeue, peek, count | a bounded FIFO (no code uses it) |
| **str** (`src/global.hpp`), **Makefile** | | | not modelled |
| **test program** (`entry/test.cpp`) | | build a tree, lower, execute | the pipeline's result |

Interactions are direct calls: `test_ast` opens the entry block and calls
`run_to_suspend`; the emitter calls the builder and the symbol table and reads the
builder's arenas (`ssas->peek()` is how a handler finds the value of the expression it
asked for); the interpreter only reads what the builder made. Pointers into shared arenas
are the hidden coupling: `head..next` of a block and `left..left+count` of a phi are
ranges in arenas all blocks and all phis share.

The hard behaviours, each at its line, are the `hazards` of `PROJECT.json`: joins that
look one block back, blocks left over when an ifs has no else, scopes that end before the
block that carries them, tasks pushed in reverse, the newest instruction taken for a
result, phis resolved by order, `ret` that does not stop a block, capacities; slots of
the tree builder's stacks that are cleared and used again, an entry of the trie moved
while its node becomes a pointer, a ring whose full and empty states look alike, and the
interpreter's values that outlive an execution.

## 2. Modules

| Module | Models | Notes |
|---|---|---|
| `Memory` | pointers, assert | a pointer is an index, NULL is 0; `Checked(x, ok, why, next)` is an assertion followed by `next` |
| `IrOps` | `ir::builder`, `ssa`, `bb` | one operator per member function, from a builder record to the one it leaves; and the promises of the IR |
| `IrBuilder` | the builder under *any* client | one action per member function |
| `SymbolOps` | `symbol_table` | operators on a record |
| `Ast` | the trees | one operator per constructor |
| `IrEmit` | `ir_emit` | composes IrOps, SymbolOps and Ast; one action per handler and step |
| `Word` | the width of a value | values are modulo `Modulus`, for Interp and SourceSemantics alike |
| `Interp` | `backend::interp` | one action per kind of instruction, to enter and to leave a block |
| `Compiler` | `test_ast` | IrEmit, then Interp on the same `ir` |
| `CompilerAnswers` | the value returned | what Compiler answers for a tree, as a refinement of Evaluation |
| `SourceSemantics` | reference | what a tree means, and the order its instructions must have; not translated from code |
| `Evaluation` | abstract specification | a tree has one answer, its meaning, or the process stops |
| `AstBuilder` | `ast::builder` | nodes in arenas, lists cut from `ptr_lists`, the stacks `ip_blocks` and `ip_ifs`; one action per member function, for any client |
| `TreeBuilder` | abstract specification | trees as values (those of `Ast`), lists under construction that nest |
| `HashTrie` | `map` | maps sharing one arena of buckets; one action per level of `bucket_add` or `bucket_get` |
| `PartialMap` | abstract specification | a partial function per map that takes a key once |
| `RingQueue` | `queue` | one action per member function |
| `Fifo` | abstract specification | a bounded queue |
| `IrOpsProofs` | lemmas on `ir::builder` that hold of any builder, whoever calls it: types, exact ranges, frozen blocks, edges, the argument lists of phis | one lemma per member function |
| `IrBuilderProofs` | proofs of all properties of IrBuilder | one step per action, from those lemmas |
| `IrEmitProofs` | proofs that tasks, scopes, blocks and values of IrEmit stay in step, from the same lemmas and its own | one lemma per handler, one step per action |
| `CompilerProofs` | which assertions of IrEmit can fail, what its finished code promises, and that the interpreter runs it without failing | one lemma per handler, then one per action of the interpreter |
| `HashTrieProofs` | proofs of all safety properties and of the refinement of HashTrie | one lemma per change of the arena, one per action |
| `AstBuilderProofs` | proofs of `TypeOK`, `OneOwnerEach` and of the refinement of AstBuilder | one lemma per kind of change, two per action: what it keeps, and what it does to the trees |
| `InterpProofs` | proofs about the interpreter, for any code of the builder's shape | one lemma per action |
| `RingQueueProofs` | proofs of `TypeOK`, `ImplementsFifo` and `CountIsLengthAtRoot` | one lemma per member function |
| `MCIrBuilder`, `MCIrEmit`, `MCCompiler`, `MCFindings`, `MCInterp`, `MCAstBuilder`, `MCHashTrie` | instances for TLC | MCInterp also calls `exec` twice, and defines well-formed code |

### How state and actions correspond to the code

* Every arena is a sequence, and objects never move, so pointer comparisons
  (`head < ssas->next`, `val != ssa_before`) are comparisons of indices. `ssas->next` is
  `Len(ssas) + 1`, `ssas->peek()` is `Len(ssas)`. Fresh memory is zero.
* A failed assertion sets `fault` to its text. `Checked` and `Then` keep the order of the
  assertions; after a fault the state does not change (IrBuilder keeps the message only).
  Releases of the code never drop assertions: the project defines its own macro.
* `final_values` is a function with NULL for an absent key, and `add` refuses a present
  one, as the map does. Where the trie splits is invisible to its users: `HashTrie`
  implements `PartialMap`, and its users are modelled with a partial function.
* In IrEmit a handler is an operator on a machine `[ir, locals, tasks, fault]`. Handlers
  call each other directly where the code does (`emit_exp` from `emit_stmt_assign`,
  `emit_stmt` from `emit_stmt_ifs`) and push tasks where the code pushes. One action is
  one iteration of `run_to_suspend`. A binary expression emits its left operand at once,
  so one iteration descends the whole left spine: `LeftSpine` writes that recursion down
  as a sequence of pushes (depth up to `MaxExpDepth`), then one leaf.
* `Lookup` is the walk of `emit_exp_ident` up single predecessors, as a recursive
  function. No started block is its own ancestor, for predecessors are complete before a
  block starts (`LeftBlocksFrozen`), so it is well-founded.
* The unions `arg1`, `arg2` of a task and `left`, `right` of an instruction are numbers.
* `Programs` are the trees to lower; `Stmts` are the statements in them and `Exps[d]` their
  expressions nested at most d deep, so that a proof can speak of any of them.
  `ProgramTrees` assumes of them what `ast::builder` sees to (`WellFormed`): a list of
  pairs is not empty, an else comes neither first nor after an else, a binary expression
  has its operands. That an assignment has both its sides `ast::builder` does not test;
  the test program's calls give them.
  `AllStmts` and `AllExps` of `SourceSemantics` compute both sets for the instances, and
  TLC evaluates the assumption on each.
* The loops of an ifs (tasks pushed pair by pair, symbols fused one after the other,
  values pushed to a phi) are recursive functions of the number of rounds (`IfsTasks`,
  `FuseAll`, `FinalValues`, `PhiOf`).
* A node of kind "UNUSED" is what `DBG_exp` and `DBG_stmt` make: they set no kind, and the
  emitter only warns. MCIrEmit contains such trees.
* In Interp, `pc` is the loop variable, `cur` the local `block`, `ctx` the context. Values
  are modulo `Modulus`, 2^64 in the code. `ret` records the instruction and goes on. The
  map of values is the interpreter's, so a second `exec` starts with what the first left.
* A node of AstBuilder has the shape of its tree in `Ast` with pointers in place of the
  trees; a list node has the first index and the count of its slice of `ptr_lists`. A
  stack is all its slots and a count: a slot that was popped keeps its contents until
  `clear`. `ExpTree` and `StmtTree` follow the pointers; every pointer is to an older node
  (`TypeOK`), so they are well-founded; `MadeExps` and `MadeStmts` list the trees of what
  a client was given. An `_stmt_if_pair` is part of its node.
* In HashTrie, `call` is the innermost activation of the recursion, which is a tail call
  but for the move of an entry into a bucket just allocated: that inner call finds the
  bucket empty and returns, so it is part of `Split`, its `assert(depth < 8)` included.
  The map and the path of a bucket are history. `found` is what `try_get` found, forgotten
  by the next call; the code leaves `*value` alone when it finds nothing and returns false.
* RingQueue reads the slot `dequeue` points to at once, as the first use of the pointer.

### Mutants

An operator whose comment begins with "mutant:" is not the code. It stands beside the
operator it varies, and `PROJECT.json` says which property notices it. Every property of
a passing run has one.

## 3. What is checked

| Run | Instance | Shows |
|---|---|---|
| `builder` | MCIrBuilder, 1.1 M states | under any client: pointers in bounds; block ranges exact; predecessors sound; phi lists disjoint; ended blocks frozen |
| `emit` | MCIrEmit, 44 k states | for every tree of the family, also unsupported ones: IR sound, tasks, scopes and blocks in step, values local, source order kept, work decreasing |
| `compile` | MCCompiler, 49 k states | lowering then executing refines `Evaluation`; supported trees are never refused; execution ends |
| `interp` | MCInterp, 532 k states | in well-formed code values solve the code's equations; in any code a block runs once and whole, the values of a first exec tell the path it took, and loops that compute end |
| `trees` | MCAstBuilder, 200 k states | AstBuilder implements `TreeBuilder`; no list or pair has two owners |
| `trie` | MCHashTrie, 205 k states | HashTrie implements `PartialMap`; each map is a tree of its own; it refuses only real collisions; calls return |
| `ring` | RingQueue, 6.5 k states | RingQueue implements `Fifo`; when `count()` is the length |
| `no_else`, `lost_update`, `not_set`, `else_inside`, `after_block` | MCFindings, one tree each | a statement of the code that the code violates (section 6) |

`builder`: any history of calls with up to 6 objects in the three arenas, 2 blocks, 3
instructions, 2 phi arguments, 1 predecessor per block. Every capacity is met and
overrun. Two blocks are what the properties relate (a block and its predecessor or
neighbour), two phi arguments make two adjacent lists. `Window = 1` limits operands to
the newest instruction; operands matter only for phi arguments being older. The single
restriction of the client is that it starts a block once: `start_block` does not test it,
and `EveryTargetPending` shows that the emitter complies.

`emit`: blocks of two to four statements whose second and third range over leaves, two-
and three-armed ifs over 8 arms (assign, copy, nop, return, declaration, nested blocks,
nested ifs), nested blocks, and shapes the emitter refuses. `MaxPreds`, `MaxFuse` = 3,
`MaxDecls` = 2, `MaxSymbols` = 3 and `MaxTasks` = 10 are chosen so that some trees
overrun them and most do not; the larger bounds are never met. Two names are enough for a
variable set and one not set at a join, and `resolve` knows no more.

`compile`: the shape of the tree in `entry/test.cpp` (a declaration, an ifs whose arms
set or leave the variable, return, or hold an inner ifs, and a return), with every
combination of taken conditions; and around it trees the emitter may refuse.
`Modulus` = 16 with literals up to 15 makes additions and differences wrap. In some trees
y is declared before x, and `resolve` gives the names their places by order. In
`SourceSemantics` the value of `equals` is a difference, for the source gives it no other,
but a condition that is an `equals` holds when its operands are equal, and any other when
it is 0: that the lowering to sub and the branch on eq agree with this is checked, not
assumed.

`interp`: 13,824 programs of three blocks over five instructions and one block without any:
the six conditions, four ways for each of the other blocks to go on (into loops, to the
empty block, to none, unset), operands in other blocks and before their definition, a phi with a NULL argument, and
two calls of `exec` from any block, also from NULL. `Modulus` = 4 tells 0, the sign bit
and wrap-around apart. Three blocks make loops that skip a definition and joins with two
ways in.

`trees`: arenas of 5 statements, 2 expressions and 3 list entries, lists of 3, stacks of
2 slots, all of which run out. The constraint `Bounded` stops a history when what is made
and under way exceeds `MaxWork` = 7: enough for a block in a block, an if chain in a
block and the reverse, a chain with an else and the second else refused, and slots used
again. Expressions, and one statement that has any, come first, and the client passes its
newest expression and one of its two newest statements: which node it is does not matter
to lists, only that two can differ.

`trie`: hashes of three bytes with two values each, where the code has eight with 256.
k1 and k2 differ in the last byte, so that adding both splits twice; k3 differs in the
second, so that a split happens beside an entry; k4 has the hash of k1. Two maps grow in
an arena of four buckets, which suffices for each of these and runs out for both.

`ring`: four slots and three items: every position of the two ends, wrapped or not.

What the properties say, and why they are the ones:

* `RangesAreExact`: the interpreter runs `head..next`; the range must hold the block's
  instructions and no other, although the arena is shared and `end_phi` does not even ask
  for an open block.
* `PredecessorsAgree` / `IrSound`: joins and reads go by predecessors, execution by
  targets. Under an arbitrary client only one direction holds, because
  `end_block(next)` records no predecessor; the emitter does not use it, and IrSound adds
  the converse.
* `EveryTargetPending`, `OpenBlockBetweenTasks`, `ScopesBalance`: the three structures in
  step. Each relates the task stack to the blocks or the scopes.
* `FinalValuesAreLocal`, `OperandsAreLocal`, `PhiAlwaysFindsOne`: SSA dominance as this
  IR has it. `PhiAlwaysFindsOne` computes the blocks reachable without passing any
  argument's block; `NoDefaultOperand` and `ExecutionNeverAborts` are its dynamic side.
* `SourceOrder`: reversed pushes and direct calls cancel out.
* `InternalAssertsHold`: of the assertions, those against the compiler's own mistakes
  never fail; those that refuse a program may.
* `AnswersAreRight`: the refinement of `Evaluation`.
* `ReturnIsFinal`: no later instruction or block replaces the value returned.

* `ReassignmentsAreRefused`: a name is written once in a basic block. `Scan` reads off the
  tree where basic blocks begin, and shows that the duplicate key of `final_values` is
  met for exactly the trees that write a name twice in one, a shadowing declaration
  counting as a write of the same name. (Whether a join writes depends on which arms
  reach it; the two directions take the two bounds.)
* `ValuesSolveTheCode`: where every operand is computed before its use on every path, the
  -1 of a missing operand enters no result, and all values together satisfy the code read
  as equations, loops included.
* `BlocksRunOnce`: the map of values outlives a block, a loop and an `exec`, and takes a
  key once. So a block that computes anything is executed once and to its end: what is
  executed of the block control is in is exactly what has a value of it, however control
  came there.
* `ValuesTellThePath`: a branch is decided by a lookup in that map. `ValuesPath` starts at
  the entry and follows the values alone; what a first `exec` has computed lies on it, and
  when `exec` returns all of it has been computed. A branch that went by a value of another
  instruction or of another pass would leave values off that path, or holes in it. (Values
  are unsigned, so `lt` never holds and `gte` always does; nothing in the repository says
  what else they should mean, and no property is about it.)
* `OneOwnerEach`, `ImplementsTreeBuilder`: reused slots, the shared `ptr_lists` and
  nesting hand nothing from one list to another.
* `Forest`, `ImplementsPartialMap`, `RefusesOnlyCollisions`: the buckets of all maps form
  one tree per map with every entry on the path of its hash; answers are those of the
  partial functions; the depth limit is met by an add of a full collision only, never by
  a lookup.
* `ImplementsFifo`: full, empty and wrapped rings. `CountIsLengthAtRoot`: `count()`
  is `(out_of_range - start) - (next - root)`, the number of items only when `next`
  stands at the root or half way round an unwrapped queue.

### Termination and fairness

The emitter needs no fairness assumption to be shown to terminate: `WorkDecreases` is a
variant (every step leaves less work or ends the process), and the run checks that no
state before the end is a deadlock. `ExecutionEnds` (executing leads to finished) is
checked under `WF_allVars(Execution)`: one thread runs `exec` and nothing else can delay
it, so a step that is possible is taken. For the same reason `CallsReturn` is checked under
`WF_vars(Recursion)` and `LoopsThatDefineEnd` under `WF_mcVars(Execution)`. The latter
says when `exec` may run for ever, for code no emitter restricts: only round blocks that
define nothing, since a second value for an instruction stops the process.

## 4. What is proved

Thirty-three theorems: every property of the runs `builder`, `ring`, `trees`, `trie` and
`interp` but the liveness of the last two; of `emit` all but the variant and the two
properties that read the tree; and of `compile` those that say that what the emitter
finishes runs.
What a run shows on a small instance they show for every value of the constants. The
assumptions are stated with the constants: capacities are naturals and a client's inputs
are of their types (`IrBounds`, `ClientInputs`); a ring has a slot, and what memory holds
at first is not an item (`SizeAssumption`); a hash has as many bytes as the depth limit
says; a value's width is at least one (`ModulusAssumption`); the stacks and arenas of the
emitter have room for one entry, there are the two symbols `resolve` knows by name, and
the buffer in which a join collects values is no shorter than a list of predecessors, 64
entries each in the code (`EmitBounds`); trees are as `ProgramTrees` says
(section 2).

| Theorem | States | Inductive invariant |
|---|---|---|
| `TypeCorrect` | `TypeOK` of IrBuilder | itself |
| `RangesExact`, `BlocksFrozen` | `RangesAreExact`, `EndedBlocksFrozen` | `Exact` |
| `PredecessorsCorrect` | `PredecessorsAgree` | `Exact` and `Wired` |
| `PhisDisjoint` | `PhiListsDisjoint` | `Exact` and `Sliced` |
| `RingTypeCorrect`, `RingIsFifo`, `CountExact` | `TypeOK`, `ImplementsFifo`, `CountIsLengthAtRoot` | `TypeOK` |
| `TrieTypeCorrect`, `ForestKept`, `RefusalsCorrect`, `PartialMapImplemented`, `CallsTakeEffect` | `TypeOK`, `Forest`, `RefusesOnlyCollisions`, `ImplementsPartialMap`; what a call does | `IInv`: `Trie`, `Stands` |
| `AstTypeCorrect`, `OwnersKept`, `TreeBuilderImplemented` | `TypeOK`, `OneOwnerEach`, `ImplementsTreeBuilder` of AstBuilder | `IInv`: `Good`; for the last also `Chains`, `IdentsNamed` |
| `IrAlwaysSound`, `ScopesAlwaysBalance`, `TargetsAlwaysPending`, `BlockAlwaysOpen`, `FinalValuesStayLocal`, `OperandsStayLocal`, `LeftBlocksStay` | `IrSound`, `ScopesBalance`, `EveryTargetPending`, `OpenBlockBetweenTasks`, `FinalValuesAreLocal`, `OperandsAreLocal`, `LeftBlocksFrozen` | `EmitInv` |
| `InternalAssertsAlwaysHold`, `EmitTypesAlwaysHold`, `PhiAlwaysHasArgument` | `InternalAssertsHold`, `TypeOK`, `PhiAlwaysFindsOne` of IrEmit | `EmitInv` and `EmitSafe` |
| `ExecutionIsClean`, `OperandsAreComputed`, `FirstReturnStands` | `ExecutionNeverAborts`, `NoDefaultOperand`, `ReturnIsFinal` of Compiler | `PipeInv` |
| `InterpTypeCorrect`, `BlocksRun`, `PathIsTold`, `ValuesAreSolutions` | `TypeOK`, `BlocksRunOnce`, `ValuesTellThePath`, `ValuesSolveTheCode` of MCInterp | `IInv`: `Shaped`; `RInv`; `RInv` and `PInv`; `VInv` |

### TypeCorrect

`IrBuilderProofs` proves `Spec => []TypeOK`: for all capacities, symbols,
scopes, literals and conditions, and every history of calls, the builder's record has its
type and `current_block`, `phi_start`, every `head`, `next`, `block_true`, `block_false`
and every instruction's `block` stay within their arenas.

`TypeOK` is inductive as it stands, because bounds only grow. The argument:

1. elementary updates (a block replaced, a block or an instruction appended, a pointer
   set) keep `Typed(B)`; `BoundsGrow` says that bounds survive longer arenas;
2. `Checked` keeps it whether the assertion holds or fails, so a chain of assertions does;
3. each member function is a composition of those: one lemma per function, with
   `Extends` lemmas where a function goes on after a step that may have failed
   (`branch`, `ret`, `unconditional_branch`);
4. each action is a call (`CallTyped`), hence `TypePreserved`, and the theorem by
   temporal induction.

### RangesExact and BlocksFrozen

`IrBuilderProofs` proves `Spec => []RangesAreExact` (the instructions `head..next` of a
block are exactly those that name it, and exactly the current block is open) and
`Spec => EndedBlocksFrozen` (a block that has ended changes nothing but its predecessors).
The interpreter's loop over `head..next` and the emitter's reading of the `final_values`
of ended blocks rest on these.

The inductive invariant is `Exact(B)`: `Typed(B)`, `BlocksOwnTheirRange(B)` and
`OneOpenBlock(B)`. The three need each other. A new instruction goes to `current_block`,
so its range is right only because that block is the one whose range ends at the last
instruction (`OneOpenBlock`); a phi appended while no block is open belongs to no range
only because every started block has ended; and a block just opened has an empty range
only because `head` is one past the last instruction (`Typed`), and no instruction names
it yet (the second half of `BlocksOwnTheirRange`). `Frozen(B, C)` says the same of two
builders as `EndedBlocksFrozen` of a step, and `Sound(B, C)` is `Exact(C)` with
`Frozen(B, C)`:

1. elementary updates are sound: a block rewritten outside its range (`WithBlockSound`), a
   block or an instruction appended, a block opened, the current block closed;
2. soundness composes (`SoundTransitive`) and survives `Checked` and `Then`;
3. each member function is sound, by composition; `branch` uses that `alloc_block` keeps
   every block that exists (`Keeps`);
4. a call that fails leaves an empty builder, which is exact (`CallSound`).

The proof uses the one restriction on the client, that a block is started once: starting
an ended block again would move `head` and leave its old instructions outside its range.
The code does not check it (`start_block`, `src/ir-builder.hpp`), its callers do it.

### PredecessorsCorrect and PhisDisjoint

`PredecessorsAgree` is not inductive: writing a block's targets, as `branch` does, would
break the edges it had. `Wired(B)` adds why it had none: a block whose branch is `UNUSED`
has no target (`Undecided`), nor is a block started yet other than `UNUSED`, and what ends
a block writes it once. `Exact` says which block is open, so that the block written is one
that has not branched. A function that fails half way has written targets before
predecessors, never the reverse, which is the direction the property takes.

`Sliced(B)` is `PhisOwnTheirSlice(B)` and that every entry of `phi_lists` names an
instruction: `push_phi` may come long before `end_phi`, and the phi is newer than all
there were. The list in progress begins at `phi_start`, after all finished ones, which is
what makes a phi begun inside another one's list harmless to those that are finished.

### RingTypeCorrect, RingIsFifo and CountExact

`RingQueueProofs` proves `Spec => []TypeOK` (the two ends stay within the ring, and only
the two assertions stop it) and `Spec => ImplementsFifo`: a ring of any size, over any
items, is a bounded queue that stops exactly when a call asks too much of it. `TypeOK` is
inductive and all the refinement needs of a state, for a `start` and a `next` within the
ring determine what lies between them (`ContentsSeq`):

1. `move_next` writes the one slot that holds no item, and that slot comes after the last
   item, whether or not the ring is wrapped: `Contents' = Append(Contents, x)`;
2. `dequeue` moves every item one place forward: `Contents' = Tail(Contents)`, empty
   exactly when the moved `start` meets `next`;
3. `next = start` means full, for `start` is NULL when the ring is empty: a failed
   assertion maps to `Refuse`.

A ring of no slots is excluded by the assumption, and rightly: it would hand out the slot
one past its memory, as the constructor does not test its size.

`CountExact` is arithmetic on the same invariant, wrapped and unwrapped rings apart: that
`count()` is the length in exactly the positions the run found.

### The hash trie

`HashTrieProofs` takes the hash as it comes: any bytes, any collisions, any depth limit.
`Trie(A, R)` says of the arena and the roots that every bucket lies on one path of one
map, that an inner node leads to the bucket one byte further, that each bucket is reached
from the root of its map through inner nodes, and that an entry lies on the path of its
key. `Stands(A, c)` says that the call in progress is in a bucket of its map on the path
of its key, at its depth. Neither is inductive without the other: an entry is placed on its
path because the call stands there, and the call goes down an inner node because nodes are
linked. The arena changes in three ways (a root added, an entry placed, a leaf split), and

1. of each it is shown, for any arena, that it keeps `Trie` (`RootAddedTrie`,
   `EntryPlacedTrie`, `NodeSplitTrie`) and what it does to the set of entries a map holds
   (`...Holds`): nothing, one more, nothing;
2. two buckets on the path of one key at the same depth are the same (`OnePlace`), so that
   a key has one place (`HeldOnce`) and the entries of a map are a partial function
   (`ContentsHeld`);
3. so a lookup that meets another key's leaf or a free node may answer that the map does
   not hold its own (`NotHeld`), and a split past the last byte means that all bytes agree
   (`SameHash`);
4. `PartialMapImplemented`: `AddLeaf` is `Add`, `GetFound` and `GetMissing` are `Get`, a
   failure is the refusal `PartialMap` names, and every other action is a stutter.

### The tree builder

`AstBuilderProofs` shows that nodes point to older nodes of the right kind, and lists to
slices of `ptr_lists` (`AstTypeCorrect`), and that an entry of `ptr_lists` has one owner
and a pair is in one list, finished or in progress (`OwnersKept`). The slots of the two
stacks are the difficulty, since a slot that was popped keeps its contents. `Good` states
ownership for the slots in use only: a pair is once in `ptr_lists` and in no open slot, or
once in an open slot and not in `ptr_lists` (`Owned`). `end_ifs` then moves the pairs of
the last open slot from the second case to the first and gives their slice to the node it
makes; `start_ifs` opens a slot that it clears, which brings back no pair. All pointers
being to older nodes, what a node says stays true as the arenas grow (`Made`, `Grown`).

`TreeBuilderImplemented` proves the refinement of `TreeBuilder`, in which nodes, lists and
slots are trees and lists of trees:

1. `ExpTree`, `StmtTree` and the list of statements made are recursive functions. A node's
   value depends on those of older nodes alone (`ExpValueLocal`, `StmtValueLocal`). Hence,
   by the least number at which two such functions differ, or at which none exists, there
   is exactly one (`ExpsAgree`, `ExpsExist` and their like for statements), which a longer
   arena extends (`ExpTreesKept`, `StmtTreesKept`). So what is made never changes;
2. four kinds of change cover the member functions: a node without a list (`StmtStep`,
   `ExpStep`), a pair pushed on the innermost chain (`PairStep`), a list that ends
   (`EndStep`). Each says what happens to the trees made and to both stacks of open lists;
3. each action that returns is the action of the same name in `TreeBuilder`, each failed
   assertion is `Stop` (one lemma `...Simulates` per action, `NextSimulates`);
4. two facts are needed besides `IInv`: in an open chain no else comes first or follows an
   else (`Chains`), which is what the two assertions of `push_if` keep although each looks
   at the last pair only; and an identifier is its name (`IdentsNamed`), so a declaration
   takes a name that was made.

### The interpreter

`Spec` of MCInterp executes the programs of one instance. The theorems of `InterpProofs`
are stated for `Spec` and for `AnyCode`, which is the same machine on any code that has
the shape ir::builder gives it (`Shaped`): any number of blocks and instructions, any
operands, any loops, and any number of calls of `exec`. `Programs` is shown to be of that
shape. The invariant follows what the code tests and what it does not: between blocks
`ctx.block` is only set once there are values, and inside a block the program counter
stays in `head..next + 1`. `Shaped` also has that blocks have ranges of their own, which
`RangesExact` proves of ir::builder.

What the steps of an `exec` do to the values is of five kinds (`StepKinds`): stop, enter a
block, pass an instruction without a value, give one a value, leave a block. Over these,

1. `BlocksRun` says that a block has all of its values or none, but for the one control is
   in. `RInv` splits that block's case in two (`OneRun`): either its values are those
   before control (`PartRun`), or control has passed no instruction that computes
   (`NoneRun`), and then again all or none. The second is a block entered once more: the
   first instruction of it that computes then stops the process on the duplicate key. A
   value belongs to one block only (`OneBody`), for ranges are disjoint.
2. `PathIsTold` needs the set of blocks control has reached, which no variable holds:
   `PInv` says that there is one (`Visited`). All of it lies on `ValuesPath`, all values
   lie in it, and each of its blocks but the one where control is has run to its end
   (`RanWhole`, from `RInv`) and was left for another of it. A value added later can move
   no branch that was taken, for that branch's value is there (`PathStays`), so the path
   only gets longer. When `exec` returns control is nowhere, the set is closed under the
   branches, and the path, the least such set, is within it.

`ValuesAreSolutions` is about dominance. `ReachedAround(A)` is the least set of blocks that
has the entry and the successors of each of its blocks outside `A`; a block not in
`ReachedAround({d})` is reached through `d` only. Code is `WellFormed` if each operand of
an arithmetic instruction comes earlier in the same block or from a block its own is reached
through only. `VInv` says that when control reaches a block, every block it is reached
through only has run to its end (`Passed`), and that in the block every instruction before
control has run. The step is `PassedOn`: what a successor `x` of `b` is reached through only
is either `b`, which has run, or what `b` is reached through only, for otherwise the path
round it to `b` would go on to `x`. So the operands have values when control comes to the
instruction, and the value it defines satisfies its equation (`ResultSolves`, the
arithmetic of a width: a difference wraps, a quotient is rounded down). Values being final,
the equations stay true (`SolvedStays`). The hypothesis is about the first `exec` only: a
later one may find the values of another path.

### The emitter

`IrEmitProofs` proves seven properties of every program, of any size and nesting, with any
capacities, from one invariant. None of the seven is inductive, and most need the others:
that a block waits in one task says nothing of a step unless the tasks on the stack are
known to be those of an ifs in their order; that an operand is local to its block depends
on no handler having changed the block since the operand was asked for. `EmitInv` is the
conjunction of

* `Code(ir)`: the builder's `Exact`, `Wired` and `Sliced`; `Linked` (an edge is recorded
  once, in the block it enters, and comes from a block started earlier); `FinalsLocal`
  and `OperandsLocal`;
* `Stacked(ir, tasks, {})`: `Waits`, each block that is allocated and not started is opened
  by exactly one task; `Shaped`, the node, step and arguments a task may have; `Above`, what
  may lie below it: an arm and the task that leaves it lie above the merge of their ifs, at
  once above it when the arm falls through to it, and only tasks of a binary expression
  lie above one that waits for a value;
* `Scoped(locals)` and `Balanced`: the depth of the scopes is one more than the number of
  tasks that will close one;
* `Values(ir, tasks)`: whatever has been emitted since a handler asked for an expression is
  a value of the open block. It holds although an expression may emit nothing, since
  then the handler's assertion stops the process;
* `Ready`: a block is open but before the merge that follows an else. A block opened for
  the next pair is empty until that pair's task runs; the merge of an ifs without else
  finds such a block, and `end_block` then refuses it (section 6).

The argument:

1. the builder's functions keep `Code` where the emitter calls them, from the lemmas of
   `IrOpsProofs`;
2. pushing and popping a task keep `Stacked` under the condition that the task fits what
   lies below it (`PushedStack`); the tasks of an ifs and of a block are pushed by
   induction on their number (`Counted`);
3. each handler, given a machine that runs (`Running`, or `Good` where no block may be
   open), leaves one that does, unless it stops (`Runs`, `GoesOn`). The walk of `Lookup` up
   single predecessors is well-founded because of `Linked` (`Recursion` gives the function,
   by rank);
4. each action is a handler on the task popped (`PoppedMachine`), hence `NextKeeps`, and
   `AlwaysEmitInv` by temporal induction; a handler that stops leaves only its message.

Every step also gives `Follows(ir, ir')`: ended blocks are frozen and a started one gains
no predecessor. That is `LeftBlocksFrozen`, and it is what makes the client of ir::builder
assumed by `IrBuilder` the real one: the emitter starts no block twice.

### The emitter's own assertions, and its phis

`InternalAsserts` are the assertions by which the emitter and the builder check
themselves: that a block is open, or that none is, when one starts or ends, that a phi is
in progress, that a scope has a parent, that a branch is written once, that the buffer of
a join does not overflow. `Refusals` are those that stop a program that is not supported
or an arena that is full. `CompilerProofs` shows that `fault` is only ever one of the
latter, from `EmitSafe`, which adds to `EmitInv`

* `Proper(ir)`, about the code: the entry has no predecessors; a conditional branch tests
  the last instruction of its block, which has a value (`Tested`); a block that returns
  leads nowhere and returns once (`Returns`); the emitter uses six opcodes, of which all
  but nop and ret have a value (`Known`); and each phi `Finds` an argument;
* `Sits(ir, tasks)`, about what is under way: an ifs allocates its join before its arms,
  so that what it allocates later is entered from its dominator or from within (`Region`),
  and the ifs that wait nest.

A handler's lemma shows that it keeps both and which messages it can stop with
(`...Decent`). `Finds` says that there is a set `C` of blocks, the phi's own among them, in
which going back along any path one meets a block that computes an argument before one
leaves `C` and before the entry (`Cover`): for the phi of a join, the blocks of its region.
It is what `PhiAlwaysFindsOne` needs, as no set of blocks reached from the entry around the
arguments, in any number of rounds, can meet `C` (`CoverUnreached`); and it has no recursion
in it, so that a handler can keep it.

### The pipeline

`PipeInv` is `EmitInv` and `EmitSafe`, and during execution `Executes`: control is about to
enter a block (`AtBlock`) or in one before an instruction (`InBody`), and

* `Passed(B, V, b)`: control has come to `b` along a path from the entry. No path is
  written down: for any set `C` with `b` in it that is entered only through blocks of `A`,
  some block of `A` has been executed. With the `Cover` of a phi for `C` and the blocks of
  its arguments for `A`, an argument has a value (`PhiFinds`);
* no instruction from control on has a value, for blocks are entered in the order of their
  ranges (`Linked`): so no key is added twice;
* every instruction of the block before control has its value, so an operand, which is
  older and in the same block (`OperandsLocal`), has one, and so has what a branch tests;
* if there is a value returned, a `ret` of this block has been executed, which is its last
  instruction that counts.

`StartKeeps`, one lemma per action of the interpreter (`...Executed`) and `EmittedRests`,
which says that the emitter has stopped for good, give `PipeKeeps`.

### What is only model-checked

* Liveness (`CallsReturn`, `LoopsThatDefineEnd`, `ExecutionEnds`) and `WorkDecreases`.
* What computes over trees by recursion: `AnswersAreRight`, `SourceOrder`,
  `ReassignmentsAreRefused`. Their operators are RECURSIVE, and induction over the shape
  of a tree is beyond the prover; over pointers, which are numbers, it is replaced by the
  least counterexample (section "The tree builder").

* `SupportedNeverAborts`, which says of whole trees that no step refuses them.

## 5. What is not modelled

* `str` (a copy of bytes and a comparison: names are model values; with it the assertion
  of `ident` that a name is not empty), log output, the buffer of 256 bytes included in
  which the interpreter writes the arguments of a phi for the log and which about 41 of
  them fill (`param_buff`, `src/interp.cpp:90-101`: the models take it to be large enough), the
  destructor of `arena`, `stack::clear` (called by nothing) and the Makefile.
* `emit_exp_unary`, `emit_resolve_or_queue` and SUSPEND tasks: nothing reaches them.
* The comparison of a declaration's type with "u64" (marked HACK), as types are not
  modelled: every declaration has the one type.
* The capacity of the interpreter's value map; the byte sizes of arenas. `MaxBlocks`
  stands for the smallest of the three arenas a block takes from (390 blocks, because a
  block takes 256 of the 100,000 nodes of `value_maps`), `MaxScopes` likewise (97).
* `emit_stmt_block` with no statement is modelled, but ast::builder makes no such tree.

## 6. What the runs found

Five statements of the code the code violates, each with the shortest tree in
`MCFindings`:

1. `no_else`: an ifs without else never compiles, though the merge step provides for it
   (`src/ir-emit.cpp:323`).
2. `lost_update`: an assignment in an arm, followed there by a nested block, is lost at
   the join, and the program returns the old value (`src/ir-emit.cpp:349-369`,
   `src/interp.cpp:85`).
3. `not_set`: a variable not set in an ifs cannot be read after it
   (`src/ir-emit.cpp:587`).
4. `else_inside`: `push_if` accepts a condition after an else; the emitter stops
   (`src/ast-builder.hpp:99-102`, `src/ir-emit.cpp:253`).
5. `after_block`: an ifs after a nested block stops the emitter (`src/ir-emit.cpp:335`).

Limits of the code the models reproduce and no line of the repository denies: a second
assignment to a variable in one block is a duplicate key (`src/map.hpp:62`; exactly when,
`ReassignmentsAreRefused` says); a second ifs
whose dominator is a join without the value stops at the assertion marked HACK
(`src/ir-emit.cpp:367`); after an ifs all of whose arms return, the join has no
predecessors and a read there reports "undeclared?"; `x` and `y` are the first and second
symbols whatever is declared (`src/symbol.cpp:47`), so shadowing shares a value; an
operator that is not lowered leaves its right operand as its result, and a condition that
emits nothing branches on the instruction before it.

## 7. Plan

Done: all the modules above with their instances and abstract specifications, and the
theorems of section 4. Nothing is left to model that keeps state, but for the items of
section 5.

Next, to prove: `SupportedNeverAborts`, by saying in `EmitInv` what of the tree each task
still has to lower.

## 8. Running

    tlc -workers 2 -config MCIrBuilder.cfg MCIrBuilder      about 90 s
    tlc -workers 2 -config MCIrEmit.cfg MCIrEmit            about 10 s
    tlc -workers 2 -config MCCompiler.cfg MCCompiler        about 20 s
    tlc -workers 2 -config MCInterp.cfg MCInterp            about 70 s
    tlc -workers 2 -config MCAstBuilder.cfg MCAstBuilder    about 70 s
    tlc -workers 2 -config MCHashTrie.cfg MCHashTrie        about 90 s
    tlc -workers 2 -config RingQueue.cfg RingQueue          about 5 s
    tlc -workers 2 -config NoElse.cfg MCFindings            and the other four
    tlapm IrOpsProofs.tla                                   about 2 min
    tlapm IrBuilderProofs.tla                               about 30 s
    tlapm IrEmitProofs.tla, CompilerProofs.tla              about 10 min each
    tlapm RingQueueProofs.tla, InterpProofs.tla             about 1 min each
    tlapm HashTrieProofs.tla                                about 3 min
    tlapm AstBuilderProofs.tla                              about 6 min
