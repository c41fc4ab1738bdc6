------------------------------ MODULE MCInterp -------------------------------
(***************************************************************************)
(* The interpreter by itself, over more code than the emitter makes:       *)
(* every kind of branch, loops, operands from anywhere, a block without    *)
(* instructions, and a second exec of the same interpreter.                *)
(***************************************************************************)
EXTENDS Interp, FiniteSets

CONSTANT MaxExecs

VARIABLES entry,      \* the block of the last exec
          execs       \* how many there were

mcVars == <<interpVars, entry, execs>>

ins(o, l, r) == [op |-> o, left |-> l, right |-> r]
end(b, t, f) == [br |-> b, block_true |-> t, block_false |-> f]
Conditions   == {"eq", "neq", "lt", "lte", "gt", "gte"}

block(h, n, e) == [head |-> h, next |-> n, br |-> e.br,
                   block_true |-> e.block_true, block_false |-> e.block_false]
Blocks(e1, e2, e3) == <<block(1, 2, e1), block(3, 3, e2), block(4, 5, e3),
                        block(NULL, NULL, end("UNUSED", NULL, NULL))>>

\* What the three blocks end with, and what the five instructions are
Ends1 == {end(c, 2, 3) : c \in Conditions}
Ends2 == {end("unconditional", NULL, NULL), end("unconditional", 3, NULL),
          end("unconditional", 1, NULL), end("neq", 2, 3)}
Ends3 == {end("unconditional", NULL, NULL), end("unconditional", 2, NULL),
          end("unconditional", 4, NULL), end("UNUSED", NULL, NULL)}
Ins1  == {ins("i", 0, 0), ins("i", 3, 0)}
Ins2  == {ins("mul", 1, 1), ins("sub", 3, 1), ins("div", 1, 3)}
Ins3  == {ins("nop", 0, 0), ins("add", 2, 1), ins("i", 2, 0)}
Ins4  == {ins("phi", 1, 2), ins("phi", 3, 2), ins("sub", 2, 1), ins("nop", 0, 0)}
Ins5  == {ins("ret", 4, 0), ins("add", 3, 4)}

Programs ==
    { [blocks |-> Blocks(e1, e2, e3), ssas |-> <<i1, i2, i3, i4, i5>>,
       phi_lists |-> <<3, 2, 1, NULL>>] :
        e1 \in Ends1, e2 \in Ends2, e3 \in Ends3,
        i1 \in Ins1, i2 \in Ins2, i3 \in Ins3, i4 \in Ins4, i5 \in Ins5 }

Init == /\ ir \in Programs
        /\ fault = NoFault
        /\ InterpInit
        /\ entry = NULL /\ execs = 0

Running == fault = NoFault /\ (pc # NULL \/ ctx.block # NULL)

Exec == /\ fault = NoFault /\ ~ Running /\ execs < MaxExecs
        /\ \E b \in 0..Len(ir.blocks) : Start(b) /\ entry' = b
        /\ execs' = execs + 1

Execution == Step /\ UNCHANGED <<entry, execs>>

Idle == ~ Running /\ (fault # NoFault \/ execs = MaxExecs) /\ UNCHANGED mcVars

Next == Exec \/ Execution \/ Idle

Spec == Init /\ [][Next]_mcVars /\ WF_mcVars(Execution)

-----------------------------------------------------------------------------
(***************************************************************************)
(* Control flow and what well-formed code is: every operand is computed    *)
(* before its use, on every path to it.                                    *)
(***************************************************************************)
Successors(b) == {ir.blocks[b].block_true, ir.blocks[b].block_false} \ {NULL}
Body(b)       == IF ir.blocks[b].head = NULL THEN {} ELSE ir.blocks[b].head..ir.blocks[b].next

\* The blocks on paths from entry that do not pass through avoided: the least
\* set with entry and, of each block in it that is not avoided, the successors
ReachedAround(avoided) ==
    LET closed == {R \in SUBSET (1..Len(ir.blocks)) :
                     entry \in R /\ \A b \in R \ avoided : Successors(b) \subseteq R}
    IN  {b \in 1..Len(ir.blocks) : \A R \in closed : b \in R} \ avoided

defines(s)    == ir.ssas[s].op \notin {"nop", "dbg", "ret"}
arithmetic(s) == ir.ssas[s].op \in {"add", "sub", "mul", "div"}
operands(s)   == {ir.ssas[s].left, ir.ssas[s].right}

\* o is computed before s, an instruction of block b: earlier in b, or in a
\* block that every path to b passes.
ComputedBefore(o, s, b) ==
    /\ o \in 1..Len(ir.ssas) /\ defines(o)
    /\ \/ o \in Body(b) /\ o < s
       \/ \E d \in 1..Len(ir.blocks) \ {b} : o \in Body(d) /\ b \notin ReachedAround({d})

WellFormed == \A b \in ReachedAround({}), s \in 1..Len(ir.ssas) :
                 s \in Body(b) /\ arithmetic(s) => \A o \in operands(s) : ComputedBefore(o, s, b)

-----------------------------------------------------------------------------
(***************************************************************************)
(* Properties.                                                             *)
(***************************************************************************)
Value == 0..Modulus - 1

TypeOK ==
    /\ ctx.block \in 0..Len(ir.blocks) /\ ctx.return_value \in 0..Len(ir.ssas)
    /\ pc # NULL => pc \in Body(cur) \cup {ir.blocks[cur].next + 1} /\ ctx.block = NULL
    /\ ssa_values # <<>> => ssa_values \in [1..Len(ir.ssas) -> Value \cup {Unset}]

\* What an instruction says of its value v and of those of its operands
Equation(op, v, l, r) == CASE op = "add" -> v = (l + r) % Modulus
                           [] op = "sub" -> (v + r) % Modulus = l
                           [] op = "mul" -> v = (l * r) % Modulus
                           [] op = "div" -> r * v <= l /\ l < r * (v + 1)

\* Each value is what its instruction says of the values of its operands, all
\* computed: in well-formed code, the -1 of a missing operand enters no
\* result of a first exec, on any path.
ValuesSolveTheCode ==
    execs = 1 /\ entry # NULL /\ WellFormed =>
        \A s \in 1..Len(ir.ssas) : has_value(s) /\ arithmetic(s) =>
            /\ \A o \in operands(s) : has_value(o)
            /\ Equation(ir.ssas[s].op, ssa_values[s],
                        ssa_values[ir.ssas[s].left], ssa_values[ir.ssas[s].right])

Defining(b) == {s \in Body(b) : defines(s)}
Valued(b)   == {s \in Defining(b) : has_value(s)}

\* A block that computes anything runs once, and whole.  However control comes
\* back to it, round a loop or in a later exec, whose map of values is the same,
\* it computes nothing a second time: what has run of the block control is in
\* is all of it that has a value, and any other block has all of its values
\* or none.
BlocksRunOnce ==
    fault = NoFault => \A b \in 1..Len(ir.blocks) :
        LET done == {s \in Defining(b) : pc # NULL /\ b = cur /\ s < pc}
        IN  IF done = {} THEN Valued(b) \in {{}, Defining(b)} ELSE Valued(b) = done

\* Where the values there are at the end send control after b
SentTo(b) ==
    LET e == ir.blocks[b]
    IN  CASE e.br = "unconditional" -> e.block_true
          [] e.br \in Conditions /\ has_value(e.next) ->
                IF Holds(e.br, ssa_values[e.next]) THEN e.block_true ELSE e.block_false
          [] OTHER -> NULL

\* The blocks they lead to from entry
ValuesPath ==
    LET closed == {R \in SUBSET (1..Len(ir.blocks)) :
                     entry \in R /\ \A b \in R : SentTo(b) \in R \cup {NULL}}
    IN  {b \in 1..Len(ir.blocks) : \A R \in closed : b \in R}

\* The path of a first exec and the values it leaves agree: what has values is
\* on the path they lead along, and if exec returns, all of that path has.  No
\* branch was decided by a value of another pass, or of another instruction.
ValuesTellThePath ==
    execs = 1 /\ entry # NULL =>
        LET path == ValuesPath
        IN  /\ \A b \in 1..Len(ir.blocks) : Valued(b) # {} => b \in path
            /\ fault = NoFault /\ ~ Running => \A b \in path : Valued(b) = Defining(b)

\* A loop that computes anything ends, on the key it adds twice: whatever the
\* code, exec returns or stops, unless it goes round blocks that define nothing.
LoopsThatDefineEnd ==
    \/ Running ~> ~ Running
    \/ <>[](Running /\ (cur # NULL => \A s \in Body(cur) : ~ defines(s)))

=============================================================================
