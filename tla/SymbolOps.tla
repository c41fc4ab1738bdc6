------------------------------ MODULE SymbolOps -----------------------------
(***************************************************************************)
(* symbol_table (symbol.cpp, symbol.hpp): the tree of scopes and their     *)
(* declarations, as operators on a record L.                               *)
(***************************************************************************)
EXTENDS Naturals, Sequences, Memory

CONSTANTS MaxScopes,     \* capacity in scopes: scopes, and 1024 of sym_lists each
          MaxSymbols,    \* capacity of the symbols arena
          MaxDecls       \* 1024, the decl_symbols stack of one scope

ASSUME SymbolBounds == {MaxScopes, MaxSymbols, MaxDecls} \subseteq Nat

NOT_RESOLVED == NULL

scope_t == [parent : Nat, decl_symbols : Seq(Nat)]

\* The assertions of the symbol table and of its arenas
table_failure == {"Arena reached max capacity", "next < max", "current_scope->parent != NULL"}

symbol_table == [scopes : Seq(scope_t), symbols : Seq([scope_decl : Nat]),
                 current_scope : Nat, fault : table_failure \cup {NoFault}]

new_scope(L) ==
    Checked(L, Len(L.scopes) < MaxScopes, "Arena reached max capacity",
            [L EXCEPT !.scopes = Append(@, [parent |-> L.current_scope,
                                            decl_symbols |-> <<>>]),
                      !.current_scope = Len(L.scopes) + 1])

NewSymbolTable ==
    new_scope([scopes |-> <<>>, symbols |-> <<>>, current_scope |-> NULL,
               fault |-> NoFault])

end_scope(L) ==
    Checked(L, L.scopes[L.current_scope].parent # NULL,
            "current_scope->parent != NULL",
            [L EXCEPT !.current_scope = L.scopes[L.current_scope].parent])

\* The name is not stored: resolve knows two names by heart.
new_symbol(L) ==
    Checked(L, Len(L.symbols) < MaxSymbols, "Arena reached max capacity",
    Checked(L, Len(L.scopes[L.current_scope].decl_symbols) < MaxDecls, "next < max",
            [L EXCEPT !.symbols = Append(@, [scope_decl |-> L.current_scope]),
                      !.scopes[L.current_scope].decl_symbols =
                          Append(@, Len(L.symbols) + 1)]))

\* "x" is the first symbol of the arena and "y" the second, declared or not
resolve(name) == CASE name = "x" -> 1
                   [] name = "y" -> 2
                   [] OTHER      -> NOT_RESOLVED

-----------------------------------------------------------------------------
\* The chain of a scope and its parents: a parent is older than its child
Depth(L) ==
    LET depth[s \in 0..Len(L.scopes)] ==
            IF s = NULL THEN 0 ELSE 1 + depth[L.scopes[s].parent]
    IN  depth[L.current_scope]

\* The declarations of the current scope, then of its parent, and so on
VisibleSymbols(L) ==
    LET visible[s \in 0..Len(L.scopes)] ==
            IF s = NULL THEN <<>>
            ELSE L.scopes[s].decl_symbols \o visible[L.scopes[s].parent]
    IN  visible[L.current_scope]

=============================================================================
