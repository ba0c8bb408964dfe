----------------------------- MODULE LeafMemory -----------------------------
(***************************************************************************)
(* What the witness builders want of the state tree: an array of leaves.   *)
(* A client loads the leaf of its user and may store another one as long   *)
(* as the leaf still is what it loaded (a compare-and-swap).               *)
(***************************************************************************)
CONSTANTS
    Positions,  \* the user ids
    LeafValues, \* what a leaf can be
    Unused,     \* the leaf of a user nobody has registered
    Clients,
    Nothing     \* nothing loaded

VARIABLES
    memory,     \* [Positions -> LeafValues]
    position,   \* [Clients -> Positions]
    loaded      \* [Clients -> LeafValues \cup {Nothing}]

memory_vars == <<memory, position, loaded>>

MemoryInit ==
    /\ memory = [u \in Positions |-> Unused]
    /\ position \in [Clients -> Positions]
    /\ loaded = [c \in Clients |-> Nothing]

Load(c) ==
    /\ loaded' = [loaded EXCEPT ![c] = memory[position[c]]]
    /\ UNCHANGED <<memory, position>>

Forget(c) ==
    /\ loaded' = [loaded EXCEPT ![c] = Nothing]
    /\ UNCHANGED <<memory, position>>

Store(c, new) ==
    /\ loaded[c] = memory[position[c]]
    /\ memory' = [memory EXCEPT ![position[c]] = new]
    /\ loaded' = [loaded EXCEPT ![c] = Nothing]
    /\ UNCHANGED position

MemoryNext ==
    \E c \in Clients : Load(c) \/ Forget(c) \/ \E new \in LeafValues : Store(c, new)

MemorySpec == MemoryInit /\ [][MemoryNext]_memory_vars
=============================================================================
