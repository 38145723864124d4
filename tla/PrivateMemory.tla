---------------------------- MODULE PrivateMemory ---------------------------
(***************************************************************************)
(* What the address spaces promise to a program: a memory of its own, that *)
(* starts with the contents of its file and that nobody else changes.      *)
(***************************************************************************)
CONSTANTS Task, Address,
          StartMemories,      \* the memories a program can start with
          Written(_, _),      \* Written(c, t): content c, after t wrote to it
          NotRunning          \* the memory of a task that runs no program

VARIABLE memory  \* memory[t]: what the program of t reads at each address

Init == memory = [t \in Task |-> NotRunning]

Begin(t) ==
  /\ memory[t] = NotRunning
  /\ \E m \in StartMemories : memory' = [memory EXCEPT ![t] = m]

Write(t) ==
  /\ memory[t] # NotRunning
  /\ \E a \in Address : memory' = [memory EXCEPT ![t][a] = Written(@, t)]

End(t) ==
  /\ memory[t] # NotRunning
  /\ memory' = [memory EXCEPT ![t] = NotRunning]

Next == \E t \in Task : Begin(t) \/ Write(t) \/ End(t)

Spec == Init /\ [][Next]_memory
=============================================================================
