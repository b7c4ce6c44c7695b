-------------------------------- MODULE Lists --------------------------------
(***************************************************************************)
(* Sequences used as lists, of messages, of tasks or of canvases: what     *)
(* they hold, how one element is put in or cut out, what is left of one    *)
(* when delMessagesForDest() has removed some of its messages, and the one *)
(* that the links of a linked list stand for.                              *)
(***************************************************************************)
EXTENDS Naturals, Sequences, FiniteSets

Elements(s) == {s[i] : i \in 1..Len(s)}

NoDuplicates(s) == \A i, j \in 1..Len(s) : s[i] = s[j] => i = j

\* Where x is in s, s without its k-th element, and s with x as its k-th.
Place(s, x) == CHOOSE i \in 1..Len(s) : s[i] = x
Cut(s, k) == [i \in 1..(Len(s) - 1) |-> IF i < k THEN s[i] ELSE s[i + 1]]
Put(s, k, x) ==
    [i \in 1..(Len(s) + 1) |->
        IF i < k THEN s[i] ELSE IF i = k THEN x ELSE s[i - 1]]

\* The places of s that hold no element of S, in order, when there are n.
KeptPlaces(s, S, n) ==
    {f \in [1..n -> 1..Len(s)] :
        /\ \A i, j \in 1..n : i < j => f[i] < f[j]
        /\ \A k \in 1..Len(s) : s[k] \notin S <=> \E i \in 1..n : f[i] = k}

\* s without its elements in S: a set of one sequence, as no recursion is then
\* needed to say which one.
Purges(s, S) ==
    UNION {{[i \in 1..n |-> s[f[i]]] : f \in KeptPlaces(s, S, n)} :
           n \in 0..Len(s)}

\* The list that starts at m when link leads from each member to the next one
\* and, from the last one, to null: its first n members.
Walk(link, m, null, n) ==
    LET at[i \in 1..n] == IF i = 1 THEN m
                          ELSE LET p == at[i - 1]
                               IN  IF p = null THEN null ELSE link[p]
    IN  [i \in 1..Cardinality({j \in 1..n : at[j] # null}) |-> at[i]]
=============================================================================
