---------------------------- MODULE ReaderTable ----------------------------
(***************************************************************************)
(* What the reader registry promises, without its vector, its lock and its *)
(* statements: a table that gives every registry key at most one reader.   *)
(* It starts as the table panduck ships, and all that ever happens to it   *)
(* is that one key is given to one admitted user row.  No key is ever      *)
(* freed, and no builtin row comes back once it has been overridden.       *)
(* ReaderRegistry is shown to implement it.                                *)
(***************************************************************************)
CONSTANTS
    Key,      \* registry keys: a dot-suffix, a URL scheme, or the empty key
    UserRow,  \* the rows a registration may store
    Shipped   \* [Key -> row or none]: the table at construction

VARIABLE reader  \* [Key -> row or none]

Init == reader = Shipped

\* One key is claimed for one admitted row; every other key keeps its reader.
Claim(k) ==
    /\ reader'[k] \in UserRow
    /\ reader'[k].ext = k
    /\ reader' = [reader EXCEPT ![k] = reader'[k]]

Next == \E k \in Key : Claim(k)

Spec == Init /\ [][Next]_reader
=============================================================================
