--------------------------- MODULE ReaderRegistry ---------------------------
(***************************************************************************)
(* The process-wide reader registry (src/src/reader_registry.cpp) and the  *)
(* statements that write it.                                               *)
(*                                                                         *)
(* The registry is one vector of rows behind one mutex.  Every session of  *)
(* the process reads it through single-row lookups and writes it through   *)
(* panduck_register_doc_reader / panduck_register_table_reader.  A         *)
(* registration is a DuckDB table function: its BIND reads the session's   *)
(* panduck_allow_registration and validates the call, its SCAN stores one  *)
(* row per extension, taking the lock once per row.  A bound statement may *)
(* be executed later, more than once (PREPARE), or never (EXPLAIN), and    *)
(* other sessions run between any two of these steps.                      *)
(***************************************************************************)
EXTENDS Naturals, Sequences

CONSTANTS
    Session,              \* connections sharing the process
    Key,                  \* registry keys
    Segment,              \* what stands between two dots of an extension
    Lower,                \* [Segment -> Key]: lower-casing, as NormalizeExt does
    Name,                 \* names of formats and of DuckDB extensions, "" is none
    Function,             \* what a caller passes as a function name, and ""
    QualifiedIdentifier,  \* the functions IsQualifiedIdentifier accepts
    Option,               \* reader options a caller passes
    WellFormedOption,     \* the ones RegisterBind's checks let through
    Seeds,                \* the rows the constructor stores, in order
    Call,                 \* registration calls the sessions make
    NoCall,               \* "no statement": not a call
    NoRow                 \* "no such row": not a row

Kind == {"doc", "table"}

Row == [ext : Key, format : Name, reader_ext : Name, function : Function,
        kind : Kind, source : {"builtin", "user"}, options : SUBSET Option]

\* Rows a registration may leave behind: whatever RegisterBind lets through.
UserRow == [ext : Key, format : Name, reader_ext : Name,
            function : QualifiedIdentifier, kind : Kind, source : {"user"},
            options : SUBSET WellFormedOption]

ASSUME ConstantsAssumption ==
    /\ Lower \in [Segment -> Key]
    /\ QualifiedIdentifier \subseteq Function \ {""}
    /\ WellFormedOption \subseteq Option
    /\ Call \subseteq [reader_ext : Name, function : Function, kind : Kind,
                       exts : Seq(Seq(Segment) \ {<< >>}),
                       options : SUBSET Option]
    /\ NoCall \notin Call
    /\ NoRow \notin Row

\* The shipped table claims no key twice (SEEDS and FORMATS are disjoint).
ASSUME SeedsAssumption ==
    /\ Seeds \in Seq(Row)
    /\ \A i, j \in DOMAIN Seeds : Seeds[i].ext = Seeds[j].ext => i = j
    /\ \A i \in DOMAIN Seeds : Seeds[i].source = "builtin"

VARIABLES
    entries,  \* ReaderRegistry::entries
    allow,    \* allow[s]: s's panduck_allow_registration
    stmt      \* stmt[s]: the registration statement s has bound, if any

vars == <<entries, allow, stmt>>

-----------------------------------------------------------------------------
(* The registry's own operations, each under its lock.                     *)

Matches(table, k) == {i \in DOMAIN table : table[i].ext = k}

First(I) == CHOOSE i \in I : \A j \in I : i <= j

\* ReaderRegistry::Lookup: the first row for the key, copied out.
LookupIn(table, k) ==
    IF Matches(table, k) = {} THEN NoRow ELSE table[First(Matches(table, k))]

Lookup(k) == LookupIn(entries, k)

\* Mutated forms of Stored: no search for the key; the wrong row replaced.
StoredByAppending(table, row) == Append(table, row)
StoredOverTheLast(table, row) ==
    IF Matches(table, row.ext) = {} THEN Append(table, row)
    ELSE [table EXCEPT ![Len(table)] = row]

\* ReaderRegistry::Register: replace the first row for the key, or append.
Stored(table, row) ==
    IF Matches(table, row.ext) = {}
    THEN Append(table, row)
    ELSE [table EXCEPT ![First(Matches(table, row.ext))] = row]

\* ReaderRegistry::BuiltinFormat: read from the map frozen by the
\* constructor.  No lock is taken: nothing writes the map afterwards.
BuiltinFormat(k) ==
    LET r == LookupIn(Seeds, k) IN IF r = NoRow THEN "" ELSE r.format

-----------------------------------------------------------------------------
(* What RegisterBind checks and RegisterScan builds.                       *)

\* Mutated form: the registration is keyed by the extension as it was spelled.
RegistrationKeyAsSpelled(raw) == raw[Len(raw)]

\* ExtOfPath("x" + "." + raw): the part after the last dot, lower-cased.  An
\* extension ending in a dot, or the empty one, gives the empty key.
RegistrationKey(raw) == Lower[raw[Len(raw)]]

\* Mutated forms: one of RegisterBind's checks is missing.
AcceptedWithAnyFunction(c) == c.exts # << >> /\ c.options \subseteq WellFormedOption
AcceptedWithAnyOption(c) == c.exts # << >> /\ c.function \in QualifiedIdentifier

Accepted(c) ==
    /\ c.function \in QualifiedIdentifier
    /\ c.exts # << >>
    /\ c.options \subseteq WellFormedOption

RowFor(c, raw) ==
    [ext |-> RegistrationKey(raw), format |-> c.reader_ext,
     reader_ext |-> c.reader_ext, function |-> c.function,
     kind |-> c.kind, source |-> "user", options |-> c.options]

-----------------------------------------------------------------------------
NoStatement == [pc |-> "idle", call |-> NoCall, next |-> 1]

Init ==
    /\ entries = Seeds
    /\ allow = [s \in Session |-> TRUE]
    /\ stmt = [s \in Session |-> NoStatement]

\* The setting s sees changes: its own SET, or another session's SET GLOBAL.
SetAllowRegistration(s, b) ==
    /\ allow[s] # b
    /\ allow' = [allow EXCEPT ![s] = b]
    /\ UNCHANGED <<entries, stmt>>

\* A call that is refused raises here and leaves everything as it was.
RegisterBind(s, c) ==
    /\ stmt[s].pc = "idle"
    /\ allow[s]
    /\ Accepted(c)
    /\ stmt' = [stmt EXCEPT ![s] = [pc |-> "bound", call |-> c, next |-> 1]]
    /\ UNCHANGED <<entries, allow>>

\* Execution starts: a fresh RegisterGlobalState over the same bind data.
Execute(s) ==
    /\ stmt[s].pc = "bound"
    /\ stmt' = [stmt EXCEPT ![s].pc = "scanning", ![s].next = 1]
    /\ UNCHANGED <<entries, allow>>

\* One turn of RegisterScan's loop.  The statement stays bound afterwards.
RegisterScan(s) ==
    LET c == stmt[s].call
        n == stmt[s].next
    IN  /\ stmt[s].pc = "scanning"
        /\ entries' = Stored(entries, RowFor(c, c.exts[n]))
        /\ stmt' = [stmt EXCEPT
                      ![s].pc   = IF n = Len(c.exts) THEN "bound" ELSE @,
                      ![s].next = IF n = Len(c.exts) THEN 1 ELSE n + 1]
        /\ UNCHANGED allow

\* The statement ends: executed and dropped, or never executed at all.
Deallocate(s) ==
    /\ stmt[s].pc = "bound"
    /\ stmt' = [stmt EXCEPT ![s] = NoStatement]
    /\ UNCHANGED <<entries, allow>>

Next ==
    \E s \in Session :
        \/ \E b \in BOOLEAN : SetAllowRegistration(s, b)
        \/ \E c \in Call : RegisterBind(s, c)
        \/ Execute(s)
        \/ RegisterScan(s)
        \/ Deallocate(s)

Spec == Init /\ [][Next]_vars

-----------------------------------------------------------------------------
(* Properties.                                                             *)

\* The registry is a vector of rows and every statement is one that was bound
\* from an accepted call, with its cursor inside the call's extension list.
TypeOK ==
    /\ entries \in Seq(Row)
    /\ allow \in [Session -> BOOLEAN]
    /\ stmt \in [Session -> [pc : {"idle", "bound", "scanning"},
                             call : Call \cup {NoCall}, next : Nat]]

\* A statement past its bind holds an accepted call and a cursor inside it.
StatementsAccepted ==
    \A s \in Session :
        stmt[s].pc # "idle" =>
            /\ stmt[s].call \in Call
            /\ Accepted(stmt[s].call)
            /\ stmt[s].next \in 1 .. Len(stmt[s].call.exts)

\* "There is exactly one reader per extension" (reader_registry.hpp), however
\* the sessions' registrations of overlapping extension lists interleave.
OneRowPerKey ==
    \A i, j \in DOMAIN entries : entries[i].ext = entries[j].ext => i = j

\* "An ill-formed row never reaches the registry" (RegisterBind): validation
\* happens statements before the store, and every stored user row passed it.
UserRowsAdmitted ==
    \A i \in DOMAIN entries : entries[i].source = "user" => entries[i] \in UserRow

\* Dispatch tests a key's function in one lookup and renders it in another.
\* That is sound only because a key that names a function never stops naming
\* one: rows are never removed and only functions are ever written.
FunctionNeverLost ==
    [][\A k \in Key :
         (Lookup(k) # NoRow /\ Lookup(k).function # "") =>
             (Lookup(k)' # NoRow /\ Lookup(k)'.function # "")]_vars

\* The vector implements the table: see ReaderTable.
Table == INSTANCE ReaderTable WITH
    reader  <- [k \in Key |-> Lookup(k)],
    Shipped <- [k \in Key |-> LookupIn(Seeds, k)]

ImplementsTable == Table!Spec
=============================================================================
