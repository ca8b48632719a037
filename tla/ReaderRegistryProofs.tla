------------------------ MODULE ReaderRegistryProofs ------------------------
(* The reader registry's invariants, its step property and its refinement  *)
(* of ReaderTable, for every set of sessions, keys, calls and seeds.       *)
EXTENDS ReaderRegistry, SequenceTheorems, TLAPS

Unique(T) == \A i, j \in DOMAIN T : T[i].ext = T[j].ext => i = j

\* The inductive invariant.  UserRowsAdmitted needs StatementsAccepted, since
\* the store relies on a validation done steps earlier, and every fact about
\* the row that Lookup returns needs OneRowPerKey.
IInv == TypeOK /\ StatementsAccepted /\ OneRowPerKey /\ UserRowsAdmitted

-----------------------------------------------------------------------------
(* Lemmas about the table operators.                                       *)

\* When keys are unique, the first matching row is the only one.
LEMMA UniqueMatch ==
    ASSUME NEW T \in Seq(Row), Unique(T), NEW i \in DOMAIN T
    PROVE  /\ Matches(T, T[i].ext) = {i}
           /\ First(Matches(T, T[i].ext)) = i
           /\ LookupIn(T, T[i].ext) = T[i]
<1>1. Matches(T, T[i].ext) = {i}
  BY DEF Unique, Matches
<1>2. i \in Nat
  BY LenProperties
<1>3. First({i}) = i
  BY <1>2 DEF First
<1> QED
  BY <1>1, <1>3 DEF LookupIn

\* A key with no row is absent; a key with one is present, and under its key.
LEMMA LookupRow ==
    ASSUME NEW T \in Seq(Row), Unique(T), NEW k
    PROVE  \/ /\ Matches(T, k) = {}
              /\ LookupIn(T, k) = NoRow
           \/ \E i \in DOMAIN T :
                /\ Matches(T, k) = {i}
                /\ T[i].ext = k
                /\ LookupIn(T, k) = T[i]
<1>1. CASE Matches(T, k) = {}
  BY <1>1 DEF LookupIn
<1>2. CASE Matches(T, k) # {}
  <2>1. PICK i \in DOMAIN T : T[i].ext = k
    BY <1>2 DEF Matches
  <2> QED
    BY <2>1, UniqueMatch
<1> QED
  BY <1>1, <1>2

\* Storing a row changes exactly the reader of its key: the table stays a
\* table, every other key keeps its row, and nothing is added but the row.
LEMMA StoredProperties ==
    ASSUME NEW T \in Seq(Row), Unique(T), NEW r \in Row
    PROVE  /\ Stored(T, r) \in Seq(Row)
           /\ Unique(Stored(T, r))
           /\ \A j \in DOMAIN Stored(T, r) :
                Stored(T, r)[j] = r \/ \E i \in DOMAIN T : Stored(T, r)[j] = T[i]
           /\ \A k : LookupIn(Stored(T, r), k) =
                        IF k = r.ext THEN r ELSE LookupIn(T, k)
<1> DEFINE S == Stored(T, r)
<1>1. CASE Matches(T, r.ext) = {}
  <2>1. S = Append(T, r)
    BY <1>1 DEF Stored
  <2>2. /\ S \in Seq(Row)
        /\ DOMAIN S = DOMAIN T \cup {Len(T) + 1}
        /\ Len(T) + 1 \notin DOMAIN T
        /\ \A i \in DOMAIN T : S[i] = T[i]
        /\ S[Len(T) + 1] = r
    BY <2>1, AppendProperties, LenProperties
  <2>3. \A i \in DOMAIN T : T[i].ext # r.ext
    BY <1>1 DEF Matches
  <2>4. Unique(S)
    BY <2>2, <2>3 DEF Unique
  <2>5. LookupIn(S, r.ext) = r
    BY <2>2, <2>4, UniqueMatch
  <2>6. ASSUME NEW k, k # r.ext
        PROVE  LookupIn(S, k) = LookupIn(T, k)
    <3>1. Matches(S, k) = Matches(T, k)
      BY <2>2, <2>6 DEF Matches
    <3>2. CASE Matches(T, k) = {}
      BY <3>1, <3>2 DEF LookupIn
    <3>3. CASE Matches(T, k) # {}
      <4>1. PICK i \in DOMAIN T : T[i].ext = k
        BY <3>3 DEF Matches
      <4> QED
        BY <4>1, <2>2, <2>4, UniqueMatch
    <3> QED
      BY <3>2, <3>3
  <2> QED
    BY <2>2, <2>4, <2>5, <2>6
<1>2. CASE Matches(T, r.ext) # {}
  <2>1. PICK n \in DOMAIN T : T[n].ext = r.ext
    BY <1>2 DEF Matches
  <2>2. S = [T EXCEPT ![n] = r]
    BY <1>2, <2>1, UniqueMatch DEF Stored
  <2>3. /\ S \in Seq(Row)
        /\ DOMAIN S = DOMAIN T
        /\ S[n] = r
        /\ \A i \in DOMAIN T : i # n => S[i] = T[i]
    BY <2>1, <2>2, ExceptSeq, LenProperties
  <2>4. \A i \in DOMAIN T : S[i].ext = T[i].ext
    BY <2>1, <2>3
  <2>5. Unique(S)
    BY <2>3, <2>4 DEF Unique
  <2>6. LookupIn(S, r.ext) = r
    BY <2>1, <2>3, <2>5, UniqueMatch
  <2>7. ASSUME NEW k, k # r.ext
        PROVE  LookupIn(S, k) = LookupIn(T, k)
    <3>1. Matches(S, k) = Matches(T, k)
      BY <2>3, <2>4 DEF Matches
    <3>2. CASE Matches(T, k) = {}
      BY <3>1, <3>2 DEF LookupIn
    <3>3. CASE Matches(T, k) # {}
      <4>1. PICK i \in DOMAIN T : T[i].ext = k
        BY <3>3 DEF Matches
      <4>2. i # n
        BY <4>1, <2>1, <2>7
      <4> QED
        BY <4>1, <4>2, <2>3, <2>5, UniqueMatch
    <3> QED
      BY <3>2, <3>3
  <2> QED
    BY <2>3, <2>5, <2>6, <2>7
<1> QED
  BY <1>1, <1>2

\* The row a bound call stores is one that registration admits.
LEMMA RowForAdmitted ==
    ASSUME NEW c \in Call, Accepted(c), NEW n \in 1 .. Len(c.exts)
    PROVE  RowFor(c, c.exts[n]) \in UserRow
<1>1. c \in [reader_ext : Name, function : Function, kind : Kind,
             exts : Seq(Seq(Segment) \ {<< >>}), options : SUBSET Option]
  BY ConstantsAssumption
<1>2. c.exts[n] \in Seq(Segment) \ {<< >>}
  BY <1>1, ElementOfSeq
<1>3. c.exts[n][Len(c.exts[n])] \in Segment
  <2>1. Len(c.exts[n]) \in 1 .. Len(c.exts[n])
    BY <1>2, EmptySeq, LenProperties
  <2> QED
    BY <1>2, <2>1, ElementOfSeq
<1>4. RegistrationKey(c.exts[n]) \in Key
  BY <1>3, ConstantsAssumption DEF RegistrationKey
<1> QED
  BY <1>1, <1>4 DEF RowFor, UserRow, Accepted

\* Every admitted row is a row.
LEMMA UserRowIsRow == UserRow \subseteq Row
  BY ConstantsAssumption DEF UserRow, Row

-----------------------------------------------------------------------------
(* The inductive invariant.                                                *)

LEMMA InitInvariant == Init => IInv
<1> SUFFICES ASSUME Init PROVE IInv
  OBVIOUS
<1>1. TypeOK
  BY SeedsAssumption DEF Init, TypeOK, NoStatement
<1>2. StatementsAccepted
  BY DEF Init, StatementsAccepted, NoStatement
<1>3. OneRowPerKey
  BY SeedsAssumption DEF Init, OneRowPerKey
<1>4. UserRowsAdmitted
  BY SeedsAssumption DEF Init, UserRowsAdmitted
<1> QED
  BY <1>1, <1>2, <1>3, <1>4 DEF IInv

\* What a turn of the scan loop stores: the row of an accepted call, into a
\* table with unique keys.
LEMMA ScanStoresAdmittedRow ==
    ASSUME IInv, NEW s \in Session, RegisterScan(s)
    PROVE  \E r \in UserRow :
             /\ r \in Row
             /\ entries' = Stored(entries, r)
<1>1. /\ stmt[s].call \in Call
      /\ Accepted(stmt[s].call)
      /\ stmt[s].next \in 1 .. Len(stmt[s].call.exts)
  BY DEF IInv, StatementsAccepted, RegisterScan
<1>2. RowFor(stmt[s].call, stmt[s].call.exts[stmt[s].next]) \in UserRow
  BY <1>1, RowForAdmitted
<1> QED
  BY <1>2, UserRowIsRow DEF RegisterScan

\* A turn of the scan loop keeps the invariant.
LEMMA ScanKeepsInvariant ==
    ASSUME IInv, NEW s \in Session, RegisterScan(s)
    PROVE  IInv'
<1>1. PICK r \in UserRow : r \in Row /\ entries' = Stored(entries, r)
  BY ScanStoresAdmittedRow
<1>2. entries \in Seq(Row) /\ Unique(entries)
  BY DEF IInv, TypeOK, OneRowPerKey, Unique
<1>3. /\ entries' \in Seq(Row)
      /\ Unique(entries')
      /\ \A j \in DOMAIN entries' :
           entries'[j] = r \/ \E i \in DOMAIN entries : entries'[j] = entries[i]
  BY <1>1, <1>2, StoredProperties
<1>4. /\ stmt[s].call \in Call
      /\ Accepted(stmt[s].call)
      /\ stmt[s].next \in 1 .. Len(stmt[s].call.exts)
  BY DEF IInv, StatementsAccepted, RegisterScan
<1>5. /\ stmt[s].call.exts # << >>
      /\ Len(stmt[s].call.exts) \in Nat \ {0}
  <2>1. stmt[s].call.exts \in Seq(Seq(Segment) \ {<< >>})
    BY <1>4, ConstantsAssumption
  <2> QED
    BY <1>4, <2>1, LenProperties, EmptySeq DEF Accepted
<1>6. TypeOK'
  <2>1. stmt' \in [Session -> [pc : {"idle", "bound", "scanning"},
                               call : Call \cup {NoCall}, next : Nat]]
    <3> DEFINE last == stmt[s].next = Len(stmt[s].call.exts)
               pc == IF last THEN "bound" ELSE stmt[s].pc
               next == IF last THEN 1 ELSE stmt[s].next + 1
    <3>1. stmt' = [stmt EXCEPT ![s].pc = pc, ![s].next = next]
      BY DEF RegisterScan
    <3>2. pc \in {"idle", "bound", "scanning"} /\ next \in Nat
      BY <1>4, <1>5 DEF IInv, TypeOK
    <3>3. stmt \in [Session -> [pc : {"idle", "bound", "scanning"},
                               call : Call \cup {NoCall}, next : Nat]]
      BY DEF IInv, TypeOK
    <3> HIDE DEF pc, next
    <3> QED
      BY <3>1, <3>2, <3>3
  <2> QED
    BY <1>3, <2>1 DEF IInv, TypeOK, RegisterScan
<1>7. StatementsAccepted'
  <2> SUFFICES ASSUME NEW t \in Session, stmt'[t].pc # "idle"
               PROVE  /\ stmt'[t].call \in Call
                      /\ Accepted(stmt'[t].call)
                      /\ stmt'[t].next \in 1 .. Len(stmt'[t].call.exts)
    BY DEF StatementsAccepted
  <2>1. CASE t = s
    <3>1. /\ stmt'[s].call = stmt[s].call
          /\ stmt'[s].next = IF stmt[s].next = Len(stmt[s].call.exts)
                             THEN 1 ELSE stmt[s].next + 1
      BY DEF IInv, TypeOK, RegisterScan
    <3>2. stmt'[s].next \in 1 .. Len(stmt[s].call.exts)
      BY <3>1, <1>4, <1>5
    <3> QED
      BY <2>1, <3>1, <3>2, <1>4
  <2>2. CASE t # s
    BY <2>2 DEF IInv, TypeOK, StatementsAccepted, RegisterScan
  <2> QED
    BY <2>1, <2>2
<1>8. OneRowPerKey'
  BY <1>3 DEF OneRowPerKey, Unique
<1>9. UserRowsAdmitted'
  BY <1>3 DEF IInv, UserRowsAdmitted
<1> QED
  BY <1>6, <1>7, <1>8, <1>9 DEF IInv

\* Every step keeps the invariant.
LEMMA StepKeepsInvariant == IInv /\ [Next]_vars => IInv'
<1> SUFFICES ASSUME IInv, [Next]_vars PROVE IInv'
  OBVIOUS
<1>1. CASE UNCHANGED vars
  BY <1>1 DEF IInv, TypeOK, StatementsAccepted, OneRowPerKey, UserRowsAdmitted, vars
<1>2. ASSUME NEW s \in Session, NEW b \in BOOLEAN, SetAllowRegistration(s, b)
      PROVE  IInv'
  <2>1. TypeOK'
    BY <1>2 DEF IInv, TypeOK, SetAllowRegistration
  <2> QED
    BY <1>2, <2>1 DEF IInv, StatementsAccepted, OneRowPerKey, UserRowsAdmitted,
                      SetAllowRegistration
<1>3. ASSUME NEW s \in Session, NEW c \in Call, RegisterBind(s, c)
      PROVE  IInv'
  <2>1. TypeOK'
    BY <1>3 DEF IInv, TypeOK, RegisterBind
  <2>2. 1 \in 1 .. Len(c.exts)
    <3>1. c.exts \in Seq(Seq(Segment) \ {<< >>}) /\ c.exts # << >>
      BY <1>3, ConstantsAssumption DEF RegisterBind, Accepted
    <3> QED
      BY <3>1, LenProperties, EmptySeq
  <2>3. StatementsAccepted'
    BY <1>3, <2>2 DEF IInv, TypeOK, StatementsAccepted, RegisterBind
  <2> QED
    BY <1>3, <2>1, <2>3 DEF IInv, OneRowPerKey, UserRowsAdmitted, RegisterBind
<1>4. ASSUME NEW s \in Session, Execute(s)
      PROVE  IInv'
  <2>1. TypeOK'
    BY <1>4 DEF IInv, TypeOK, Execute
  <2>2. 1 \in 1 .. Len(stmt[s].call.exts)
    BY <1>4 DEF IInv, StatementsAccepted, Execute
  <2>3. StatementsAccepted'
    BY <1>4, <2>2 DEF IInv, TypeOK, StatementsAccepted, Execute
  <2> QED
    BY <1>4, <2>1, <2>3 DEF IInv, OneRowPerKey, UserRowsAdmitted, Execute
<1>5. ASSUME NEW s \in Session, RegisterScan(s)
      PROVE  IInv'
  BY <1>5, ScanKeepsInvariant
<1>6. ASSUME NEW s \in Session, Deallocate(s)
      PROVE  IInv'
  <2>1. TypeOK'
    BY <1>6 DEF IInv, TypeOK, Deallocate, NoStatement
  <2>2. StatementsAccepted'
    BY <1>6 DEF IInv, TypeOK, StatementsAccepted, Deallocate, NoStatement
  <2> QED
    BY <1>6, <2>1, <2>2 DEF IInv, OneRowPerKey, UserRowsAdmitted, Deallocate
<1> QED
  BY <1>1, <1>2, <1>3, <1>4, <1>5, <1>6 DEF Next

\* The conjunction that carries the proofs is invariant.
THEOREM InductiveInvariant == Spec => []IInv
  BY InitInvariant, StepKeepsInvariant, PTL DEF Spec

-----------------------------------------------------------------------------
(* The results.                                                            *)

\* Type correctness: in particular every stored key is a normalised one.
THEOREM TypeCorrect == Spec => []TypeOK
  BY InductiveInvariant, PTL DEF IInv

\* However registrations interleave, a key has at most one reader.
THEOREM KeysStayUnique == Spec => []OneRowPerKey
  BY InductiveInvariant, PTL DEF IInv

\* What the bind refused is never stored, however much later the scan runs.
THEOREM OnlyAdmittedRowsStored == Spec => []UserRowsAdmitted
  BY InductiveInvariant, PTL DEF IInv

\* A key that names a function goes on naming one, at every step.
THEOREM FunctionsAreNeverLost == Spec => FunctionNeverLost
<1> DEFINE Kept == \A k \in Key :
                     (Lookup(k) # NoRow /\ Lookup(k).function # "") =>
                         (Lookup(k)' # NoRow /\ Lookup(k)'.function # "")
<1>1. IInv /\ [Next]_vars => [Kept]_vars
  <2> SUFFICES ASSUME IInv, Next PROVE Kept
    OBVIOUS
  <2>1. CASE UNCHANGED entries
    BY <2>1 DEF Lookup
  <2>2. ASSUME NEW s \in Session, RegisterScan(s)
        PROVE  Kept
    <3>1. PICK r \in UserRow : r \in Row /\ entries' = Stored(entries, r)
      BY <2>2, ScanStoresAdmittedRow
    <3>2. \A k : Lookup(k)' = IF k = r.ext THEN r ELSE Lookup(k)
      BY <3>1, StoredProperties DEF IInv, TypeOK, OneRowPerKey, Unique, Lookup
    <3>3. r # NoRow /\ r.function # ""
      BY <3>1, ConstantsAssumption DEF UserRow
    <3> QED
      BY <3>2, <3>3
  <2> QED
    BY <2>1, <2>2 DEF Next, SetAllowRegistration, RegisterBind, Execute, Deallocate
<1> QED
  BY <1>1, InductiveInvariant, PTL DEF Spec, FunctionNeverLost

\* The vector, its lock and the statements implement the abstract table.
THEOREM RegistryImplementsTable == Spec => ImplementsTable
<1> DEFINE Readers == [k \in Key |-> Lookup(k)]
<1>1. Init => Table!Init
  BY DEF Init, Table!Init, Lookup
<1>2. IInv /\ [Next]_vars => [Table!Next]_Readers
  <2> SUFFICES ASSUME IInv, [Next]_vars PROVE [Table!Next]_Readers
    OBVIOUS
  <2>1. CASE UNCHANGED entries
    BY <2>1 DEF Lookup
  <2>2. ASSUME NEW s \in Session, RegisterScan(s)
        PROVE  Table!Next
    <3>1. PICK r \in UserRow : r \in Row /\ entries' = Stored(entries, r)
      BY <2>2, ScanStoresAdmittedRow
    <3>2. \A k : Lookup(k)' = IF k = r.ext THEN r ELSE Lookup(k)
      BY <3>1, StoredProperties DEF IInv, TypeOK, OneRowPerKey, Unique, Lookup
    <3>3. r.ext \in Key
      BY DEF UserRow
    <3>4. Readers' = [Readers EXCEPT ![r.ext] = r]
      BY <3>2, <3>3
    <3>5. Readers'[r.ext] = r
      BY <3>2, <3>3
    <3>6. Table!Claim(r.ext)
      BY <3>4, <3>5 DEF Table!Claim
    <3> QED
      BY <3>3, <3>6 DEF Table!Next
  <2> QED
    BY <2>1, <2>2 DEF Next, SetAllowRegistration, RegisterBind, Execute, Deallocate, vars
<1> QED
  BY <1>1, <1>2, InductiveInvariant, PTL DEF Spec, ImplementsTable, Table!Spec
=============================================================================
