-------------------------- MODULE ReadMacrosProofs --------------------------
(* What the read macros make of a call: of a list of paths read against a  *)
(* registry that changes underneath (ReadArms), and of a call that         *)
(* read_panduck_doc or read_panduck_table dispatches (DocDispatch), for    *)
(* every call, every policy and every set of registrations.                *)
EXTENDS ReadArms, DocDispatch, ReaderRegistryProofs

-----------------------------------------------------------------------------
(* Lists of paths.                                                         *)

\* While the policy runs, a path of a builtin format waits for its frozen name
\* or has it; once the policy has let the list through, so has the policy.
BuiltinNamed ==
    \A i \in DOMAIN source :
        BuiltinFormatFor(source[i]) # Null =>
            /\ phase = "policy" =>
                 \/ job[i].pc = "builtin"
                 \/ job[i].pc = "named" /\ job[i].name = BuiltinFormatFor(source[i])
            /\ phase \in {"arms", "text"} => BuiltinFormatFor(source[i]) \in EnabledName

ReadIInv == IInv /\ ReadTypeOK /\ BuiltinNamed

-----------------------------------------------------------------------------
(* The scalars' results.                                                   *)

\* A lookup finds a row of the registry, or the empty row.
LEMMA FoundRow ==
    ASSUME TypeOK, OneRowPerKey, NEW p
    PROVE  \/ Found(p) = Row0
           \/ \E i \in DOMAIN entries : Found(p) = entries[i] /\ entries[i] \in Row
<1>1. entries \in Seq(Row) /\ Unique(entries)
  BY DEF TypeOK, OneRowPerKey, Unique
<1>2. CASE p = Null \/ Lookup(KeyOf[p]) = NoRow
  BY <1>2 DEF Found
<1>3. CASE p # Null /\ Lookup(KeyOf[p]) # NoRow
  <2>1. PICK i \in DOMAIN entries : Lookup(KeyOf[p]) = entries[i]
    BY <1>1, <1>3, LookupRow DEF Lookup
  <2>2. entries[i] \in Row
    BY <1>1, <2>1, ElementOfSeq, LenProperties
  <2> QED
    BY <1>3, <2>1, <2>2 DEF Found
<1> QED
  BY <1>2, <1>3

\* The empty row's fields are empty.
LEMMA Row0Fields ==
    /\ Row0.format = ""
    /\ Row0.ext = ""
    /\ Row0.function = ""
    /\ Row0.options = {}
  BY DEF Row0

\* What a lookup finds has the type of a row, or is the empty row.
LEMMA FoundTyped ==
    ASSUME TypeOK, OneRowPerKey, NEW p
    PROVE  /\ FormatFor(p) \in PolicyName
           /\ RegistryKeyFor(p) \in PolicyName
           /\ ReaderFunctionFor(p) \in ReaderFunction
           /\ Found(p).options \subseteq Option
<1>1. CASE Found(p) = Row0
  BY <1>1, Row0Fields DEF FormatFor, RegistryKeyFor, ReaderFunctionFor, OrNull,
               PolicyName, ReaderFunction
<1>2. CASE Found(p) \in Row
  BY <1>2 DEF Row, FormatFor, RegistryKeyFor, ReaderFunctionFor, OrNull,
               PolicyName, ReaderFunction
<1> QED
  BY <1>1, <1>2, FoundRow

\* A frozen name is a name, so it is NULL only for a key panduck does not ship.
LEMMA BuiltinFormatTyped ==
    ASSUME NEW p
    PROVE  BuiltinFormatFor(p) \in PolicyName
<1>1. Seeds \in Seq(Row) /\ Unique(Seeds)
  BY SeedsAssumption DEF Unique
<1>2. CASE LookupIn(Seeds, KeyOf[p]) = NoRow
  BY <1>2 DEF BuiltinFormat, BuiltinFormatFor, OrNull, PolicyName
<1>3. CASE LookupIn(Seeds, KeyOf[p]) # NoRow
  <2>1. PICK i \in DOMAIN Seeds : LookupIn(Seeds, KeyOf[p]) = Seeds[i]
    BY <1>1, <1>3, LookupRow
  <2>2. Seeds[i] \in Row
    BY <1>1, <2>1, ElementOfSeq, LenProperties
  <2>3. BuiltinFormat(KeyOf[p]) \in Name
    BY <1>3, <2>1, <2>2 DEF BuiltinFormat, Row
  <2> QED
    BY <2>3, PathsAssumption DEF BuiltinFormatFor, OrNull, PolicyName
<1> QED
  BY <1>2, <1>3

-----------------------------------------------------------------------------
(* Types.                                                                  *)

\* Moving a job on keeps the jobs typed and leaves every other job alone.
LEMMA MoveTyped ==
    ASSUME ReadTypeOK, NEW i \in DOMAIN job, NEW pc \in Progress, NEW with \in Job,
           Move(i, pc, with)
    PROVE  /\ job' \in [DOMAIN source -> Job]
           /\ DOMAIN job' = DOMAIN job
           /\ job'[i] = [with EXCEPT !.pc = pc]
           /\ job'[i].pc = pc
           /\ job'[i].name = with.name
           /\ \A j \in DOMAIN job : j # i => job'[j] = job[j]
<1>1. [with EXCEPT !.pc = pc] \in Job
  BY DEF Job
<1>2. job \in [DOMAIN source -> Job]
  BY DEF ReadTypeOK
<1>3. job' = [job EXCEPT ![i] = [with EXCEPT !.pc = pc]]
  BY DEF Move
<1>4. [with EXCEPT !.pc = pc].pc = pc /\ [with EXCEPT !.pc = pc].name = with.name
  BY DEF Job
<1> HIDE DEF Job
<1> QED
  BY <1>1, <1>2, <1>3, <1>4

\* Every step of one path is a move to a known point, or an error.
LEMMA PathStepMoves ==
    ASSUME IInv, ReadTypeOK, NEW i \in DOMAIN job, PathStep(i)
    PROVE  /\ UNCHANGED <<vars, source, option>>
           /\ \/ /\ UNCHANGED phase
                 /\ \E pc \in Progress, with \in Job : Move(i, pc, with)
              \/ /\ phase' = "failed"
                 /\ UNCHANGED job
<1>1. job[i] \in Job
  BY DEF ReadTypeOK
<1>2. TypeOK /\ OneRowPerKey
  BY DEF IInv
<1>3. \A p : /\ FormatFor(p) \in PolicyName
             /\ RegistryKeyFor(p) \in PolicyName
             /\ ReaderFunctionFor(p) \in ReaderFunction
             /\ Found(p).options \subseteq Option
  BY <1>2, FoundTyped
<1>4. ASSUME NEW from, NEW name \in PolicyName,
             NEW otherwise \in Progress, NamedBy(i, from, name, otherwise)
      PROVE  /\ UNCHANGED <<vars, phase, source, option>>
             /\ \E pc \in Progress, with \in Job : Move(i, pc, with)
  <2>1. [job[i] EXCEPT !.name = name] \in Job
    BY <1>1 DEF Job
  <2>2. "named" \in Progress
    BY DEF Progress
  <2> QED
    BY <1>1, <1>4, <2>1, <2>2 DEF NamedBy
<1>5. ASSUME NEW pc \in Progress, NEW with \in Job, Continue(i, pc, with)
      PROVE  /\ UNCHANGED <<vars, phase, source, option>>
             /\ \E q \in Progress, w \in Job : Move(i, q, w)
  BY <1>5 DEF Continue
<1>6. /\ "format" \in Progress /\ "key" \in Progress /\ "claimed" \in Progress
      /\ "named" \in Progress /\ "extension" \in Progress /\ "ensure" \in Progress
      /\ "complain" \in Progress /\ "emit" \in Progress /\ "option" \in Progress
      /\ "render" \in Progress /\ "arm" \in Progress /\ "dropped" \in Progress
  BY DEF Progress
<1>7. CASE AskBuiltinFormat(i)
  BY <1>7, <1>4, <1>6, BuiltinFormatTyped DEF AskBuiltinFormat
<1>8. CASE AskFormat(i)
  BY <1>8, <1>3, <1>4, <1>6 DEF AskFormat
<1>9. CASE AskKey(i)
  BY <1>9, <1>3, <1>4, <1>6 DEF AskKey
<1>10. CASE AskClaimed(i)
  BY <1>10, <1>4, <1>6 DEF AskClaimed, PolicyName
<1>11. CASE CheckFunction(i)
  BY <1>11, <1>1, <1>5, <1>6 DEF CheckFunction, RaiseError
<1>12. CASE CheckExtension(i)
  BY <1>12, <1>1, <1>5, <1>6 DEF CheckExtension
<1>13. CASE EnsureExtension(i)
  BY <1>13, <1>1, <1>5, <1>6 DEF EnsureExtension
<1>14. CASE Complain(i)
  BY <1>14, <1>1, <1>5, <1>6 DEF Complain, RaiseError
<1>15. CASE Emit(i)
  <2>1. [job[i] EXCEPT !.function = ReaderFunctionFor(source[i])] \in Job
    BY <1>1, <1>3 DEF Job
  <2> QED
    BY <1>15, <2>1, <1>5, <1>6 DEF Emit
<1>16. CASE CheckOption(i)
  BY <1>16, <1>1, <1>5, <1>6 DEF CheckOption, RaiseError
<1>17. CASE RenderOption(i)
  <2>1. \A o \in Found(source[i]).options : [job[i] EXCEPT !.option = o] \in Job
    BY <1>1, <1>3 DEF Job
  <2> QED
    BY <1>17, <2>1, <1>5, <1>6 DEF RenderOption, RaiseError
<1> QED
  BY <1>7, <1>8, <1>9, <1>10, <1>11, <1>12, <1>13, <1>14, <1>15, <1>16, <1>17
  DEF PathStep

-----------------------------------------------------------------------------
(* The policy.                                                             *)

\* One path's step keeps BuiltinNamed.
LEMMA PathStepKeepsBuiltinNamed ==
    ASSUME ReadIInv, NEW i \in DOMAIN job, PathStep(i)
    PROVE  BuiltinNamed'
<1>1. /\ UNCHANGED <<vars, source, option>>
      /\ \/ /\ UNCHANGED phase
            /\ \E pc \in Progress, with \in Job : Move(i, pc, with)
         \/ /\ phase' = "failed"
            /\ UNCHANGED job
  BY PathStepMoves DEF ReadIInv
<1>2. \A p : BuiltinFormatFor(p)' = BuiltinFormatFor(p)
  BY DEF BuiltinFormatFor, BuiltinFormat
<1>3. CASE phase' = "failed"
  BY <1>3 DEF BuiltinNamed
<1>4. CASE UNCHANGED phase /\ phase # "policy"
  BY <1>1, <1>2, <1>4 DEF ReadIInv, BuiltinNamed
<1>5. CASE UNCHANGED phase /\ phase = "policy"
  <2>1. PICK pc \in Progress, with \in Job : Move(i, pc, with)
    BY <1>1, <1>5
  <2>2. \A j \in DOMAIN job : j # i => job'[j] = job[j]
    BY <2>1, MoveTyped DEF ReadIInv
  <2>3. ASSUME BuiltinFormatFor(source[i]) # Null
        PROVE  job'[i].pc = "named" /\ job'[i].name = BuiltinFormatFor(source[i])
    <3>1. DOMAIN job = DOMAIN source /\ job[i] \in Job
      BY DEF ReadIInv, ReadTypeOK
    <3>2. job[i].pc \in {"builtin", "named"}
      BY <2>3, <1>5, <3>1 DEF ReadIInv, BuiltinNamed
    <3>3. AskBuiltinFormat(i)
      BY <3>2, <1>5 DEF PathStep, AskFormat, AskKey, AskClaimed, NamedBy, CheckFunction,
                        CheckExtension, EnsureExtension, Complain, Emit, CheckOption,
                        RenderOption, Step
    <3> DEFINE named == [job[i] EXCEPT !.name = BuiltinFormatFor(source[i])]
    <3>4. Move(i, "named", named)
      BY <2>3, <3>3 DEF AskBuiltinFormat, NamedBy
    <3>5. named \in Job /\ named.name = BuiltinFormatFor(source[i])
      <4>1. BuiltinFormatFor(source[i]) \in PolicyName
        BY BuiltinFormatTyped
      <4> QED
        BY <3>1, <4>1 DEF Job
    <3> HIDE DEF named
    <3>6. job \in [DOMAIN source -> Job]
      BY DEF ReadIInv, ReadTypeOK
    <3>7. job'[i] = [named EXCEPT !.pc = "named"]
      BY <3>4, <3>6 DEF Move
    <3>8. job'[i].pc = "named" /\ job'[i].name = named.name
      BY <3>5, <3>7 DEF Job
    <3> QED
      BY <3>5, <3>8
  <2>4. DOMAIN job = DOMAIN source
    BY DEF ReadIInv, ReadTypeOK
  <2> QED
    BY <1>1, <1>2, <1>5, <2>2, <2>3, <2>4 DEF ReadIInv, BuiltinNamed
<1> QED
  BY <1>1, <1>3, <1>4, <1>5

\* One path's step keeps the types.
LEMMA PathStepKeepsTypes ==
    ASSUME IInv, ReadTypeOK, NEW i \in DOMAIN job, PathStep(i)
    PROVE  ReadTypeOK'
<1>1. /\ UNCHANGED <<vars, source, option>>
      /\ \/ /\ UNCHANGED phase
            /\ \E pc \in Progress, with \in Job : Move(i, pc, with)
         \/ /\ phase' = "failed"
            /\ UNCHANGED job
  BY PathStepMoves
<1>2. job' \in [DOMAIN source -> Job]
  <2>1. CASE UNCHANGED job
    BY <2>1, <1>1 DEF ReadTypeOK
  <2>2. ASSUME NEW pc \in Progress, NEW with \in Job, Move(i, pc, with)
        PROVE  job' \in [DOMAIN source -> Job]
    BY <2>2, MoveTyped
  <2> QED
    BY <1>1, <2>1, <2>2
<1> QED
  BY <1>1, <1>2 DEF ReadTypeOK

LEMMA ReadInitInvariant == Init /\ ReadInit => ReadIInv
<1> SUFFICES ASSUME Init, ReadInit PROVE ReadIInv
  OBVIOUS
<1>1. DOMAIN << >> = {}
  BY EmptySeq, LenProperties
<1>2. ReadTypeOK
  <2>1. << >> \in [1 .. 0 -> Job] /\ DOMAIN << >> = 1 .. 0
    BY EmptySeq, LenProperties
  <2> QED
    BY <2>1 DEF ReadInit, ReadTypeOK
<1>3. BuiltinNamed
  BY <1>1 DEF ReadInit, BuiltinNamed
<1> QED
  BY <1>2, <1>3, InitInvariant DEF ReadIInv

\* A registry step, or none, keeps the read's invariant.
LEMMA RegistryStepKeepsRead ==
    ASSUME ReadIInv, [Next]_vars, UNCHANGED readVars
    PROVE  ReadIInv'
<1>1. IInv'
  BY StepKeepsInvariant DEF ReadIInv
<1>2. ReadTypeOK'
  BY DEF ReadIInv, ReadTypeOK, readVars
<1>3. BuiltinNamed'
  BY DEF ReadIInv, BuiltinNamed, BuiltinFormatFor, BuiltinFormat, readVars
<1> QED
  BY <1>1, <1>2, <1>3 DEF ReadIInv

\* The read's own steps leave the registry alone and keep the invariant.
LEMMA ReadStepKeepsInvariant == ReadIInv /\ [ReadNext]_<<vars, readVars>> => ReadIInv'
<1> SUFFICES ASSUME ReadIInv, [ReadNext]_<<vars, readVars>> PROVE ReadIInv'
  OBVIOUS
<1>0. UNCHANGED vars => IInv'
  BY StepKeepsInvariant DEF ReadIInv
<1>1. CASE UNCHANGED <<vars, readVars>>
  BY <1>1, RegistryStepKeepsRead
<1>2. ASSUME NEW ps \in Source, NEW opt \in BOOLEAN, StartRead(ps, opt)
      PROVE  ReadIInv'
  <2>1. NewJob \in Job
    BY DEF NewJob, Job, Progress, PolicyName, ReaderFunction
  <2>2. ReadTypeOK'
    BY <1>2, <2>1 DEF StartRead, ReadTypeOK
  <2>3. BuiltinNamed'
    BY <1>2 DEF StartRead, BuiltinNamed, NewJob
  <2> QED
    BY <1>0, <1>2, <2>2, <2>3 DEF StartRead, ReadIInv
<1>3. ASSUME NEW i \in DOMAIN job, PathStep(i)
      PROVE  ReadIInv'
  <2>1. UNCHANGED vars
    BY <1>3, PathStepMoves DEF ReadIInv
  <2> QED
    BY <1>0, <1>3, <2>1, PathStepKeepsTypes, PathStepKeepsBuiltinNamed DEF ReadIInv
<1>4. CASE JudgePolicy
  <2>1. DOMAIN job = DOMAIN source /\ job \in [DOMAIN source -> Job]
    BY DEF ReadIInv, ReadTypeOK
  <2>2. \A i \in DOMAIN source : [job[i] EXCEPT !.pc = "function"] \in Job
    BY <2>1 DEF Job, Progress
  <2>3. ReadTypeOK'
    BY <1>4, <2>1, <2>2 DEF JudgePolicy, ReadIInv, ReadTypeOK
  <2>4. BuiltinNamed'
    <3>1. CASE phase' = "refused"
      BY <3>1 DEF BuiltinNamed
    <3>2. CASE phase' = "arms"
      <4>1. \A i \in DOMAIN source :
              BuiltinFormatFor(source[i]) # Null =>
                  BuiltinFormatFor(source[i]) \in EnabledName
        BY <1>4, <3>2, <2>1 DEF JudgePolicy, ReaderEnabled, ReadIInv, BuiltinNamed
      <4> QED
        BY <1>4, <3>2, <4>1 DEF JudgePolicy, BuiltinNamed, BuiltinFormatFor, BuiltinFormat
    <3> QED
      BY <1>4, <3>1, <3>2 DEF JudgePolicy
  <2> QED
    BY <1>0, <1>4, <2>3, <2>4 DEF JudgePolicy, ReadIInv
<1>5. CASE Join
  <2>1. ReadTypeOK'
    BY <1>5 DEF Join, ReadIInv, ReadTypeOK
  <2>2. BuiltinNamed'
    BY <1>5 DEF Join, ReadIInv, BuiltinNamed, BuiltinFormatFor, BuiltinFormat
  <2> QED
    BY <1>0, <1>5, <2>1, <2>2 DEF Join, ReadIInv
<1>6. CASE Next /\ UNCHANGED readVars
  BY <1>6, RegistryStepKeepsRead
<1> QED
  BY <1>1, <1>2, <1>3, <1>4, <1>5, <1>6 DEF ReadNext

\* The conjunction that carries the policy proof is invariant.
THEOREM ReadInvariant == ReadSpec => []ReadIInv
  BY ReadInitInvariant, ReadStepKeepsInvariant, PTL DEF ReadSpec

\* No list that holds a path of a disabled builtin format is ever turned into
\* a query, for any policy, any list and any registrations that interleave.
THEOREM BuiltinStaysDenied == ReadSpec => []BuiltinDenied
<1>1. ReadIInv => BuiltinDenied
  BY BuiltinFormatTyped DEF ReadIInv, BuiltinNamed, BuiltinDenied
<1> QED
  BY <1>1, ReadInvariant, PTL

-----------------------------------------------------------------------------
(* Whole lists.  When every reader names its extension, an arm could only  *)
(* be lost to a function that vanished between two lookups, and a function *)
(* never does.                                                             *)

\* Every row with a function has an extension.
RowsNameExtension ==
    \A i \in DOMAIN entries : entries[i].function # "" => entries[i].reader_ext # ""

\* The points of the macro that follow its function check.
PastFunctionCheck == {"extension", "ensure", "complain", "emit", "option", "render",
                      "arm", "dropped"}

\* A path past its function check still has a function, and is not dropped.
FunctionsStillThere ==
    \A i \in DOMAIN source :
        /\ phase = "policy" => job[i].pc \notin PastFunctionCheck
        /\ job[i].pc \in PastFunctionCheck => Found(source[i]).function # ""
        /\ job[i].pc # "dropped"

\* The text is only joined once every path has an arm.
TextIsComplete ==
    phase = "text" => \A i \in DOMAIN source : job[i].pc \in {"arm", "dropped"}

WholeIInv == ReadIInv /\ RowsNameExtension /\ FunctionsStillThere /\ TextIsComplete

\* What a registry step does to the rows, seen from every path.
LEMMA RegistryStepKeepsFunctions ==
    ASSUME IInv, [Next]_vars, ExtensionsNamed, RowsNameExtension
    PROVE  /\ RowsNameExtension'
           /\ \A p : Found(p).function # "" => Found(p)'.function # ""
<1>1. CASE UNCHANGED entries
  BY <1>1 DEF RowsNameExtension, Found, Lookup
<1>2. ASSUME NEW s \in Session, RegisterScan(s)
      PROVE  /\ RowsNameExtension'
             /\ \A p : Found(p).function # "" => Found(p)'.function # ""
  <2> DEFINE c == stmt[s].call
             r == RowFor(c, c.exts[stmt[s].next])
  <2>1. /\ c \in Call
        /\ Accepted(c)
        /\ stmt[s].next \in 1 .. Len(c.exts)
    BY <1>2 DEF IInv, StatementsAccepted, RegisterScan
  <2>2. r \in UserRow
    BY <2>1, RowForAdmitted
  <2>3. /\ r \in Row
        /\ r.function # ""
        /\ r.reader_ext # ""
        /\ r # NoRow
    <3>1. r.reader_ext = c.reader_ext
      BY DEF RowFor
    <3>2. r \in Row
      BY <2>2, UserRowIsRow
    <3>3. r.function \in QualifiedIdentifier
      BY <2>2 DEF UserRow
    <3> QED
      BY <2>1, <3>1, <3>2, <3>3, ConstantsAssumption DEF ExtensionsNamed
  <2>4. entries' = Stored(entries, r)
    BY <1>2 DEF RegisterScan
  <2> HIDE DEF r
  <2>5. entries \in Seq(Row) /\ Unique(entries)
    BY DEF IInv, TypeOK, OneRowPerKey, Unique
  <2>6. /\ \A j \in DOMAIN entries' :
             entries'[j] = r \/ \E i \in DOMAIN entries : entries'[j] = entries[i]
        /\ \A k : LookupIn(entries', k) = IF k = r.ext THEN r ELSE LookupIn(entries, k)
    <3> HIDE DEF Unique
    <3> QED
      BY <2>3, <2>4, <2>5, StoredProperties
  <2>7. RowsNameExtension'
    BY <2>3, <2>6 DEF RowsNameExtension
  <2>8. \A p : Found(p).function # "" => Found(p)'.function # ""
    BY <2>3, <2>6 DEF Found, Lookup
  <2> QED
    BY <2>7, <2>8
<1>3. UNCHANGED entries \/ \E s \in Session : RegisterScan(s)
  BY DEF Next, SetAllowRegistration, RegisterBind, Execute, Deallocate, vars
<1> QED
  BY <1>1, <1>2, <1>3

\* A path whose row names a function has an extension the error can name.
LEMMA FunctionMeansExtension ==
    ASSUME IInv, RowsNameExtension, NEW p, Found(p).function # ""
    PROVE  ReaderExtensionFor(p) # Null /\ ReaderFunctionFor(p) # Null
<1>1. Found(p) # Row0
  BY Row0Fields
<1>2. PICK i \in DOMAIN entries : Found(p) = entries[i] /\ entries[i] \in Row
  BY <1>1, FoundRow DEF IInv
<1>3. /\ Found(p).reader_ext \in Name \ {""}
      /\ Found(p).function \in Function \ {""}
  BY <1>2 DEF RowsNameExtension, Row
<1> QED
  BY <1>3, PathsAssumption DEF ReaderExtensionFor, ReaderFunctionFor, OrNull

\* One path's step goes past the function check only with a function, and
\* never to "dropped".
LEMMA PathStepDropsNothing ==
    ASSUME WholeIInv, NEW i \in DOMAIN job, PathStep(i), job' # job
    PROVE  \E pc \in Progress, with \in Job :
             /\ Move(i, pc, with)
             /\ UNCHANGED <<vars, phase, source, option>>
             /\ pc # "dropped"
             /\ pc \in PastFunctionCheck =>
                  phase = "arms" /\ Found(source[i]).function # ""
<1>1. job[i] \in Job /\ DOMAIN job = DOMAIN source
  BY DEF WholeIInv, ReadIInv, ReadTypeOK
<1>2. /\ job[i].pc \in PastFunctionCheck => Found(source[i]).function # ""
      /\ Found(source[i]).function # "" =>
           ReaderExtensionFor(source[i]) # Null /\ ReaderFunctionFor(source[i]) # Null
  BY <1>1, FunctionMeansExtension DEF WholeIInv, ReadIInv, FunctionsStillThere
<1>3. IInv /\ ReadTypeOK /\ TypeOK /\ OneRowPerKey
  BY DEF WholeIInv, ReadIInv, IInv
<1>4. ASSUME NEW from, NEW name \in PolicyName,
             NEW otherwise \in Progress \ PastFunctionCheck,
             NamedBy(i, from, name, otherwise)
      PROVE  \E pc \in Progress, with \in Job :
               /\ Move(i, pc, with)
               /\ UNCHANGED <<vars, phase, source, option>>
               /\ pc \notin PastFunctionCheck
  <2>1. [job[i] EXCEPT !.name = name] \in Job
    BY <1>1 DEF Job
  <2>2. "named" \in Progress /\ "named" \notin PastFunctionCheck
    BY DEF Progress, PastFunctionCheck
  <2> QED
    BY <1>1, <1>4, <2>1, <2>2 DEF NamedBy
<1>5. /\ "format" \in Progress \ PastFunctionCheck
      /\ "key" \in Progress \ PastFunctionCheck
      /\ "claimed" \in Progress \ PastFunctionCheck
      /\ "named" \in Progress \ PastFunctionCheck
      /\ "dropped" \in PastFunctionCheck
  BY DEF Progress, PastFunctionCheck
<1>6. CASE AskBuiltinFormat(i)
  BY <1>6, <1>4, <1>5, BuiltinFormatTyped DEF AskBuiltinFormat
<1>7. CASE AskFormat(i)
  BY <1>7, <1>3, <1>4, <1>5, FoundTyped DEF AskFormat
<1>8. CASE AskKey(i)
  BY <1>8, <1>3, <1>4, <1>5, FoundTyped DEF AskKey
<1>9. CASE AskClaimed(i)
  BY <1>9, <1>4, <1>5 DEF AskClaimed, PolicyName
<1>10. ASSUME NEW pc \in Progress \ {"dropped"}, NEW with \in Job, Continue(i, pc, with),
              phase = "arms", Found(source[i]).function # ""
       PROVE  \E q \in Progress, w \in Job :
                /\ Move(i, q, w)
                /\ UNCHANGED <<vars, phase, source, option>>
                /\ q # "dropped"
                /\ q \in PastFunctionCheck =>
                     phase = "arms" /\ Found(source[i]).function # ""
  BY <1>10 DEF Continue
<1>11. /\ "extension" \in Progress \ {"dropped"} /\ "ensure" \in Progress \ {"dropped"}
       /\ "complain" \in Progress \ {"dropped"} /\ "emit" \in Progress \ {"dropped"}
       /\ "option" \in Progress \ {"dropped"} /\ "render" \in Progress \ {"dropped"}
       /\ "arm" \in Progress \ {"dropped"}
  BY DEF Progress
<1>12. /\ "extension" \in PastFunctionCheck /\ "ensure" \in PastFunctionCheck
       /\ "complain" \in PastFunctionCheck /\ "emit" \in PastFunctionCheck
       /\ "option" \in PastFunctionCheck /\ "render" \in PastFunctionCheck
  BY DEF PastFunctionCheck
<1>13. CASE CheckFunction(i)
  <2>1. ReaderFunctionFor(source[i]) # Null /\ Continue(i, "extension", job[i])
    BY <1>13 DEF CheckFunction, RaiseError
  <2>2. Found(source[i]).function # ""
    BY <2>1 DEF ReaderFunctionFor, OrNull
  <2> QED
    BY <1>13, <2>1, <2>2, <1>1, <1>10, <1>11 DEF CheckFunction, Step
<1>14. CASE CheckExtension(i)
  BY <1>14, <1>1, <1>2, <1>10, <1>11, <1>12 DEF CheckExtension, Step
<1>15. CASE EnsureExtension(i)
  BY <1>15, <1>1, <1>2, <1>10, <1>11, <1>12 DEF EnsureExtension, Step
<1>16. CASE Complain(i)
  BY <1>16, <1>2, <1>12 DEF Complain, Step, RaiseError
<1>17. CASE Emit(i)
  <2>1. ReaderFunctionFor(source[i]) \in ReaderFunction
    BY <1>17, <1>2, <1>3, <1>12, FoundTyped DEF Emit, Step
  <2>2. [job[i] EXCEPT !.function = ReaderFunctionFor(source[i])] \in Job
    BY <1>1, <2>1 DEF Job
  <2> QED
    BY <1>17, <2>2, <1>2, <1>10, <1>11, <1>12 DEF Emit, Step
<1>18. CASE CheckOption(i)
  BY <1>18, <1>1, <1>2, <1>10, <1>11, <1>12 DEF CheckOption, Step, RaiseError
<1>19. CASE RenderOption(i)
  <2>1. \A o \in Found(source[i]).options : [job[i] EXCEPT !.option = o] \in Job
    BY <1>1, <1>3, FoundTyped DEF Job
  <2> QED
    BY <1>19, <2>1, <1>2, <1>10, <1>11, <1>12 DEF RenderOption, Step, RaiseError
<1> QED
  BY <1>6, <1>7, <1>8, <1>9, <1>13, <1>14, <1>15, <1>16, <1>17, <1>18, <1>19, <1>5
  DEF PathStep

\* One path's step keeps every path supplied with a function.
LEMMA PathStepKeepsFunctions ==
    ASSUME WholeIInv, NEW i \in DOMAIN job, PathStep(i)
    PROVE  /\ FunctionsStillThere'
           /\ TextIsComplete'
<1>1. /\ UNCHANGED <<vars, source>>
      /\ DOMAIN job = DOMAIN source
      /\ FunctionsStillThere
      /\ ReadTypeOK
  BY PathStepMoves DEF WholeIInv, ReadIInv, ReadTypeOK
<1>2. \A p : Found(p)' = Found(p)
  BY <1>1 DEF Found, Lookup, vars
<1>3. phase' # "text" /\ (phase' = "policy" => phase = "policy")
  BY PathStepMoves DEF WholeIInv, ReadIInv, PathStep, AskBuiltinFormat, AskFormat, AskKey,
     AskClaimed, NamedBy, CheckFunction, CheckExtension, EnsureExtension, Complain, Emit,
     CheckOption, RenderOption, Step
<1>4. CASE job' = job
  BY <1>1, <1>2, <1>3, <1>4 DEF FunctionsStillThere, TextIsComplete
<1>5. CASE job' # job
  <2>1. PICK pc \in Progress, with \in Job :
          /\ Move(i, pc, with)
          /\ UNCHANGED <<vars, phase, source, option>>
          /\ pc # "dropped"
          /\ pc \in PastFunctionCheck =>
               phase = "arms" /\ Found(source[i]).function # ""
    BY <1>5, PathStepDropsNothing
  <2>2. job'[i].pc = pc /\ \A j \in DOMAIN job : j # i => job'[j] = job[j]
    BY <1>1, <2>1, MoveTyped
  <2>3. FunctionsStillThere'
    <3> SUFFICES ASSUME NEW j \in DOMAIN source
                 PROVE  /\ phase' = "policy" => job'[j].pc \notin PastFunctionCheck
                        /\ job'[j].pc \in PastFunctionCheck =>
                             Found(source[j]).function # ""
                        /\ job'[j].pc # "dropped"
      BY <1>1, <1>2 DEF FunctionsStillThere, PastFunctionCheck
    <3>1. CASE j = i
      BY <3>1, <2>1, <2>2, <1>3
    <3>2. CASE j # i
      BY <3>2, <2>1, <2>2, <1>1 DEF FunctionsStillThere
    <3> QED
      BY <3>1, <3>2
  <2> QED
    BY <1>3, <2>3 DEF TextIsComplete
<1> QED
  BY <1>4, <1>5

\* Every step keeps the list whole.
LEMMA StepKeepsWhole ==
    ExtensionsNamed /\ WholeIInv /\ [ReadNext]_<<vars, readVars>> => WholeIInv'
<1> SUFFICES ASSUME ExtensionsNamed, WholeIInv, [ReadNext]_<<vars, readVars>>
             PROVE  WholeIInv'
  OBVIOUS
<1>0. ReadIInv'
  BY ReadStepKeepsInvariant DEF WholeIInv
<1>1. UNCHANGED vars => RowsNameExtension' /\ \A p : Found(p)' = Found(p)
  BY DEF WholeIInv, RowsNameExtension, Found, Lookup, vars
<1>2. ASSUME [Next]_vars, UNCHANGED readVars
      PROVE  WholeIInv'
  <2>1. /\ RowsNameExtension'
        /\ \A p : Found(p).function # "" => Found(p)'.function # ""
    BY <1>2, RegistryStepKeepsFunctions DEF WholeIInv, ReadIInv
  <2>2. FunctionsStillThere'
    BY <1>2, <2>1 DEF WholeIInv, FunctionsStillThere, readVars
  <2>3. TextIsComplete'
    BY <1>2 DEF WholeIInv, TextIsComplete, readVars
  <2> QED
    BY <1>0, <2>1, <2>2, <2>3 DEF WholeIInv
<1>3. ASSUME NEW ps \in Source, NEW opt \in BOOLEAN, StartRead(ps, opt)
      PROVE  WholeIInv'
  <2>1. FunctionsStillThere'
    BY <1>3 DEF StartRead, FunctionsStillThere, NewJob, PastFunctionCheck
  <2>2. TextIsComplete'
    BY <1>3 DEF StartRead, TextIsComplete
  <2> QED
    BY <1>0, <1>1, <1>3, <2>1, <2>2 DEF StartRead, WholeIInv
<1>4. ASSUME NEW i \in DOMAIN job, PathStep(i)
      PROVE  WholeIInv'
  <2>1. UNCHANGED vars
    BY <1>4, PathStepMoves DEF WholeIInv, ReadIInv
  <2> QED
    BY <1>0, <1>1, <1>4, <2>1, PathStepKeepsFunctions DEF WholeIInv
<1>5. CASE JudgePolicy
  <2>1. DOMAIN job = DOMAIN source /\ job \in [DOMAIN source -> Job]
    BY DEF WholeIInv, ReadIInv, ReadTypeOK
  <2>2. phase' \in {"arms", "refused"} /\ UNCHANGED source
    BY <1>5 DEF JudgePolicy
  <2>3. \A i \in DOMAIN source :
          job'[i].pc \notin PastFunctionCheck
    <3>1. CASE phase' = "arms"
      <4>1. \A i \in DOMAIN source : [job[i] EXCEPT !.pc = "function"].pc = "function"
        BY <2>1 DEF Job
      <4>2. \A i \in DOMAIN source : job'[i] = [job[i] EXCEPT !.pc = "function"]
        BY <1>5, <3>1, <2>1 DEF JudgePolicy
      <4> QED
        BY <4>1, <4>2 DEF PastFunctionCheck
    <3>2. CASE phase' = "refused"
      BY <1>5, <3>2, <2>1 DEF JudgePolicy, WholeIInv, FunctionsStillThere
    <3> QED
      BY <2>2, <3>1, <3>2
  <2>4. FunctionsStillThere'
    BY <2>2, <2>3 DEF FunctionsStillThere, PastFunctionCheck
  <2>5. TextIsComplete'
    BY <2>2 DEF TextIsComplete
  <2> QED
    BY <1>0, <1>1, <1>5, <2>4, <2>5 DEF JudgePolicy, WholeIInv
<1>6. CASE Join
  <2>1. UNCHANGED <<source, job>> /\ phase' = "text" /\ UNCHANGED vars
    BY <1>6 DEF Join
  <2>2. DOMAIN job = DOMAIN source
    BY DEF WholeIInv, ReadIInv, ReadTypeOK
  <2>3. FunctionsStillThere'
    BY <1>1, <2>1 DEF WholeIInv, FunctionsStillThere
  <2>4. TextIsComplete'
    BY <1>6, <2>1, <2>2 DEF Join, TextIsComplete
  <2> QED
    BY <1>0, <1>1, <2>1, <2>3, <2>4 DEF WholeIInv
<1>7. CASE UNCHANGED <<vars, readVars>>
  BY <1>2, <1>7
<1>8. CASE Next /\ UNCHANGED readVars
  BY <1>2, <1>8
<1> QED
  BY <1>3, <1>4, <1>5, <1>6, <1>7, <1>8 DEF ReadNext

\* Initially no row is without its extension and no list is being read.
LEMMA InitWhole == ExtensionsNamed /\ Init /\ ReadInit => WholeIInv
<1> SUFFICES ASSUME ExtensionsNamed, Init, ReadInit PROVE WholeIInv
  OBVIOUS
<1>1. ReadIInv
  BY ReadInitInvariant
<1>2. RowsNameExtension
  BY DEF ExtensionsNamed, RowsNameExtension, Init
<1>3. DOMAIN source = {}
  BY EmptySeq, LenProperties DEF ReadInit
<1> QED
  BY <1>1, <1>2, <1>3 DEF WholeIInv, FunctionsStillThere, TextIsComplete

\* While every reader names its companion extension, the query holds an arm
\* for every path that was asked for, whatever is registered meanwhile.
THEOREM ListsAreReadWhole == ReadSpec => []NoPathDropped
<1>1. WholeIInv => EveryPathHasAnArm
  BY DEF WholeIInv, ReadIInv, ReadTypeOK, FunctionsStillThere, TextIsComplete,
         EveryPathHasAnArm
<1>2. CASE ExtensionsNamed
  <2>1. ReadSpec => []WholeIInv
    BY <1>2, InitWhole, StepKeepsWhole, PTL DEF ReadSpec
  <2> QED
    BY <1>1, <2>1, PTL DEF NoPathDropped
<1>3. CASE ~ExtensionsNamed
  BY <1>3, PTL DEF NoPathDropped
<1> QED
  BY <1>2, <1>3

-----------------------------------------------------------------------------
(* The arms of one path and of a list.                                     *)

GenericArm(q, p) == Arm(ReaderFunctionFor(p), p, FormatFor(p), OptionsCarried(q))

\* An error that names something is an error, not NULL.
LEMMA Raised ==
    ASSUME NEW part, part # Null
    PROVE  Raise(part) = Refusal
  BY DEF Raise

\* What a result is, is what tells refusals, texts and NULL apart.
LEMMA Results ==
    /\ Refusal.result = "error" /\ NullText.result = "null"
    /\ \A arms : Text(arms).result = "text" /\ Text(arms).arms = arms
    /\ \A arm : Text(<<arm>>).arms[1] = arm
  BY DEF Refusal, NullText, Text

\* One path becomes a SELECT or an error, never the NULL that a list skips.
LEMMA ArmIsTextOrRefused ==
    ASSUME NEW q, NEW p
    PROVE  \/ ArmFor(q, p) = Refusal
           \/ ArmFor(q, p) = Text(<<GenericArm(q, p)>>)
<1>1. ~ExtensionReady(p) => Raise(ReaderExtensionFor(p)) = Refusal
  BY Raised DEF ExtensionReady
<1> QED
  BY <1>1 DEF ArmFor, GenericArm

\* A list becomes an error, or has an arm for every path in its place.
LEMMA ArmsOfList ==
    ASSUME NEW q, NEW paths
    PROVE  \/ ReadArmsOpt(q, paths) = Refusal
           \/ /\ ~ArmsRefused(q, paths)
              /\ ReadArmsOpt(q, paths)
                   = Text([i \in DOMAIN paths |-> GenericArm(q, paths[i])])
<1> DEFINE each == [i \in DOMAIN paths |-> ArmFor(q, paths[i])]
           joined == {i \in DOMAIN paths : each[i].result = "text"}
<1>1. CASE ArmsRefused(q, paths)
  BY <1>1 DEF ReadArmsOpt
<1>2. CASE ~ArmsRefused(q, paths) /\ \E i \in DOMAIN paths : each[i].result = "error"
  BY <1>2 DEF ReadArmsOpt
<1>3. CASE ~ArmsRefused(q, paths) /\ \A i \in DOMAIN paths : each[i].result # "error"
  <2>1. \A i \in DOMAIN paths : each[i] = Text(<<GenericArm(q, paths[i])>>)
    BY <1>3, ArmIsTextOrRefused, Results
  <2>2. joined = DOMAIN paths
    BY <2>1, Results
  <2>3. \A i \in DOMAIN paths : each[i].arms[1] = GenericArm(q, paths[i])
    BY <2>1, Results
  <2>4. ReadArmsOpt(q, paths) = Text([i \in joined |-> each[i].arms[1]])
    BY <1>3 DEF ReadArmsOpt
  <2> HIDE DEF each, joined
  <2>5. [i \in joined |-> each[i].arms[1]] = [i \in DOMAIN paths |-> GenericArm(q, paths[i])]
    BY <2>2, <2>3
  <2> QED
    BY <1>3, <2>4, <2>5
<1> QED
  BY <1>1, <1>2, <1>3

-----------------------------------------------------------------------------
(* The first true branch of read_panduck_doc.                              *)

\* The branch that is true when no earlier one is gives the call's result.
LEMMA Decides ==
    ASSUME NEW q, NEW n \in 1 .. 14, Branches(q)[n].when,
           \A m \in 1 .. n - 1 : ~Branches(q)[m].when
    PROVE  ReadDoc(q) = WrapExpand(q, Branches(q)[n].then)
<1> DEFINE b == Branches(q)
           true == {k \in DOMAIN b : b[k].when}
<1>1. DOMAIN b = 1 .. 14
  BY DEF Branches
<1>2. n \in true
  BY <1>1
<1>3. \A m \in true : m \in Nat /\ n <= m
  BY <1>1
<1>4. First(true) = n
  <2> HIDE DEF true
  <2>1. \A k \in true : (\A m \in true : k <= m) => k = n
    BY <1>2, <1>3
  <2> QED
    BY <1>2, <1>3, <2>1 DEF First
<1> QED
  BY <1>4 DEF ReadDoc

-----------------------------------------------------------------------------
(* What read_panduck_doc makes of a call.                                  *)

\* The whole list is read, each path by the reader the registry names for it.
AsList(q, paths, outcome) ==
    /\ ~ArmsRefused(q, paths)
    /\ outcome = Text([i \in DOMAIN paths |-> GenericArm(q, paths[i])])

\* The one path is read by what panduck knows of its format; no option that
\* this reader cannot carry was asked for.
AsSpecial(q, outcome) ==
    LET p == q.src.text
        resolved == ResolvedFormat(p, q.format)
    IN  /\ q.format # Null
        /\ ReaderEnabled(PolicyFormat(p, q.format))
        /\ ~Claimed(p, resolved)
        /\ \E reader, carries :
             /\ OptionsCarried(q) \subseteq carries
             /\ outcome = Text(<<Arm(reader, p, resolved, carries)>>)

\* The results there are.
Outcomes(q, outcome) ==
    \/ outcome = Refusal
    \/ q.src.plural /\ q.src.text = Null /\ outcome = NullText
    \/ q.src.plural /\ AsList(q, q.src.paths, outcome)
    \/ ~q.src.plural /\ AsList(q, <<q.src.text>>, outcome)
    \/ ~q.src.plural /\ AsSpecial(q, outcome)

\* A call is refused, is on a NULL list, or is read in one of three ways.
LEMMA DocOutcome ==
    ASSUME NEW q \in Request
    PROVE  Outcomes(q, ReadDoc(q))
<1> DEFINE p == q.src.text
           resolved == ResolvedFormat(p, q.format)
           policy == PolicyFormat(p, q.format)
           when(n) == Branches(q)[n].when
           then(n) == Branches(q)[n].then
           Special == ~when(1) /\ ~when(4) /\ ~when(5) /\ ~when(6) /\ ~when(7)
           special(reader) == Arm(reader, p, resolved, {})
           first(n) == when(n) /\ \A m \in 1 .. n - 1 : ~when(m)
<1>1. /\ when(1) <=> (q.filename = Null \/ q.format = Null \/ q.reader_params = Null)
      /\ when(2) <=> PagesRefused(q, resolved)
      /\ when(3) <=> Equals(resolved, "data")
      /\ when(4) <=> q.src.plural
      /\ when(5) <=> ~ReaderEnabled(policy)
      /\ when(6) <=> Claimed(p, resolved)
      /\ when(7) <=> OptionsRefused(q, resolved)
      /\ when(8) <=> Equals(resolved, "pandoc")
      /\ when(9) <=> Equals(resolved, "pdf")
      /\ when(10) <=> (Equals(resolved, "toml") \/ Equals(resolved, "yaml"))
      /\ when(11) <=> Equals(resolved, "zim_article")
      /\ when(12) <=> Equals(resolved, "zim")
      /\ when(13) <=> ((FormatFor(p) = Null /\ q.format = "auto") \/ Equals(resolved, "code"))
      /\ when(14)
  BY DEF Branches
<1>2. /\ then(1) = Refusal
      /\ then(2) = IF q.src.plural \/ q.pages = Null THEN Refusal ELSE Raise(resolved)
      /\ then(3) = Refusal
      /\ then(4) = IF p = Null THEN NullText
                   ELSE IF q.src.paths = << >> THEN Raise(p) ELSE ReadArmsOpt(q, q.src.paths)
      /\ then(5) = Raise(policy)
      /\ then(6) = IF ExtensionReady(p) THEN ReadArmsOpt(q, <<p>>)
                   ELSE Raise(ReaderExtensionFor(p))
      /\ then(7) = Refusal
      /\ then(8) = Text(<<special("read_pandoc_blocks")>>)
      /\ then(9) = Ensured("pdf", Arm("read_pdf_blocks", p, resolved,
                                      {"pages"} \cup OptionsCarried(q)))
      /\ then(10) = Text(<<special("read_text")>>)
      /\ then(11) = IF "webbed" \in Loadable THEN Ensured("zim", special("zim_get_content"))
                    ELSE Refusal
      /\ then(12) = Refusal
      /\ then(13) = Ensured("sitting_duck", special("ast_to_blocks"))
      /\ then(14) = Raise(resolved)
  BY DEF Branches
<1>3. ASSUME NEW n \in 1 .. 14, first(n), Outcomes(q, then(n))
      PROVE  Outcomes(q, ReadDoc(q))
  <2>1. ReadDoc(q) \in {Refusal, then(n)}
    BY <1>3, Decides DEF WrapExpand
  <2> QED
    BY <1>3, <2>1 DEF Outcomes
<1> HIDE DEF when, then
<1>4. Outcomes(q, Refusal)
  BY DEF Outcomes
<1>5. ASSUME NEW reader, NEW carries, Special, OptionsCarried(q) \subseteq carries
      PROVE  Outcomes(q, Text(<<Arm(reader, p, resolved, carries)>>))
  BY <1>5, <1>1 DEF Outcomes, AsSpecial
<1>6. ASSUME Special, resolved # "pdf"
      PROVE  OptionsCarried(q) = {}
  BY <1>6, <1>1 DEF OptionsCarried, OptionsRefused
<1>7. ASSUME Special, resolved # "pdf", NEW reader
      PROVE  Outcomes(q, Text(<<special(reader)>>))
  BY <1>5, <1>6, <1>7
<1>8. ASSUME NEW n \in 8 .. 14, first(n)
      PROVE  Special
  BY <1>8
<1>9. "pdf" # "pandoc" /\ "pdf" # "toml" /\ "pdf" # "yaml" /\ "pdf" # "zim_article"
      /\ "pdf" # "code" /\ "pdf" # Null
  BY RequestAssumption
<1> HIDE DEF Special, special
<1>10. CASE first(1) \/ first(3) \/ first(7) \/ first(12)
  BY <1>10, <1>2, <1>3, <1>4
<1>11. CASE first(2)
  <2>1. then(2) = Refusal
    BY <1>11, <1>1, <1>2, Raised DEF PagesRefused, Differs
  <2> QED
    BY <1>11, <2>1, <1>3, <1>4
<1>12. CASE first(4)
  <2>1. q.src.plural
    BY <1>12, <1>1
  <2>2. CASE p = Null
    <3>1. Outcomes(q, then(4))
      BY <2>1, <2>2, <1>2 DEF Outcomes
    <3> QED
      BY <1>12, <3>1, <1>3
  <2>3. CASE p # Null /\ q.src.paths = << >>
    BY <1>12, <2>3, <1>2, <1>3, <1>4, Raised
  <2>4. CASE p # Null /\ q.src.paths # << >>
    <3>1. then(4) = ReadArmsOpt(q, q.src.paths)
      BY <2>4, <1>2
    <3>2. Outcomes(q, then(4))
      BY <2>1, <3>1, ArmsOfList DEF Outcomes, AsList
    <3> QED
      BY <1>12, <3>2, <1>3
  <2> QED
    BY <2>2, <2>3, <2>4
<1>13. CASE first(5)
  <2>1. then(5) = Refusal
    BY <1>13, <1>1, <1>2, Raised DEF ReaderEnabled
  <2> QED
    BY <1>13, <2>1, <1>3, <1>4
<1>14. CASE first(6)
  <2>1. ~q.src.plural
    BY <1>14, <1>1
  <2>2. Outcomes(q, then(6))
    <3>1. CASE ExtensionReady(p)
      BY <2>1, <3>1, <1>2, ArmsOfList DEF Outcomes, AsList
    <3>2. CASE ~ExtensionReady(p)
      BY <3>2, <1>2, <1>4, Raised DEF ExtensionReady
    <3> QED
      BY <3>1, <3>2
  <2> QED
    BY <1>14, <2>2, <1>3
<1>15. CASE first(8) \/ first(10)
  <2>1. Special /\ resolved # "pdf"
    BY <1>15, <1>1, <1>8, <1>9 DEF Equals
  <2>2. Outcomes(q, then(8)) /\ Outcomes(q, then(10))
    BY <2>1, <1>2, <1>7
  <2> QED
    BY <1>15, <2>2, <1>3
<1>16. CASE first(9)
  <2>1. Special
    BY <1>16, <1>8
  <2>2. Outcomes(q, then(9))
    BY <2>1, <1>2, <1>4, <1>5 DEF Ensured
  <2> QED
    BY <1>16, <2>2, <1>3
<1>17. CASE first(11) \/ first(13)
  <2>1. Special /\ resolved # "pdf"
    <3>1. Special
      BY <1>17, <1>8
    <3>2. CASE first(11)
      BY <3>1, <3>2, <1>1, <1>9 DEF Equals
    <3>3. CASE first(13)
      BY <3>1, <3>3, <1>1, <1>9 DEF Equals, ResolvedFormat
    <3> QED
      BY <1>17, <3>2, <3>3
  <2>2. Outcomes(q, then(11)) /\ Outcomes(q, then(13))
    BY <2>1, <1>2, <1>4, <1>7 DEF Ensured
  <2> QED
    BY <1>17, <2>2, <1>3
<1>18. CASE first(14)
  <2>1. resolved # Null
    BY <1>18, <1>1 DEF ResolvedFormat
  <2>2. then(14) = Refusal
    BY <2>1, <1>2, Raised
  <2> QED
    BY <1>18, <2>2, <1>3, <1>4
<1>19. \E n \in 1 .. 14 : first(n)
  BY <1>1
<1> QED
  BY <1>10, <1>11, <1>12, <1>13, <1>14, <1>15, <1>16, <1>17, <1>18, <1>19

\* read_panduck_table refuses, or reads the one path under a name that its
\* policy has let through.
LEMMA TableOutcome ==
    ASSUME NEW p
    PROVE  \/ ReadTable(p) = Refusal
           \/ /\ ReaderEnabled(PolicyFormat(p, "auto"))
              /\ \E reader, carries : ReadTable(p) = Text(<<Arm(reader, p, FormatFor(p), carries)>>)
<1>1. CASE ~ReaderEnabled(PolicyFormat(p, "auto"))
  BY <1>1, Raised DEF ReadTable, ReaderEnabled
<1>2. CASE ReaderEnabled(PolicyFormat(p, "auto"))
  <2>1. ~ExtensionReady(p) => Raise(ReaderExtensionFor(p)) = Refusal
    BY Raised DEF ExtensionReady
  <2>2. Equals(FormatFor(p), "toml") => FormatFor(p) = "toml"
    BY DEF Equals
  <2> QED
    BY <1>2, <2>1, <2>2 DEF ReadTable, Ensured
<1> QED
  BY <1>1, <1>2

-----------------------------------------------------------------------------
(* The policy.                                                             *)

\* A row that calls itself builtin is the one panduck ships for its key.
BuiltinRowsShipped ==
    \A n \in DOMAIN entries :
        entries[n].source = "builtin" => LookupIn(Seeds, entries[n].ext) = entries[n]

\* Nobody claims a path: every scalar of it is NULL.
LEMMA Unclaimed ==
    ASSUME NEW p, Found(p) = Row0
    PROVE  FormatFor(p) = Null /\ RegistryKeyFor(p) = Null /\ ReaderFunctionFor(p) = Null
<1>1. Row0.format = "" /\ Row0.ext = "" /\ Row0.function = ""
  BY DEF Row0
<1> QED
  BY <1>1 DEF FormatFor, RegistryKeyFor, ReaderFunctionFor, OrNull

\* What the policy lets through for a path may be read as the registry has it.
LEMMA GateOfRegistry ==
    ASSUME NEW p, ReaderEnabled(PolicyFormat(p, "auto")),
           NEW a, a.path = p, a.format = FormatFor(p)
    PROVE  Gated(a)
<1>1. Found(p) = Row0 => FormatFor(p) = Null /\ RegistryKeyFor(p) = Null /\ ReaderFunctionFor(p) = Null
  BY Unclaimed
<1>2. Null # "code"
  BY PathsAssumption
<1> QED
  BY <1>1, <1>2 DEF Gated, PolicyFormat, Coalesce, ReaderEnabled

\* A format whose path no function claims is the one panduck ships.
LEMMA UnclaimedIsShipped ==
    ASSUME IInv, BuiltinRowsShipped, NEW p, FormatFor(p) # Null, ReaderFunctionFor(p) = Null
    PROVE  BuiltinFormatFor(p) = FormatFor(p)
<1> DEFINE k == KeyOf[p]
<1>1. Found(p) # Row0
  BY Unclaimed
<1>2. p # Null /\ Lookup(k) # NoRow /\ Found(p) = Lookup(k)
  BY <1>1 DEF Found
<1>3. entries \in Seq(Row) /\ Unique(entries)
  BY DEF IInv, TypeOK, OneRowPerKey, Unique
<1>4. PICK n \in DOMAIN entries : entries[n].ext = k /\ Lookup(k) = entries[n]
  BY <1>2, <1>3, LookupRow DEF Lookup
<1>5. entries[n] \in Row
  BY <1>3, <1>4, ElementOfSeq, LenProperties
<1>6. entries[n].function = ""
  BY <1>2, <1>4, <1>5, PathsAssumption DEF ReaderFunctionFor, OrNull, Row
<1>7. entries[n].source = "builtin"
  <2>1. entries[n] \notin UserRow
    BY <1>6, ConstantsAssumption DEF UserRow
  <2> QED
    BY <2>1, <1>4, <1>5 DEF IInv, UserRowsAdmitted, Row
<1>8. LookupIn(Seeds, k) = entries[n]
  BY <1>4, <1>7 DEF BuiltinRowsShipped
<1>9. BuiltinFormat(k) = entries[n].format
  BY <1>8, <1>5, ConstantsAssumption DEF BuiltinFormat
<1> QED
  BY <1>2, <1>4, <1>9 DEF BuiltinFormatFor, FormatFor

\* Every arm of a result is gated.
LEMMA OutcomesGated ==
    ASSUME IInv, BuiltinRowsShipped, NEW q, NEW r, Outcomes(q, r), r.result = "text",
           NEW n \in DOMAIN r.arms
    PROVE  Gated(r.arms[n])
<1>1. ASSUME NEW paths, AsList(q, paths, r)
      PROVE  Gated(r.arms[n])
  <2>1. n \in DOMAIN paths /\ r.arms[n] = GenericArm(q, paths[n])
    BY <1>1, Results DEF AsList
  <2>2. ReaderEnabled(PolicyFormat(paths[n], "auto"))
    BY <1>1, <2>1 DEF AsList, ArmsRefused
  <2>3. r.arms[n].path = paths[n] /\ r.arms[n].format = FormatFor(paths[n])
    BY <2>1 DEF GenericArm, Arm
  <2> QED
    BY <2>2, <2>3, GateOfRegistry
<1>2. CASE AsSpecial(q, r)
  <2> DEFINE p == q.src.text
             resolved == ResolvedFormat(p, q.format)
  <2>1. PICK reader, carries : r = Text(<<Arm(reader, p, resolved, carries)>>)
    BY <1>2 DEF AsSpecial
  <2>2. r.arms[n].path = p /\ r.arms[n].format = resolved
    <3>1. r.arms = <<Arm(reader, p, resolved, carries)>>
      BY <2>1, Results
    <3>2. r.arms[n] = Arm(reader, p, resolved, carries)
      BY <3>1
    <3> QED
      BY <3>2 DEF Arm
  <2>3. q.format # Null /\ ReaderEnabled(PolicyFormat(p, q.format)) /\ ~Claimed(p, resolved)
    BY <1>2 DEF AsSpecial
  <2>4. CASE q.format = "auto"
    BY <2>2, <2>3, <2>4, GateOfRegistry DEF ResolvedFormat
  <2>5. CASE q.format # "auto"
    <3>1. resolved = q.format /\ q.format \in EnabledName
      BY <2>3, <2>5 DEF ResolvedFormat, PolicyFormat, ReaderEnabled
    <3>2. resolved = FormatFor(p) => BuiltinFormatFor(p) = resolved
      BY <2>3, <3>1, UnclaimedIsShipped DEF Claimed
    <3> QED
      BY <2>2, <2>3, <3>1, <3>2 DEF Gated
  <2> QED
    BY <2>4, <2>5
<1> QED
  BY <1>1, <1>2, Results DEF Outcomes

-----------------------------------------------------------------------------
(* What holds of the answer to every call.                                 *)

DispatchIInv ==
    /\ IInv /\ BuiltinRowsShipped
    /\ NeverNull /\ OptionsHonoured /\ DisabledNotRead /\ ListsReadInOrder

\* Every arm of a result carries what the call asks for.
LEMMA OutcomesCarry ==
    ASSUME NEW q, NEW r, Outcomes(q, r), r.result = "text", NEW n \in DOMAIN r.arms
    PROVE  OptionsCarried(q) \subseteq r.arms[n].carries
<1>1. ASSUME NEW paths, AsList(q, paths, r)
      PROVE  OptionsCarried(q) \subseteq r.arms[n].carries
  <2>1. n \in DOMAIN paths /\ r.arms[n] = GenericArm(q, paths[n])
    BY <1>1, Results DEF AsList
  <2> QED
    BY <2>1 DEF GenericArm, Arm
<1>2. CASE AsSpecial(q, r)
  <2> DEFINE resolved == ResolvedFormat(q.src.text, q.format)
  <2>1. PICK reader, carries : /\ OptionsCarried(q) \subseteq carries
                               /\ r = Text(<<Arm(reader, q.src.text, resolved, carries)>>)
    BY <1>2 DEF AsSpecial
  <2>2. r.arms = <<Arm(reader, q.src.text, resolved, carries)>>
    BY <2>1, Results
  <2>3. r.arms[n] = Arm(reader, q.src.text, resolved, carries)
    BY <2>2
  <2> QED
    BY <2>1, <2>3 DEF Arm
<1> QED
  BY <1>1, <1>2, Results DEF Outcomes

\* The arms of a plural source are its paths, in their places.
LEMMA OutcomesInOrder ==
    ASSUME NEW q \in Request, NEW r, Outcomes(q, r), r.result = "text", q.src.plural
    PROVE  [n \in DOMAIN r.arms |-> r.arms[n].path] = q.src.paths
<1> DEFINE paths == q.src.paths
<1>1. r.arms = [n \in DOMAIN paths |-> GenericArm(q, paths[n])]
  BY Results DEF Outcomes, AsList
<1>2. \A n \in DOMAIN paths : GenericArm(q, paths[n]).path = paths[n]
  BY DEF GenericArm, Arm
<1>3. paths \in Seq(Path \cup {Null})
  BY RequestAssumption
<1>4. paths = [n \in DOMAIN paths |-> paths[n]]
  BY <1>3
<1> HIDE DEF paths
<1> QED
  BY <1>1, <1>2, <1>4 DEF paths

\* Answering a call of read_panduck_doc.
LEMMA DocAnswered ==
    ASSUME DispatchIInv, NEW q \in Request, CallReadDoc(q)
    PROVE  DispatchIInv'
<1> DEFINE r == ReadDoc(q)
<1>1. /\ UNCHANGED vars
      /\ answer'.macro = "doc" /\ answer'.call = q /\ answer'.outcome = r
  BY DEF CallReadDoc
<1>2. Outcomes(q, r)
  BY DocOutcome
<1> HIDE DEF r
<1>3. IInv' /\ BuiltinRowsShipped'
  BY <1>1, StepKeepsInvariant DEF DispatchIInv, BuiltinRowsShipped, vars
<1>4. NeverNull'
  BY <1>1, <1>2, Results DEF NeverNull, Became, Answered, Outcomes, AsList, AsSpecial
<1>5. OptionsHonoured'
  <2>1. r.result = "text" => \A n \in DOMAIN r.arms : OptionsCarried(q) \subseteq r.arms[n].carries
    BY <1>2, OutcomesCarry
  <2> QED
    BY <1>1, <2>1 DEF OptionsHonoured, Became, Answered, AnswerArms
<1>6. DisabledNotRead'
  <2>1. r.result = "text" => \A n \in DOMAIN r.arms : Gated(r.arms[n])
    BY <1>2, OutcomesGated DEF DispatchIInv
  <2>2. \A a : Gated(a)' = Gated(a)
    BY <1>1 DEF vars, Gated, FormatFor, BuiltinFormatFor, Found, Lookup
  <2> QED
    BY <1>1, <2>1, <2>2 DEF DisabledNotRead, Became, AnswerArms
<1>7. ListsReadInOrder'
  <2>1. r.result = "text" /\ q.src.plural =>
          [n \in DOMAIN r.arms |-> r.arms[n].path] = q.src.paths
    BY <1>2, OutcomesInOrder
  <2> QED
    BY <1>1, <2>1 DEF ListsReadInOrder, Became, Answered
<1> QED
  BY <1>3, <1>4, <1>5, <1>6, <1>7 DEF DispatchIInv

\* Answering a call of read_panduck_table.
LEMMA TableAnswered ==
    ASSUME DispatchIInv, NEW p \in Path \cup {Null}, CallReadTable(p)
    PROVE  DispatchIInv'
<1> DEFINE r == ReadTable(p)
<1>1. /\ UNCHANGED vars
      /\ answer'.macro = "table" /\ answer'.call = p /\ answer'.outcome = r
  BY DEF CallReadTable
<1>2. \/ r = Refusal
      \/ /\ ReaderEnabled(PolicyFormat(p, "auto"))
         /\ \E reader, carries : r = Text(<<Arm(reader, p, FormatFor(p), carries)>>)
  BY TableOutcome
<1> HIDE DEF r
<1>3. IInv' /\ BuiltinRowsShipped'
  BY <1>1, StepKeepsInvariant DEF DispatchIInv, BuiltinRowsShipped, vars
<1>4. NeverNull'
  BY <1>1, <1>2, Results DEF NeverNull, Became
<1>5. OptionsHonoured' /\ ListsReadInOrder'
  BY <1>1 DEF OptionsHonoured, ListsReadInOrder, Answered
<1>6. DisabledNotRead'
  <2>1. ASSUME r.result = "text", NEW n \in DOMAIN r.arms
        PROVE  Gated(r.arms[n])
    <3>1. PICK reader, carries : r = Text(<<Arm(reader, p, FormatFor(p), carries)>>)
      BY <2>1, <1>2, Results
    <3>2. r.arms = <<Arm(reader, p, FormatFor(p), carries)>>
      BY <3>1, Results
    <3>3. r.arms[n] = Arm(reader, p, FormatFor(p), carries)
      BY <2>1, <3>2
    <3>4. r.arms[n].path = p /\ r.arms[n].format = FormatFor(p)
      BY <3>3 DEF Arm
    <3> QED
      BY <2>1, <3>4, <1>2, Results, GateOfRegistry
  <2>2. \A a : Gated(a)' = Gated(a)
    BY <1>1 DEF vars, Gated, FormatFor, BuiltinFormatFor, Found, Lookup
  <2> QED
    BY <1>1, <2>1, <2>2 DEF DisabledNotRead, Became, AnswerArms
<1> QED
  BY <1>3, <1>4, <1>5, <1>6 DEF DispatchIInv

\* Registrations leave the shipped rows as they are or replace them.
LEMMA RegistrationKeepsShipped ==
    ASSUME IInv, BuiltinRowsShipped, Next
    PROVE  BuiltinRowsShipped'
<1>1. CASE UNCHANGED entries
  BY <1>1 DEF BuiltinRowsShipped
<1>2. ASSUME NEW s \in Session, RegisterScan(s)
      PROVE  BuiltinRowsShipped'
  <2>1. PICK r \in UserRow : r \in Row /\ entries' = Stored(entries, r)
    BY <1>2, ScanStoresAdmittedRow
  <2>2. \A n \in DOMAIN entries' :
          entries'[n] = r \/ \E m \in DOMAIN entries : entries'[n] = entries[m]
    BY <2>1, StoredProperties DEF IInv, TypeOK, OneRowPerKey, Unique
  <2>3. r.source # "builtin"
    BY <2>1 DEF UserRow
  <2> QED
    BY <2>2, <2>3 DEF BuiltinRowsShipped
<1> QED
  BY <1>1, <1>2 DEF Next, SetAllowRegistration, RegisterBind, Execute, Deallocate

\* Every step keeps the invariant; there is no answer while the registry moves.
LEMMA DispatchStepKeepsInvariant == DispatchIInv /\ [DispatchNext]_dispatchVars => DispatchIInv'
<1> SUFFICES ASSUME DispatchIInv, [DispatchNext]_dispatchVars PROVE DispatchIInv'
  OBVIOUS
<1>1. ASSUME answer' = NoAnswer
      PROVE  NeverNull' /\ OptionsHonoured' /\ DisabledNotRead' /\ ListsReadInOrder'
  BY <1>1 DEF NeverNull, OptionsHonoured, DisabledNotRead, ListsReadInOrder, Answered
<1>2. ASSUME UNCHANGED vars
      PROVE  IInv' /\ BuiltinRowsShipped' /\ \A a : Gated(a)' = Gated(a)
  <2>1. IInv' /\ BuiltinRowsShipped'
    BY <1>2, StepKeepsInvariant DEF DispatchIInv, BuiltinRowsShipped, vars
  <2>2. \A a : Gated(a)' = Gated(a)
    BY <1>2 DEF vars, Gated, FormatFor, BuiltinFormatFor, Found, Lookup
  <2> QED
    BY <2>1, <2>2
<1>3. ASSUME NEW q \in Request, CallReadDoc(q)
      PROVE  DispatchIInv'
  BY <1>3, DocAnswered
<1>4. ASSUME NEW p \in Path \cup {Null}, CallReadTable(p)
      PROVE  DispatchIInv'
  BY <1>4, TableAnswered
<1>5. CASE Consume
  BY <1>5, <1>1, <1>2 DEF Consume, DispatchIInv
<1>6. CASE Registration
  <2>1. IInv' /\ BuiltinRowsShipped'
    BY <1>6, StepKeepsInvariant, RegistrationKeepsShipped DEF DispatchIInv, Registration
  <2> QED
    BY <1>6, <2>1, <1>1 DEF Registration, DispatchIInv
<1>7. CASE UNCHANGED dispatchVars
  <2>1. UNCHANGED vars /\ UNCHANGED answer
    BY <1>7 DEF dispatchVars
  <2> QED
    BY <2>1, <1>2 DEF DispatchIInv, NeverNull, OptionsHonoured, DisabledNotRead,
                      ListsReadInOrder, Answered, Became, AnswerArms
<1> QED
  BY <1>3, <1>4, <1>5, <1>6, <1>7 DEF DispatchNext

\* The invariant holds before the first registration.
LEMMA DispatchInitInvariant == DispatchInit => DispatchIInv
<1> SUFFICES ASSUME DispatchInit PROVE DispatchIInv
  OBVIOUS
<1>1. IInv
  BY InitInvariant DEF DispatchInit
<1>2. BuiltinRowsShipped
  BY SeedsAssumption, UniqueMatch DEF BuiltinRowsShipped, DispatchInit, Init, Unique
<1> QED
  BY <1>1, <1>2 DEF DispatchIInv, DispatchInit, NeverNull, OptionsHonoured, DisabledNotRead,
                    ListsReadInOrder, Answered

\* The inductive invariant holds whatever is registered and called.
THEOREM DispatchInvariant == DispatchSpec => []DispatchIInv
  BY DispatchInitInvariant, DispatchStepKeepsInvariant, PTL DEF DispatchSpec

-----------------------------------------------------------------------------
(* The results.                                                            *)

\* No call of either macro silently becomes NULL, save on a NULL list of paths,
\* whatever sequence of registrations has gone before.
THEOREM NoCallBecomesNull == DispatchSpec => []NeverNull
  BY DispatchInvariant, PTL DEF DispatchIInv

\* An option that a call asks for is carried by every arm it is read with, or
\* the call is refused.
THEOREM OptionsAreHonoured == DispatchSpec => []OptionsHonoured
  BY DispatchInvariant, PTL DEF DispatchIInv

\* What the policy disables is read by no call, and no registration changes
\* under which name a shipped format is gated.
THEOREM DisabledStaysUnread == DispatchSpec => []DisabledNotRead
  BY DispatchInvariant, PTL DEF DispatchIInv

\* A plural source is read whole and in its order, or not at all.
THEOREM ListsComeWhole == DispatchSpec => []ListsReadInOrder
  BY DispatchInvariant, PTL DEF DispatchIInv
=============================================================================
