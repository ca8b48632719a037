--------------------------- MODULE ReaderScalars ---------------------------
(***************************************************************************)
(* The scalar functions SQL sees of the reader registry                    *)
(* (RegistryFieldFun and its neighbours in src/src/reader_registry.cpp).   *)
(* Each one takes the lock, looks its path up once and lets go; a field    *)
(* that is empty, a key nobody claims and a NULL path all answer NULL.     *)
(***************************************************************************)
EXTENDS ReaderRegistry

CONSTANTS
    Path,        \* source paths
    KeyOf,       \* [Path -> Key]: ExtOf
    EnabledName, \* names the reading session's policy settings let through
    Loadable,    \* DuckDB extensions that can be loaded here
    Null         \* SQL NULL, where a path or a name is expected

ASSUME PathsAssumption ==
    /\ KeyOf \in [Path -> Key]
    /\ Null \notin Path \cup Name \cup Key \cup Function \cup Option \cup Kind \cup {"code"}

\* What a scalar answers from when the path is NULL or nobody claims its key.
Row0 == [format |-> "", reader_ext |-> "", function |-> "", ext |-> "", options |-> {},
         kind |-> ""]

-----------------------------------------------------------------------------

Found(p) ==
    IF p = Null \/ Lookup(KeyOf[p]) = NoRow THEN Row0 ELSE Lookup(KeyOf[p])

OrNull(text) == IF text = "" THEN Null ELSE text

FormatFor(p) == OrNull(Found(p).format)
RegistryKeyFor(p) == OrNull(Found(p).ext)
ReaderFunctionFor(p) == OrNull(Found(p).function)
ReaderExtensionFor(p) == OrNull(Found(p).reader_ext)
ReaderKindFor(p) == OrNull(Found(p).kind)

\* panduck_builtin_format_for: what panduck ships for the path's extension.
BuiltinFormatFor(p) == IF p = Null THEN Null ELSE OrNull(BuiltinFormat(KeyOf[p]))

\* panduck_reader_enabled; a name the policy cannot know is not gated.
ReaderEnabled(name) == name = Null \/ name \in EnabledName
=============================================================================
