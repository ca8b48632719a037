------------------------------ MODULE ReadArms ------------------------------
(***************************************************************************)
(* panduck_read_arms_opt (src/src/reader_registry.cpp): the SQL macro that *)
(* turns a list of paths into the text of one UNION ALL query, while other *)
(* sessions register readers.                                              *)
(*                                                                         *)
(* The macro is pure, but the scalars it calls are not: each one takes the *)
(* registry lock, looks its path up and lets go.  A path is looked up four *)
(* to nine times before its arm is text, and any registration may commit   *)
(* between two of them.  DuckDB evaluates a lambda a vector at a time, so  *)
(* the lookups of different paths interleave too; here any path goes next. *)
(*                                                                         *)
(* NULL handling is SQL's: error(NULL) is NULL instead of an error, and    *)
(* array_to_string skips a NULL arm.                                       *)
(***************************************************************************)
EXTENDS ReaderScalars

CONSTANT Source  \* the path lists callers read

ASSUME SourceAssumption == Source \subseteq Seq(Path \cup {Null}) \ {<< >>}

VARIABLES
    phase,    \* idle, policy, arms, then text, refused or failed
    source,   \* the paths being read
    option,   \* TRUE when the caller asked for a reader option
    job       \* job[i]: how far path i has got, and what it has picked up

readVars == <<phase, source, option, job>>

-----------------------------------------------------------------------------
(* One path's progress through the macro.                                  *)

Progress == {"builtin", "format", "key", "claimed", "named", "function", "extension",
             "ensure", "complain", "emit", "option", "render", "arm", "dropped"}

\* What panduck_policy_format and panduck_reader_function_for can answer.
PolicyName == ((Name \cup Key \cup {"code"}) \ {""}) \cup {Null}
ReaderFunction == (Function \ {""}) \cup {Null}

Job == [pc : Progress,
        name : PolicyName,
        function : ReaderFunction,
        option : Option \cup {Null}]

NewJob == [pc |-> "builtin", name |-> Null, function |-> Null,
           option |-> Null]

ReadInit ==
    /\ phase = "idle"
    /\ source = << >>
    /\ option = FALSE
    /\ job = << >>

StartRead(ps, opt) ==
    /\ phase = "idle"
    /\ phase' = "policy"
    /\ source' = ps
    /\ option' = opt
    /\ job' = [i \in DOMAIN ps |-> NewJob]
    /\ UNCHANGED vars

\* Path i moves on to pc, having learned what `with` says.
Move(i, pc, with) == job' = [job EXCEPT ![i] = [with EXCEPT !.pc = pc]]

\* panduck_policy_format's coalesce, one argument at a time: the frozen name,
\* the live format, the registry key, and 'code' when nothing claims the path.
NamedBy(i, from, name, otherwise) ==
    /\ phase = "policy"
    /\ job[i].pc = from
    /\ IF name # Null
       THEN Move(i, "named", [job[i] EXCEPT !.name = name])
       ELSE Move(i, otherwise, job[i])
    /\ UNCHANGED <<vars, phase, source, option>>

\* Mutated form: the policy asks the live table, which a registration renames.
AskBuiltinFormatLive(i) == NamedBy(i, "builtin", FormatFor(source[i]), "format")

AskBuiltinFormat(i) == NamedBy(i, "builtin", BuiltinFormatFor(source[i]), "format")
AskFormat(i) == NamedBy(i, "format", FormatFor(source[i]), "key")
AskKey(i) == NamedBy(i, "key", RegistryKeyFor(source[i]), "claimed")
AskClaimed(i) ==
    NamedBy(i, "claimed",
            IF ReaderFunctionFor(source[i]) = Null THEN "code" ELSE Null,
            "named")

\* The filter has seen every path: one refused path refuses the whole read.
JudgePolicy ==
    /\ phase = "policy"
    /\ \A i \in DOMAIN job : job[i].pc = "named"
    /\ IF \A i \in DOMAIN job : ReaderEnabled(job[i].name)
       THEN /\ phase' = "arms"
            /\ job' = [i \in DOMAIN job |-> [job[i] EXCEPT !.pc = "function"]]
       ELSE /\ phase' = "refused"
            /\ UNCHANGED job
    /\ UNCHANGED <<vars, source, option>>

-----------------------------------------------------------------------------
(* Building the arms.                                                      *)

Step(i, pc) == phase = "arms" /\ job[i].pc = pc

Continue(i, pc, with) ==
    /\ Move(i, pc, with)
    /\ UNCHANGED <<vars, phase, source, option>>

\* error(message) with a message that is not NULL.
RaiseError ==
    /\ phase' = "failed"
    /\ UNCHANGED <<vars, source, option, job>>

\* A NULL path, or no function: "cannot be read in a multi-document call yet".
CheckFunction(i) ==
    /\ Step(i, "function")
    /\ IF ReaderFunctionFor(source[i]) = Null
       THEN RaiseError
       ELSE Continue(i, "extension", job[i])

\* panduck_reader_extension_for(p) IS NULL OR ...
CheckExtension(i) ==
    /\ Step(i, "extension")
    /\ Continue(i, IF ReaderExtensionFor(source[i]) = Null THEN "emit" ELSE "ensure",
                job[i])

\* ... panduck_ensure_extension(panduck_reader_extension_for(p)), which is not
\* TRUE for an extension that does not load, and not TRUE for NULL either.
EnsureExtension(i) ==
    /\ Step(i, "ensure")
    /\ Continue(i, IF ReaderExtensionFor(source[i]) \in Loadable THEN "emit" ELSE "complain",
                job[i])

\* Mutated form: a path whose extension does not load is left out.
ComplainNever(i) ==
    /\ Step(i, "complain")
    /\ Continue(i, "dropped", job[i])

\* error('... needs the ' || panduck_reader_extension_for(p) || ' extension')
Complain(i) ==
    /\ Step(i, "complain")
    /\ IF ReaderExtensionFor(source[i]) # Null
       THEN RaiseError
       ELSE Continue(i, "dropped", job[i])

\* 'SELECT * FROM ' || panduck_reader_function_for(p) || ...
Emit(i) ==
    /\ Step(i, "emit")
    /\ LET fn == ReaderFunctionFor(source[i])
       IN  Continue(i, IF fn = Null THEN "dropped"
                       ELSE IF option THEN "option" ELSE "arm",
                    [job[i] EXCEPT !.function = fn])

\* CASE WHEN panduck_reader_option_for(...) = '' and the ELSE that asks again:
\* a reader that maps the option to nothing of its own raises.
CheckOption(i) ==
    /\ Step(i, "option")
    /\ IF Found(source[i]).options = {} THEN RaiseError ELSE Continue(i, "render", job[i])

RenderOption(i) ==
    /\ Step(i, "render")
    /\ IF Found(source[i]).options = {}
       THEN RaiseError
       ELSE \E o \in Found(source[i]).options :
              Continue(i, "arm", [job[i] EXCEPT !.option = o])

\* array_to_string joins the arms that are not NULL.
Join ==
    /\ phase = "arms"
    /\ \A i \in DOMAIN job : job[i].pc \in {"arm", "dropped"}
    /\ phase' = "text"
    /\ UNCHANGED <<vars, source, option, job>>

PathStep(i) ==
    \/ AskBuiltinFormat(i) \/ AskFormat(i) \/ AskKey(i) \/ AskClaimed(i)
    \/ CheckFunction(i) \/ CheckExtension(i) \/ EnsureExtension(i) \/ Complain(i)
    \/ Emit(i) \/ CheckOption(i) \/ RenderOption(i)

ReadNext ==
    \/ \E ps \in Source, opt \in BOOLEAN : StartRead(ps, opt)
    \/ \E i \in DOMAIN job : PathStep(i)
    \/ JudgePolicy
    \/ Join
    \/ Next /\ UNCHANGED readVars

ReadSpec == Init /\ ReadInit /\ [][ReadNext]_<<vars, readVars>>

-----------------------------------------------------------------------------
(* Properties.                                                             *)

\* The read's own state: every path of the source has a job, and a job only
\* ever holds names, functions and options that some row could have given it.
\* An empty field is never one of them: it answers NULL (RegistryFieldFun).
ReadTypeOK ==
    /\ phase \in {"idle", "policy", "arms", "text", "refused", "failed"}
    /\ source \in Source \cup {<< >>}
    /\ option \in BOOLEAN
    /\ job \in [DOMAIN source -> Job]

\* "A builtin format cannot be renamed out of a denylist by any statement a
\* user can write": no text is generated for a list that holds one path of a
\* disabled builtin format, whatever is registered while the list is read.
BuiltinDenied ==
    phase \in {"arms", "text"} =>
        \A i \in DOMAIN source :
            BuiltinFormatFor(source[i]) \in EnabledName \cup {Null}

\* A list is read whole or not at all: joining skips a NULL arm, so the text
\* must hold an arm for every path.
EveryPathHasAnArm ==
    phase = "text" => \A i \in DOMAIN job : job[i].pc = "arm"

\* No shipped reader with a function, and no registration, goes without a
\* companion extension.
ExtensionsNamed ==
    /\ \A i \in DOMAIN Seeds : Seeds[i].function # "" => Seeds[i].reader_ext # ""
    /\ \A c \in Call : c.reader_ext # ""

\* As long as every reader names its extension, no path is ever dropped: each
\* of the up to four NULLs an arm could be lost to is excluded by a lookup
\* made earlier, under a lock long since released.
NoPathDropped == ExtensionsNamed => EveryPathHasAnArm
=============================================================================
