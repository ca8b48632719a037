---------------------------- MODULE DocDispatch ----------------------------
(***************************************************************************)
(* read_panduck_doc and read_panduck_table (READ_DOC_MACRO and             *)
(* READ_TABLE_MACRO in src/src/reader_registry.cpp): which query a call    *)
(* turns into, in every registry a sequence of registrations can leave.    *)
(*                                                                         *)
(* Each macro is one CASE: its first true WHEN decides.  Here a WHEN is    *)
(* two-valued, TRUE exactly where SQL's is: a comparison with NULL by = or *)
(* <> never selects, IS [NOT] DISTINCT FROM compares NULL like a value.    *)
(* error(NULL) is NULL, not an error, and query(NULL) is nobody's wording. *)
(* A call is decided in one step; ReadArms has the interleavings.          *)
(***************************************************************************)
EXTENDS ReaderScalars

CONSTANTS
    Request,   \* calls of read_panduck_doc
    NoAnswer   \* no call is being answered

\* src.text is src::VARCHAR; a plural source (a list or a glob) has paths.  A
\* plural source whose text is NULL is a NULL list.
ASSUME RequestAssumption ==
    /\ Request \subseteq
        [src : [plural : BOOLEAN, text : Path \cup {Null}, paths : Seq(Path \cup {Null})],
         format : STRING \cup {Null},
         pages : {"", "2", Null},
         filename : BOOLEAN \cup {Null},
         attributes : {"default", "all", Null},
         reader_params : {"MAP {}", "MAP {p}", Null},
         expand_embedded : BOOLEAN \cup {Null}]
    /\ Null # "pdf"

VARIABLE answer  \* the call last made and what it became

dispatchVars == <<vars, answer>>

-----------------------------------------------------------------------------
(* SQL's comparisons, where they decide a WHEN.                            *)

Equals(a, b) == a # Null /\ b # Null /\ a = b     \* a = b
Differs(a, b) == a # Null /\ b # Null /\ a # b    \* a <> b

\* What a call can become.  error() of a message with a NULL part is NULL.
Refusal == [result |-> "error", arms |-> << >>]
NullText == [result |-> "null", arms |-> << >>]
Text(arms) == [result |-> "text", arms |-> arms]
Raise(part) == IF part = Null THEN NullText ELSE Refusal

\* One SELECT of the generated query: what reads the path, as which format,
\* and which of the caller's options it carries.
Arm(reader, path, format, carries) ==
    [reader |-> reader, path |-> path, format |-> format, carries |-> carries]

-----------------------------------------------------------------------------
(* The helper macros.                                                      *)

ResolvedFormat(p, format) == IF format = "auto" THEN FormatFor(p) ELSE format

Coalesce(a, b) == IF a # Null THEN a ELSE b

\* Mutated form: the policy goes by what the live row calls itself.
PolicyFormatLive(p, format) ==
    IF format # "auto" THEN format
    ELSE Coalesce(FormatFor(p), Coalesce(RegistryKeyFor(p),
             IF ReaderFunctionFor(p) = Null THEN "code" ELSE Null))

PolicyFormat(p, format) ==
    IF format # "auto" THEN format
    ELSE Coalesce(BuiltinFormatFor(p), Coalesce(FormatFor(p), Coalesce(RegistryKeyFor(p),
             IF ReaderFunctionFor(p) = Null THEN "code" ELSE Null)))

\* Mutated form: an extension nobody needs is ensured all the same.
ExtensionReadyUnhoisted(p) == ReaderExtensionFor(p) \in Loadable

\* ... IS NULL OR panduck_ensure_extension(...)
ExtensionReady(p) == ReaderExtensionFor(p) = Null \/ ReaderExtensionFor(p) \in Loadable

OptionsCarried(q) ==
    {o \in {"filename", "attributes", "reader_params"} :
        \/ (o = "filename" /\ q.filename = TRUE)
        \/ (o = "attributes" /\ q.attributes # "default")
        \/ (o = "reader_params" /\ q.reader_params # "MAP {}")}

\* panduck_reader_option_for raises for a NULL value and for one unmapped.
OptionRefused(q, p) ==
    \/ q.attributes = Null
    \/ q.attributes # "default" /\ Found(p).options = {}

\* Mutated form: a path no reader function serves is skipped, not refused.
ArmForSkipping(q, p) ==
    IF p = Null THEN Refusal
    ELSE IF ReaderFunctionFor(p) = Null THEN NullText
    ELSE IF ~ExtensionReady(p) THEN Raise(ReaderExtensionFor(p))
    ELSE IF OptionRefused(q, p) THEN Refusal
    ELSE Text(<<Arm(ReaderFunctionFor(p), p, FormatFor(p), OptionsCarried(q))>>)

\* One element of panduck_read_arms_opt's list_transform.
ArmFor(q, p) ==
    IF p = Null \/ ReaderFunctionFor(p) = Null THEN Refusal
    ELSE IF ~ExtensionReady(p) THEN Raise(ReaderExtensionFor(p))
    ELSE IF OptionRefused(q, p) THEN Refusal
    ELSE Text(<<Arm(ReaderFunctionFor(p), p, FormatFor(p), OptionsCarried(q))>>)

\* What panduck_read_arms_opt refuses before it looks for readers.
ArmsRefused(q, paths) ==
    \/ q.filename = Null \/ q.reader_params = Null
    \/ \E i \in DOMAIN paths : ~ReaderEnabled(PolicyFormat(paths[i], "auto"))

\* panduck_read_arms_opt.  Its text joins the arms that are not NULL; an arm
\* goes by the place of its path.
ReadArmsOpt(q, paths) ==
    LET each == [i \in DOMAIN paths |-> ArmFor(q, paths[i])]
        joined == {i \in DOMAIN paths : each[i].result = "text"}
    IN  IF ArmsRefused(q, paths) \/ \E i \in DOMAIN paths : each[i].result = "error"
        THEN Refusal
        ELSE Text([i \in joined |-> each[i].arms[1]])

-----------------------------------------------------------------------------
(* read_panduck_doc.                                                       *)

Ensured(x, arm) == IF x \in Loadable THEN Text(<<arm>>) ELSE Refusal

\* Mutated form: options reach branches that cannot carry them.
OptionsRefusedUnlessParams(q, resolved) ==
    q.attributes # "default" \/ (q.filename = TRUE /\ resolved # "pdf")

\* pages on a plural source, on a format known not to be pdf, and NULL pages.
PagesRefused(q, resolved) ==
    \/ q.pages # "" /\ (q.src.plural \/ Differs(resolved, "pdf"))
    \/ q.pages = Null

\* The generic branch: the registry names a function for this very format.
Claimed(p, resolved) == ReaderFunctionFor(p) # Null /\ resolved = FormatFor(p)

\* What the special-cased branches below the generic one cannot carry.
OptionsRefused(q, resolved) ==
    \/ q.attributes # "default"
    \/ q.reader_params # "MAP {}"
    \/ q.filename = TRUE /\ resolved # "pdf"

\* The CASE, branch by branch and in its order.  Neither the length nor the
\* text of a NULL list is anything but NULL.
Branches(q) ==
    LET p == q.src.text
        resolved == ResolvedFormat(p, q.format)
        policy == PolicyFormat(p, q.format)
        special(reader) == Arm(reader, p, resolved, {})
    IN <<
    [when |-> q.filename = Null \/ q.format = Null \/ q.reader_params = Null,
     then |-> Refusal],
    [when |-> PagesRefused(q, resolved),
     then |-> IF q.src.plural \/ q.pages = Null THEN Refusal ELSE Raise(resolved)],
    [when |-> Equals(resolved, "data"),
     then |-> Refusal],
    [when |-> q.src.plural,
     then |-> IF p = Null THEN NullText
              ELSE IF q.src.paths = << >> THEN Raise(p) ELSE ReadArmsOpt(q, q.src.paths)],
    [when |-> ~ReaderEnabled(policy),
     then |-> Raise(policy)],
    [when |-> Claimed(p, resolved),
     then |-> IF ExtensionReady(p) THEN ReadArmsOpt(q, <<p>>)
              ELSE Raise(ReaderExtensionFor(p))],
    [when |-> OptionsRefused(q, resolved),
     then |-> Refusal],
    [when |-> Equals(resolved, "pandoc"),
     then |-> Text(<<special("read_pandoc_blocks")>>)],
    [when |-> Equals(resolved, "pdf"),
     then |-> Ensured("pdf", Arm("read_pdf_blocks", p, resolved,
                                 {"pages"} \cup OptionsCarried(q)))],
    [when |-> Equals(resolved, "toml") \/ Equals(resolved, "yaml"),
     then |-> Text(<<special("read_text")>>)],
    [when |-> Equals(resolved, "zim_article"),
     then |-> IF "webbed" \in Loadable THEN Ensured("zim", special("zim_get_content"))
              ELSE Refusal],
    [when |-> Equals(resolved, "zim"),
     then |-> Refusal],
    [when |-> (FormatFor(p) = Null /\ q.format = "auto") \/ Equals(resolved, "code"),
     then |-> Ensured("sitting_duck", special("ast_to_blocks"))],
    [when |-> TRUE,
     then |-> Raise(resolved)] >>

\* panduck_wrap_expand: CASE WHEN NOT flag THEN the query, WHEN the markdown
\* extension is missing THEN an error, ELSE the query with fragments expanded.
WrapExpand(q, outcome) ==
    IF q.expand_embedded # FALSE /\ "markdown" \notin Loadable THEN Refusal ELSE outcome

ReadDoc(q) ==
    LET b == Branches(q)
    IN  WrapExpand(q, b[First({i \in DOMAIN b : b[i].when})].then)

-----------------------------------------------------------------------------
(* read_panduck_table.                                                     *)

ReadTable(p) ==
    IF ~ReaderEnabled(PolicyFormat(p, "auto")) THEN Raise(PolicyFormat(p, "auto"))
    ELSE IF Equals(ReaderKindFor(p), "table") /\ ReaderFunctionFor(p) # Null
         THEN IF ExtensionReady(p)
              THEN Text(<<Arm(ReaderFunctionFor(p), p, FormatFor(p), {})>>)
              ELSE Raise(ReaderExtensionFor(p))
    ELSE IF Equals(FormatFor(p), "toml")
         THEN Ensured("toml", Arm("parse_toml", p, "toml", {}))
    ELSE IF ExtensionReady(p) \/ Equals(ReaderExtensionFor(p), "core")
         THEN Text(<<Arm("replacement scan", p, FormatFor(p), {})>>)
         ELSE Raise(ReaderExtensionFor(p))

-----------------------------------------------------------------------------
DispatchInit == Init /\ answer = NoAnswer

\* Bound: calls are answered between registration statements.  An answer reads
\* the table and nothing else, so a statement in flight would only repeat it.
BetweenStatements == \A s \in Session : stmt[s] = NoStatement /\ allow[s]

CallReadDoc(q) ==
    /\ answer = NoAnswer /\ BetweenStatements
    /\ answer' = [macro |-> "doc", call |-> q, outcome |-> ReadDoc(q)]
    /\ UNCHANGED vars

CallReadTable(p) ==
    /\ answer = NoAnswer /\ BetweenStatements
    /\ answer' = [macro |-> "table", call |-> p, outcome |-> ReadTable(p)]
    /\ UNCHANGED vars

\* The answer is consumed; registrations go on between calls.
Consume == answer # NoAnswer /\ answer' = NoAnswer /\ UNCHANGED vars

Registration == answer = NoAnswer /\ Next /\ UNCHANGED answer

DispatchNext ==
    \/ \E q \in Request : CallReadDoc(q)
    \/ \E p \in Path \cup {Null} : CallReadTable(p)
    \/ Consume
    \/ Registration

DispatchSpec == DispatchInit /\ [][DispatchNext]_dispatchVars

-----------------------------------------------------------------------------
(* Properties.                                                             *)

Answered(macro) == answer # NoAnswer /\ answer.macro = macro
Became(result) == answer.outcome.result = result
AnswerArms == {answer.outcome.arms[i] : i \in DOMAIN answer.outcome.arms}

\* The macro's error() audit: no call, whatever is NULL in it and whatever is
\* registered, silently becomes NULL where an error was meant.  Only a NULL
\* list of paths, which names no document, becomes the NULL it is.
NeverNull ==
    answer # NoAnswer /\ Became("null") =>
        Answered("doc") /\ answer.call.src.plural /\ answer.call.src.text = Null

\* "Options are refused, not ignored, where they cannot be honoured": every
\* option asked for is carried by every arm of the query.
OptionsHonoured ==
    Answered("doc") /\ Became("text") =>
        \A a \in AnswerArms : OptionsCarried(answer.call) \subseteq a.carries

\* `pages` "is real for PDF and raises for formats that have none" (README).
PagesHonoured ==
    Answered("doc") /\ Became("text") /\ answer.call.pages # "" =>
        \A a \in AnswerArms : a.path # Null => "pages" \in a.carries

\* What must be enabled for an arm: the format the caller names; else, for a
\* path read as the registry has it, what panduck ships for it; else what the
\* registry calls it; and "code" for a path nobody claims.
Gated(a) ==
    IF a.format # FormatFor(a.path) THEN a.format \in EnabledName
    ELSE IF BuiltinFormatFor(a.path) # Null THEN BuiltinFormatFor(a.path) \in EnabledName
    ELSE /\ a.format # Null => a.format \in EnabledName
         /\ Found(a.path) = Row0 => "code" \in EnabledName

\* A disabled format is not read, by neither macro, in no list: not under the
\* name of whoever has registered its key since.
DisabledNotRead ==
    answer # NoAnswer /\ Became("text") => \A a \in AnswerArms : Gated(a)

\* A plural source is read whole, in the order of its paths.
ListsReadInOrder ==
    Answered("doc") /\ Became("text") /\ answer.call.src.plural =>
        [i \in DOMAIN answer.outcome.arms |-> answer.outcome.arms[i].path]
            = answer.call.src.paths

=============================================================================
