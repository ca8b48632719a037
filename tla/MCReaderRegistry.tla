-------------------------- MODULE MCReaderRegistry --------------------------
(* A small registry: three shipped keys, one key nobody ships, the empty   *)
(* key, and calls chosen so that keys are overridden, added and shared by  *)
(* two calls, one of them listing several extensions.                      *)
EXTENDS ReaderRegistry

MCKey == {"md", "odt", "csv", "foo", ""}
MCSegment == {"md", "MD", "odt", "foo", "tar", ""}
MCLower == [g \in MCSegment |->
              IF g = "MD" THEN "md" ELSE IF g = "tar" THEN "foo" ELSE g]
MCName == {"", "markdown", "odt", "data", "panduck", "core", "acme"}
MCFunction == {"", "read_markdown_blocks", "read_odt_blocks", "read_acme", "drop table"}
MCQualifiedIdentifier == MCFunction \ {"", "drop table"}
MCOption == {"all", "ill-formed"}
MCWellFormedOption == {"all"}

Builtin(k, f, x, fn, kd) ==
    [ext |-> k, format |-> f, reader_ext |-> x, function |-> fn, kind |-> kd,
     source |-> "builtin", options |-> {}]

MCSeeds == <<Builtin("md", "markdown", "markdown", "read_markdown_blocks", "doc"),
             Builtin("csv", "data", "core", "", "table"),
             Builtin("odt", "odt", "panduck", "read_odt_blocks", "doc")>>

Register(x, fn, kd, exts, opts) ==
    [reader_ext |-> x, function |-> fn, kind |-> kd, exts |-> exts, options |-> opts]

MCCall == {
    \* an override that gives a shipped key no format at all
    Register("", "read_markdown_blocks", "doc", <<<<"", "MD">>>>, {}),
    \* a new key, twice in one list, and a shipped one
    Register("acme", "read_acme", "doc", <<<<"foo">>, <<"", "foo">>, <<"odt">>>>, {"all"}),
    \* overlaps the previous call, and claims extensionless files
    Register("acme", "read_odt_blocks", "table", <<<<"">>, <<"foo">>>>, {}),
    \* refused at bind: not an identifier, no function, no extension, bad option
    Register("acme", "drop table", "doc", <<<<"md">>>>, {}),
    Register("acme", "", "doc", <<<<"md">>>>, {}),
    Register("acme", "read_acme", "doc", << >>, {}),
    Register("acme", "read_acme", "doc", <<<<"md">>>>, {"ill-formed"})}
=============================================================================
