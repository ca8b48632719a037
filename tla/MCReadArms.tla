----------------------------- MODULE MCReadArms -----------------------------
(* A read of one or two paths racing one session's registrations.  ".md"   *)
(* is a builtin whose format the reading session has disabled, ".odt" one  *)
(* it reads, ".pdf" one with no function, ".foo" a key nobody ships.       *)
EXTENDS ReadArms

MCKey == {"md", "odt", "pdf", "foo"}
MCLower == [g \in MCKey |-> g]
MCName == {"", "markdown", "odt", "pdf", "panduck", "acme", "beta"}
MCFunction == {"", "read_markdown_blocks", "read_odt_blocks", "read_acme", "drop table"}
MCQualifiedIdentifier == MCFunction \ {"", "drop table"}
MCOption == {"odt:all", "acme:all"}

Builtin(k, f, x, fn) ==
    [ext |-> k, format |-> f, reader_ext |-> x, function |-> fn, kind |-> "doc",
     source |-> "builtin", options |-> {}]

MCSeeds == <<Builtin("md", "markdown", "markdown", "read_markdown_blocks"),
             Builtin("pdf", "pdf", "pdf", ""),
             Builtin("odt", "odt", "panduck", "read_odt_blocks")>>

Register(x, fn, exts, opts) ==
    [reader_ext |-> x, function |-> fn, kind |-> "doc", exts |-> exts, options |-> opts]

\* Every registration names an extension; "beta" is one that does not load.
NamedCalls == {
    Register("acme", "read_acme", <<<<"md">>, <<"odt">>>>, {"acme:all"}),
    Register("acme", "read_odt_blocks", <<<<"odt">>>>, {"odt:all"}),
    Register("beta", "read_acme", <<<<"foo">>, <<"odt">>>>, {}),
    Register("beta", "drop table", <<<<"odt">>>>, {})}

\* One registration needs no companion extension.
AllCalls == NamedCalls \cup {Register("", "read_acme", <<<<"odt">>>>, {})}

MCPath == {"a.md", "b.odt", "c.foo", "d.pdf"}
MCKeyOf == [p \in MCPath |-> CASE p = "a.md" -> "md" [] p = "b.odt" -> "odt"
                               [] p = "c.foo" -> "foo" [] p = "d.pdf" -> "pdf"]
MCSource == {<<"b.odt">>, <<Null>>, <<"b.odt", "a.md">>, <<"c.foo", "b.odt">>, <<"d.pdf">>}
MCEnabledName == {"odt", "pdf", "acme", "beta", "md", "foo", "code"}
MCLoadable == {"panduck", "acme"}
=============================================================================
