--------------------------- MODULE MCDocDispatch ---------------------------
(* One path of every kind the CASE tells apart: a flat builtin reader with *)
(* an option (html), one without (odt), the special-cased formats, a data  *)
(* format, an extension nobody ships, and NULL.  The registrations give    *)
(* an existing key a reader without extension, a reader called "pdf", a    *)
(* table reader, and a reader whose extension does not load.               *)
EXTENDS DocDispatch

MCKey == {"html", "odt", "pdf", "toml", "csv", "zim", "zim://", "foo", "zip"}
MCLower == [g \in MCKey |-> g]
MCName == {"", "html", "webbed", "odt", "panduck", "pdf", "toml", "data", "core", "zim",
           "zim_article", "acme", "beta"}
MCFunction == {"", "read_html_blocks", "read_odt_blocks", "read_acme"}
MCQualifiedIdentifier == MCFunction \ {""}
MCOption == {"capture_attributes"}

Builtin(k, f, x, fn, kd, opts) ==
    [ext |-> k, format |-> f, reader_ext |-> x, function |-> fn, kind |-> kd,
     source |-> "builtin", options |-> opts]

MCSeeds == <<
    Builtin("html", "html", "webbed", "read_html_blocks", "doc", MCOption),
    Builtin("pdf", "pdf", "pdf", "", "doc", {}),
    Builtin("toml", "toml", "toml", "", "doc", {}),
    Builtin("zim", "zim", "zim", "", "doc", {}),
    Builtin("zim://", "zim_article", "zim", "", "doc", {}),
    Builtin("csv", "data", "core", "", "table", {}),
    Builtin("odt", "odt", "panduck", "read_odt_blocks", "doc", {})>>

Register(x, fn, kd, k) ==
    [reader_ext |-> x, function |-> fn, kind |-> kd, exts |-> <<<<k>>>>, options |-> {}]

MCCall == {Register("", "read_html_blocks", "doc", "html"),
           Register("acme", "read_acme", "doc", "odt"),
           Register("pdf", "read_acme", "doc", "pdf"),
           Register("acme", "read_acme", "table", "foo"),
           Register("beta", "read_acme", "table", "csv")}

MCPath == {"a.html", "b.odt", "c.pdf", "d.toml", "e.csv", "f.zim", "zim://f.zim/A", "g.foo",
           "h.zip"}
MCKeyOf == [p \in MCPath |->
    CASE p = "a.html" -> "html" [] p = "b.odt" -> "odt" [] p = "c.pdf" -> "pdf"
      [] p = "d.toml" -> "toml" [] p = "e.csv" -> "csv" [] p = "f.zim" -> "zim"
      [] p = "zim://f.zim/A" -> "zim://" [] p = "g.foo" -> "foo" [] p = "h.zip" -> "zip"]

Plain(p) == [plural |-> FALSE, text |-> p, paths |-> <<p>>]
Plural(text, ps) == [plural |-> TRUE, text |-> text, paths |-> ps]

MCSource == {Plain(p) : p \in MCPath \cup {Null}} \cup
    {Plural("h.zip", << >>), Plural("h.zip", <<"b.odt", "a.html">>),
     Plural("h.zip", <<"a.html", Null>>), Plural("c.pdf", <<"c.pdf">>),
     Plural("b.odt", <<"b.odt", "b.odt">>), Plural("h.zip", <<"a.html", "g.foo">>),
     Plural(Null, << >>)}

\* Every source under every format and pages; every source under every set of
\* options; both with what else varies at its default.
Default(src) == [src |-> src, format |-> "auto", pages |-> "", filename |-> FALSE,
                 attributes |-> "default", reader_params |-> "MAP {}",
                 expand_embedded |-> FALSE]

MCRequest ==
    {[Default(s) EXCEPT !.format = f, !.pages = g, !.filename = h] :
        s \in MCSource, g \in {"", "2", Null}, h \in {FALSE, TRUE},
        f \in {"auto", "odt", "acme", "pandoc", "yaml", "code", "bogus", Null}}
    \cup {[Default(s) EXCEPT !.filename = f, !.attributes = a, !.reader_params = r] :
             s \in MCSource, f \in {FALSE, TRUE, Null}, a \in {"default", "all", Null},
             r \in {"MAP {}", "MAP {p}", Null}}
    \cup {[Default(s) EXCEPT !.expand_embedded = x] : s \in MCSource, x \in {TRUE, Null}}

MCEnabledName == {"html", "pdf", "toml", "yaml", "pandoc", "data", "zim", "zim_article",
                  "acme", "beta", "code", "bogus", "zip", "foo"}
MCLoadable == {"webbed", "panduck", "pdf", "acme", "zim", "sitting_duck", "markdown"}
=============================================================================
