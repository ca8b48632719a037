---------------------------- MODULE MCBlockLists ----------------------------
(* The three components that work on one flat list of blocks, side by      *)
(* side: RepairBlocks, the lone plain pass and the macros that cut a       *)
(* document.  A behaviour is one of a single component; the variables of   *)
(* the other two stay as they are.                                         *)
(*                                                                         *)
(* RepairBlocks: every list of up to three elements over every kind of     *)
(* element the passes tell apart, with levels that are too shallow, right, *)
(* deep and jumping; and every list of four over the fragments alone.      *)
(* The pass: every list of up to four blocks over containers, plains and   *)
(* inlines, with and without text, at levels up to three; and chains of    *)
(* plains.  The macros: every document of up to four rows, of thirteen     *)
(* kinds.                                                                  *)
EXTENDS BlockRepair, LonePlain, DocSections

CONSTANT Component  \* those that are looked at

VARIABLE component

MCBlockType ==
    {"paragraph", "list", "list_item", "figure", "caption", "plain", "text", "document",
     "table", "div", "heading", "metadata"}

-----------------------------------------------------------------------------
(* RepairBlocks.                                                           *)

Elem(k, t, l) == [kind |-> k, type |-> t, level |-> l]

MCLevel == {0, 1, 2, 4}

MCElement ==
    {Elem("block", t, l) : t \in {"paragraph", "list_item", "caption"}, l \in MCLevel}
    \cup {Elem("block", t, l) : t \in {"list", "figure", "table"}, l \in {1, 2}}
    \cup {Elem("inline", "text", l) : l \in MCLevel}
    \cup {Elem("value", "text", 1), Elem("block", "document", 0),
          Elem("block", "paragraph", NoLevel), NoElement}

Fragment ==
    {Elem("block", t, l) : t \in {"paragraph", "list_item", "caption"}, l \in {1, 2, 3}}
    \cup {Elem("inline", "text", l) : l \in {1, 2, 3}}

ListsOf(S, n) == [1 .. n -> S]

MCInput == UNION {ListsOf(MCElement, n) : n \in 0 .. 3} \cup ListsOf(Fragment, 4)

-----------------------------------------------------------------------------
(* The lone plain pass.                                                    *)

MCContent == {"", "s", "t"}

Carrying(k, t, l, c, a) ==
    [kind |-> k, type |-> t, level |-> l, content |-> c, attributes |-> a]

Shape ==
    {Carrying("block", t, l, c, FALSE) : t \in {"div", "plain"}, l \in 1 .. 3, c \in {"", "s"}}
    \cup {Carrying("inline", "text", l, "t", FALSE) : l \in 2 .. 4}
    \cup {Carrying("block", "plain", 2, "s", TRUE), Carrying("block", "div", -1, "", FALSE),
          Carrying("block", "list", 1, "", FALSE), Carrying("block", "list_item", 2, "", FALSE)}

Chain ==
    {Carrying("block", "plain", l, "", FALSE) : l \in 2 .. 4}
    \cup {Carrying("block", "div", 1, "", FALSE), Carrying("inline", "text", 4, "t", FALSE)}

MCConverted == UNION {ListsOf(Shape, n) : n \in 0 .. 4} \cup ListsOf(Chain, 5)

-----------------------------------------------------------------------------
(* The macros.                                                             *)

R(type, level, content) ==
    [kind |-> "block", type |-> type, level |-> level, rank |-> Null, content |-> content, id |-> Null]
Heading(rank, content) == [R("heading", 1, content) EXCEPT !.rank = rank]
WithId(id, row) == [row EXCEPT !.id = id]

MCRow ==
    { Heading(1, <<"a">>), Heading(2, <<"a", "b">>), WithId(<<"i">>, Heading(2, <<"b">>)),
      Heading(Null, Null), Heading(3, <<"a">>),
      R("paragraph", 1, <<"a">>), R("paragraph", 2, <<"b">>), R("hr", 1, Null),
      WithId(<<"i">>, R("div", 1, << >>)), WithId(<<"i">>, R("div", Null, << >>)),
      R("metadata", 2, << >>), [R("inlines", 1, Null) EXCEPT !.kind = "value"],
      [R("text", 3, <<"b">>) EXCEPT !.kind = "inline"] }

MCDocument == UNION {ListsOf(MCRow, n) : n \in 0 .. 4}

MCPhrase == {<< >>, <<"a">>, <<"b">>, <<"a", "b">>}
MCId == {<<"i">>}

-----------------------------------------------------------------------------
NoRepair ==
    /\ input = << >> /\ pass = "done" /\ i = 1
    /\ els = << >> /\ out = << >> /\ stack = {} /\ min_level = 0

NoPass == given = << >> /\ rows = << >> /\ at = 1

NoMacro == blocks = << >> /\ documents = 1 /\ answer = NoAnswer

ListsInit ==
    /\ component \in Component
    /\ IF component = "repair" THEN RepairInit ELSE NoRepair
    /\ IF component = "plain" THEN PlainInit ELSE NoPass
    /\ IF component = "sections" THEN DocInit ELSE NoMacro

Repair == component = "repair" /\ RepairNext /\ UNCHANGED <<component, plainVars, docVars>>

Normalise == component = "plain" /\ PlainNext /\ UNCHANGED <<component, repairVars, docVars>>

Cut == component = "sections" /\ DocNext /\ UNCHANGED <<component, repairVars, plainVars>>

ListsNext == Repair \/ Normalise \/ Cut

ListsSpec == ListsInit /\ [][ListsNext]_<<component, repairVars, plainVars, docVars>>
=============================================================================
