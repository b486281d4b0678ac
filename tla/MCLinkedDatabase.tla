-------------------------- MODULE MCLinkedDatabase --------------------------
(***************************************************************************)
(* An instance of LinkedDatabase.  "long" stands for a name of more than    *)
(* 255 characters and "cut" for its first 255.                              *)
(***************************************************************************)
EXTENDS LinkedDatabase

MCNames == {"long"}

MCStored(name) == IF name = "long" THEN "cut" ELSE name

MCFuncTables == {<<"ok", "invalid", "untraced">>}

Entry(name, out, has_tbl, func_tbl) ==
    [name |-> name, out |-> out, has_tbl |-> has_tbl, func_tbl |-> func_tbl]

MCModTables ==
    {<<Entry("a", "ok", FALSE, <<>>), Entry("", "ok", TRUE, <<"ok">>),
       Entry("a", "ok", TRUE, <<"invalid", "ok">>), Entry("a", "untraced", TRUE, <<"ok">>)>>}
=============================================================================
