---- MODULE ReferenceGraphMC ----
(***************************************************************************)
(* Three files and two links, one of which the command is given.  At most  *)
(* one thing is wrong with the files: the third is missing or its location *)
(* is not accepted, or the second does not parse.  The second file is the  *)
(* longest.                                                                *)
(***************************************************************************)
EXTENDS ReferenceGraph, TLC

Length == [d \in {"a", "b", "c"} |-> IF d = "b" THEN 2 ELSE 1]

Source(c) == [u \in {"a", "b", "c", "entry", "alias"} |->
                 CASE u = "entry" -> "a" [] u = "alias" -> "b"
                   [] u = "c" -> c [] OTHER -> u]

To(u) == [to |-> u, found |-> TRUE]
UpTo(n, S) == UNION {[1 .. k -> S] : k \in 0 .. n}

Refs == {("a" :> a) @@ ("b" :> b) @@ ("c" :> c) :
            a \in UpTo(2, {To("b"), To("c"), To("alias"), To("entry"),
                           [to |-> "alias", found |-> FALSE]}),
            b \in UpTo(2, {To("a"), To("c"), To("alias"), To("entry")}),
            c \in UpTo(1, {To("a"), To("b"), To(Invalid)})}

World(c, parses, located, refs) ==
    [source |-> Source(c), parses |-> parses, located |-> located, refs |-> refs]

Files == UNION {{World("c", Docs, Uris, r), World(Unread, Docs, Uris, r),
                 World("c", Docs \ {"b"}, Uris, r),
                 World("c", Docs, Uris \ {"c"}, r)} : r \in Refs}
====
