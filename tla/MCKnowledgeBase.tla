---------------------------- MODULE MCKnowledgeBase ----------------------------
(***************************************************************************)
(* Instances of KnowledgeBase: two source files, rtl/f1 and tb/f2, and     *)
(* what they may say.                                                      *)
(***************************************************************************)
EXTENDS KnowledgeBase

CONSTANTS f1, f2, a, b, r1, r2

Ent(x, l) == [type |-> "entity", name |-> x, line |-> l]
Rel(x, y) == [type |-> "relation", from |-> x, to |-> y]
Invalid == [type |-> "invalid"]

MCNames == {a, b}
MCLines == {1, 2}
At(d, f) == [dir |-> d, file |-> f]

\* A walk that meets each file once: search_dirs = "rtl,tb".
FlatWalk == <<At("rtl", f1), At("tb", f2)>>
\* The default "rtl,tb,dv,uvm,.": "." meets both files again.
DefaultWalk == <<At("rtl", f1), At("tb", f2), At(".", f1), At(".", f2)>>

\* f1 has a or b.  f2 states a relation to the entity of f1, or withdraws it
\* and has b one line further down.
TwoFiles ==
    (f1 :> {<<Ent(a, 1)>>, <<Ent(b, 1)>>})
        @@ (f2 :> {<<Ent(b, 1), Rel(b, a)>>, <<Invalid, Ent(b, 2)>>})
\* f1 names an entity of f2, which is read later.
ForwardFiles == (f1 :> {<<Ent(a, 1), Rel(a, b)>>}) @@ (f2 :> {<<Ent(b, 1)>>})
================================================================================
