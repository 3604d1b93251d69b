---------------------------- MODULE MCEditBuffers ----------------------------
(* Small instances of EditBuffers for TLC: main.tex (m) and a second file x *)
(* in two examples: x is a binding or style file in the one kind of setup,  *)
(* and a second .tex file in the other.                                    *)
EXTENDS EditBuffers, TLC

CONSTANTS m, x, bindings, paper

MCTemplate == bindings :> {m, x} @@ paper :> {m, x}
Symmetry == Permutations(Tasks)

Does(ops, tex, calm) == [ops |-> ops, tex |-> tex, calm |-> calm]

\* Hurried users, who act while the page is busy, and patient ones.
Users ==
    {Does({"edit", "open", "nav", "expire"}, {m, x}, FALSE),
     Does({"edit", "open", "create"}, {m}, FALSE),
     Does({"edit", "open", "delete"}, {m, x}, FALSE),
     Does({"delete", "create"}, {m}, FALSE),
     Does({"edit", "upload", "fail", "expire"}, {m, x}, FALSE),
     Does({"clear", "nav", "swap", "fail"}, {m, x}, FALSE),
     Does({"edit", "open", "nav", "swap", "delete", "clear"}, {m}, TRUE),
     Does({"edit", "swap", "expire"}, {m, x}, TRUE)}

\* A user who opens a file while typing.
Hurried == {Does({"edit", "open"}, {m, x}, FALSE)}
=============================================================================
