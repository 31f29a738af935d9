----------------------------- MODULE MCPackages -----------------------------
(* Instances of Packages for TLC: two builds of one plugin. *)
EXTENDS Packages, TLC

CONSTANTS p1, b1, b2, m1, m2

MCPluginOf == (b1 :> p1) @@ (b2 :> p1)

Entry(module, api, there) == [module |-> module, api |-> api, there |-> there]

\* One build whose entries all load, and one with an entry that does not.
MCManifest ==
    (b1 :> {Entry(m1, "ours", TRUE), Entry(m2, "undeclared", TRUE)}) @@
    (b2 :> {Entry(m1, "other", TRUE), Entry(m2, "ours", FALSE)})

Symmetry == Permutations(Changes) \cup Permutations(Puts)
=============================================================================
