------------------------------ MODULE MCProcess ------------------------------
(* Instances of Process for TLC. Scene 2 is coding, and 1 sorts before it. *)
EXTENDS Process, TLC

MCProfiles ==
    {[host |-> "127.0.0.1", scene |-> 2, scenes |-> {}],
     [host |-> "remote", scene |-> 2, scenes |-> {1}],
     [host |-> "::1", scene |-> 1, scenes |-> {3}]}

\* No flags, one half of TLS, both halves, and a host with other scenes.
MCFlags ==
    [host : {None}, scene : {None}, scenes : {{}}, cert : BOOLEAN, key : BOOLEAN] \cup
    {[host |-> "::1", scene |-> None, scenes |-> {1}, cert |-> FALSE, key |-> FALSE]}

MCEnvironments ==
    {[key |-> TRUE, provider |-> FALSE], [key |-> FALSE, provider |-> TRUE],
     [key |-> FALSE, provider |-> FALSE]}

MCAsked == {"nest.devices.revoke", "nest.hello", "config.set"}

Symmetry == Permutations(Calls)
=============================================================================
