---------------------------- MODULE MCStreamHubs -----------------------------
(* StreamHubs with clients, and models, that nothing tells apart.          *)
EXTENDS StreamHubs, TLC

Symmetric == Permutations(Clients) \union Permutations(Models)

(* Bound: a machine that was rebuilt has one client at a time.             *)
FewAtOnce == \/ machine_generation = 0
             \/ Cardinality({c \in Clients : connection[c] # "off"}) <= 1
FewSpec == Init /\ [][Next /\ FewAtOnce']_vars
=============================================================================
