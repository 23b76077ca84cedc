--------------------------- MODULE MCLocalCommands ---------------------------
EXTENDS LocalCommands, TLC

Symmetry == Permutations(Client)

Settings(p, b) == [port |-> p, autostart |-> b]

MCCommand ==
    [kind : {"port"}, config : {Settings(1, FALSE), Settings(2, FALSE)}]
    \cup [kind : {"autostart"}, config : {Settings(1, TRUE)}]
    \cup [kind : {"import"}, config : {Settings(1, FALSE)}]
    \cup [kind : {"window"}, config : {Settings(2, TRUE)}]
=============================================================================
