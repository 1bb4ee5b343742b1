----------------------------- MODULE MCScreens -----------------------------
(* A small instance of each screen. *)
EXTENDS Screens

CONSTANTS w1, w2, a1, i1, d1, d2, red

-----------------------------------------------------------------------------
(* Pairing: a link that parses, one with a port out of range, and by hand. *)

DeskLink == [cats |-> TRUE, host |-> "desk", port |-> NoPort, tls |-> TRUE, token |-> "t", pin |-> "f"]
BadPort  == [DeskLink EXCEPT !.port = 65536]
Texts    == {DeskLink, BadPort}
Typed    == [id |-> <<"typed", 8443>>, tls |-> TRUE, pin |-> "", token |-> "password"]

-----------------------------------------------------------------------------
(* Every rollup of up to three agents of two ages in any order of their    *)
(* handles, and every one of up to three plugin panes.                     *)

AgentLists ==
    UNION {{s \in [1..n -> Agent(1..n, {0, 1})] : \A j, k \in 1..n : s[j].pub = s[k].pub => j = k} : n \in 0..3}
PluginLists == UNION {[1..n -> Plugin({"p", "q"}, {"agent", "editor"})] : n \in 0..3}
SmallRollups == (AgentLists \X {<<>>}) \cup ({<<>>} \X PluginLists)

-----------------------------------------------------------------------------
(* Every row of three cells in the default and one other colour.           *)

CellSet   == Cell(Glyph, {DefFg, red}, {DefBg, red}, SUBSET {"reversed", "underline"})
SmallRows == {row \in [1..3 -> CellSet] : WellFormed(row)}

-----------------------------------------------------------------------------
\* Beyond a lost update nothing is promised, and on the pair screen two updates
\* under way at once are one.
Followed ==
    /\ ~clobbered /\ ~overwritten
    /\ \A t, u \in PairThread : formCopy[t] # NoCopy /\ formCopy[u] # NoCopy => t = u
=============================================================================
