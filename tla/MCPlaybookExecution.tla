------------------------ MODULE MCPlaybookExecution -------------------------
(* Small playbooks on which TLC checks PlaybookExecution. *)
EXTENDS PlaybookExecution, TLC

CONSTANTS s, a, b, j, e, h, g, x, y, z, q1, q2

Edge(from, to) == [src |-> from, dst |-> to, handle |-> "default"]
Labelled(from, label, to) == [src |-> from, dst |-> to, handle |-> label]

\* s forks to a and b, which converge on j, then e, and to x, which goes on to y
\* or, on an error, to the delay h.
ForkNodes == {s, a, b, j, e, x, y, h}
ForkEdges ==
    {Edge(s, a), Edge(s, b), Edge(s, x), Edge(a, j), Edge(b, j), Edge(j, e), Edge(x, y),
     Labelled(x, "error", h)}
ForkKind ==
    [n \in ForkNodes |-> CASE n = e -> "end" [] n = h -> "delay" [] OTHER -> "step"]
ForkPolicy ==
    [n \in ForkNodes |-> CASE n = x -> "route_to_error" [] n = b -> "continue" [] OTHER -> "stop"]

\* The condition s chooses a or b, which converge on j, then e.
ChoiceNodes == {s, a, b, j, e}
ChoiceEdges ==
    {Labelled(s, "yes", a), Labelled(s, "no", b), Edge(a, j), Edge(b, j), Edge(j, e)}
ChoiceKind ==
    [n \in ChoiceNodes |-> CASE n = s -> "condition" [] n = e -> "end" [] OTHER -> "step"]

\* s forks to the gate g, with z behind it, and to the form y, with x behind it,
\* which changes a block list.
GateNodes == {s, g, x, y, z}
GateEdges == {Edge(s, g), Edge(s, y), Edge(g, z), Edge(y, x)}
GateKind ==
    [n \in GateNodes |->
        CASE n = g -> "gate" [] n = x -> "edl" [] n = y -> "form" [] OTHER -> "step"]

StopPolicy == [n \in Nodes |-> "stop"]
=============================================================================
