------------------------- MODULE MCRevalidationLane -------------------------
(* Instances of RevalidationLane for TLC: one clip, with a pool that can   *)
(* and one that cannot be exhausted, and two clips that share a pool.      *)
EXTENDS RevalidationLane

CONSTANTS o1, o2, p1, p2

Project(clips, pool, calls, jobs) ==
    [clips |-> clips, pool |-> pool, calls |-> calls, jobs |-> jobs]

SmallProjects == {Project({o1}, {p1}, 2, 1), Project({o1}, {p1, p2}, 1, 2),
                  Project({o1}, {p1, p2}, 2, 1),
                  Project({o1, o2}, {p1}, 1, 1), Project({o1, o2}, {p1, p2}, 1, 1)}

=============================================================================
