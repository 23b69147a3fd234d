-------------------------- MODULE MCGraphScheduler --------------------------
(***************************************************************************)
(* A mix of one source, two pages of each, demanded twice over: two nodes  *)
(* of every component in position order, shared by two demands.  The       *)
(* source reads a component that lies beyond the depth guard, which        *)
(* MaxExpandDepth = 1 cuts: it has no node, and its reader runs without.   *)
(***************************************************************************)
EXTENDS GraphScheduler, TLC

CONSTANTS mix, src, deep

\* Each reads the one below at the same page.
MixPlans ==
    [k \in Key |->
        CASE k[1] = mix -> {<< <<src, k[2]>> >>}
          [] k[1] = src -> {<< <<deep, k[2]>> >>}
          [] OTHER      -> {<<>>}]

\* Two consecutive pages of the mix.
MixRequests == {<< <<mix, 0>>, <<mix, 1>> >>}

\* The live monitor takes over a source, or a whole track.
MixRetirements == {{src}, {mix, src}}

HandlesAndThreads == Permutations(Demand) \cup Permutations(Worker)

=============================================================================
