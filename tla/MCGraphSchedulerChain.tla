----------------------- MODULE MCGraphSchedulerChain -----------------------
(***************************************************************************)
(* A chain of four components, one page each: the mix reads a plugin       *)
(* chain, or reads the source directly once the insert is removed, the     *)
(* chain reads the source, and the source a component below it.  With      *)
(* MaxExpandDepth = 2 the depth guard cuts the last under the chain, and   *)
(* not when the mix reads the source itself.                               *)
(***************************************************************************)
EXTENDS GraphScheduler

CONSTANTS mix, chain, src, deep

ChainPlans ==
    [k \in Key |->
        CASE k[1] = mix   -> {<< <<chain, k[2]>> >>, << <<src, k[2]>>, <<src, k[2]>> >>}
          [] k[1] = chain -> {<< <<src, k[2]>> >>}
          [] k[1] = src   -> {<< <<deep, k[2]>> >>}
          [] OTHER        -> {<<>>}]

ChainRequests == {<< <<mix, 0>> >>}

ChainRetirements == {{chain}, {mix, chain}}

=============================================================================
