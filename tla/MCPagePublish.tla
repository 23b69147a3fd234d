--------------------------- MODULE MCPagePublish ---------------------------
(* Instances of PagePublish for TLC: an edit touches one page of the       *)
(* timeline.  Pages are interchangeable, and so are threads of one kind.   *)
EXTENDS PagePublish, SequencesExt

CONSTANTS p1, p2, q1, q2, w1, w2

EachPage == {{p} : p \in Page}

\* From the deepest up, which leaves nothing late; with what is below the root bumped
\* after it, a send; and every order.
DeepestFirst == [c \in Comp |-> {Path(c)}]
SendsLast == [c \in Comp |-> {Path(c), <<c>> \o Reverse(Tail(Path(c)))}]
AnyOrder == [c \in Comp |-> SetToSeqs(c .. Height)]

PullerSymmetry == Permutations(Page) \cup Permutations(Puller)
WorkerSymmetry == Permutations(Page) \cup Permutations(Worker)

=============================================================================
