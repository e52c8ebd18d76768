----------------------------- MODULE MCCasework -----------------------------
EXTENDS Casework, TLC

\* A vote for or against: the edit of a draft may turn them round.
TwoLists == {<<"yes", "no">>, <<"no", "yes">>}

\* One option, or the first of them twice.
SomePicks == {[yes |-> 1, no |-> 0], [yes |-> 0, no |-> 1], [yes |-> 2, no |-> 0]}

\* Doubles round up <<28, 25>> and <<55, 100>>: a pair of few voters stands for such.
RoundedUp == {<<50, 2>>}

Symmetry == Permutations(Requests) \cup Permutations(Items)

=============================================================================
