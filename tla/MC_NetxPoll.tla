----------------------------- MODULE MC_NetxPoll -----------------------------
EXTENDS NetxPoll

\* Three buckets: 3 and 6 fall into one, 4 into another.
TwoBuckets == {3, 4, 6}
Two        == {3, 6}

In       == {{"in"}}
InOrBoth == {{"in"}, {"in", "out"}}

Nothing  == {}
TwoReady == {<<"in", 3>>, <<"in", 6>>}
=============================================================================
