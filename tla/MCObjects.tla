----------------------------- MODULE MCObjects -----------------------------
\* A line with a point twice; a quarter turn.
EXTENDS Objects

SomeLists == {<<<<0, 1>>, <<2, 1>>, <<2, 1>>>>}

SomePoints == {<<1, 2>>}

QuarterTurn == {<<<<0, -1, 2>>, <<1, 0, 0>>>>}

=============================================================================
