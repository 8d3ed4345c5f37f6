---------------------------- MODULE MCRamManager ----------------------------
\* RamManager on sixteen bytes of memory with pages of two.
EXTENDS RamManager

Block(start, end) == [start |-> start, end |-> end]

\* Two banks of the board, the first across 4G, and a -M option that joins
\* them.
MCBanks == <<Block(0, 8), Block(10, 16), Block(8, 10)>>
MCImage == Block(0, 2)
MCRequests == {[size |-> 1, align |-> 1], [size |-> 2, align |-> 2]}
MCReserves == {[size |-> 1, align |-> 0, low |-> FALSE],
               [size |-> 2, align |-> 2, low |-> TRUE]}
MCJtagRanges == {Block(11, 13)}

\* -r naming memory that a later -M adds.
MCLateRange == {Block(8, 10)}
=============================================================================
