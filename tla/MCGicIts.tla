------------------------------ MODULE MCGicIts ------------------------------
\* GicIts with three CPUs, whose batches make the ring wrap between the two
\* commands of a callout.
EXTENDS GicIts, TLC

MCGicd == [lpis |-> TRUE, num |-> 1, idbits |-> 0]
MCGits == [devid_bits |-> 16, dt_entry |-> 8, ct_entry |-> 8, page |-> 4096,
           cid_bits |-> 2, hw_collections |-> 0, pta |-> FALSE]
MCGicr == [plpis |-> TRUE, direct |-> FALSE]
MCProcNum == [c \in Cpus |-> c]
Entry(base, num) == [base |-> base, num |-> num]
MCOffered == {Entry(8192, 1), Entry(8193, 1)}
=============================================================================
