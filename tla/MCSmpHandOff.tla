---------------------------- MODULE MCSmpHandOff ----------------------------
\* SmpHandOff on four cores: three CPUs can be in the loop at once.
EXTENDS SmpHandOff, TLC

\* CPUs and cores numbered differently, as on a SoC whose boot core is not the
\* first of its cluster.
Crossed == 1 :> 2 @@ 2 :> 1 @@ 3 :> 3
MCMaxCpus == {1, 2, 7}

\* The board's own table.
BoardAffinity == [i \in 1 .. QRB2210_CPU_CORES_NUMBER - 1 |-> qrb2210_core_affinity[i]]
BoardMaxCpus == {7}
=============================================================================
