------------------------------ MODULE MCGicV2 ------------------------------
\* Two CPUs whose interfaces are in the other order; one plain SPI.
EXTENDS GicV2

Swapped == 0 :> 1 @@ 1 :> 0
MCVectors == "pcie" :> {5, 6} @@ "msi" :> {0, 1} @@ "qoriq_v1" :> {0, 1} @@ "qoriq_v2" :> {3, 8}
=============================================================================
