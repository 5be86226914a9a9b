---------------------- MODULE MCElectrumNetworkProvider ----------------------
(* Bounds and symmetry for model-checking ElectrumNetworkProvider.          *)
EXTENDS ElectrumNetworkProvider, TLC

CONSTANTS
    MaxTicks,  \* how far the clock runs past StartOfTime
    MaxStamps  \* how many calls pass enforceRateLimit

Bounded == now <= StartOfTime + MaxTicks /\ Len(stamps) <= MaxStamps

Symmetry == Permutations(Requests)
=============================================================================
