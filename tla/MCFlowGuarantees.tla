----------------------- MODULE MCFlowGuarantees -----------------------
EXTENDS FlowGuarantees, TLC

Symmetry == Permutations(Requests)
=============================================================================
