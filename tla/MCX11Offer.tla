----------------------------- MODULE MCX11Offer -----------------------------
EXTENDS X11Offer, TLC

Symmetry == Permutations(Xids)
=============================================================================
