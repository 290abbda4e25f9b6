----------------------------- MODULE MCX11Reads -----------------------------
EXTENDS X11Reads

MCTargets == {"TARGETS", "image"}
=============================================================================
