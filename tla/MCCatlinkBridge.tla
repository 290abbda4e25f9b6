--------------------------- MODULE MCCatlinkBridge ---------------------------
EXTENDS CatlinkBridge

MCShapes ==
    {[targets |-> {"image", "uri"}, eager |-> "none"],
     [targets |-> {"uri", "text"}, eager |-> "files"],
     [targets |-> {"text"}, eager |-> "text"],
     [targets |-> {}, eager |-> "none"]}
=============================================================================
