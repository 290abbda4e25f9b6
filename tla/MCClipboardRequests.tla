------------------------ MODULE MCClipboardRequests -------------------------
(* "text" may be served from "utf8", which is all that the peers offer.     *)
EXTENDS ClipboardRequests, TLC

MCTargets == {"text", "utf8"}
MCOffered == {"utf8"}
MCTranslated == [t \in MCTargets |-> IF t = "text" THEN {"utf8"} ELSE {}]
MCTokens ==
    LET Token(t, d, c, s) == [targets |-> t, data |-> d, claim |-> c, sync |-> s] IN
    {Token({}, {}, TRUE, FALSE), Token(MCOffered, MCOffered, TRUE, TRUE),
     Token(MCOffered, MCOffered, FALSE, FALSE)}

Symmetry == Permutations(Apps) \cup Permutations(Clients)
=============================================================================
