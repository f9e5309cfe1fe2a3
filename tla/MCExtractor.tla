----------------------------- MODULE MCExtractor ----------------------------
(* Videos for model checking: one of each kind that is treated differently. *)
EXTENDS Extractor

Kind(access, captions, content) ==
    [access |-> access, captions |-> captions, content |-> content]
AllKinds ==
    {Kind("public", TRUE, "speech"), Kind("public", FALSE, "speech"),
     Kind("public", TRUE, "silent"), Kind("public", FALSE, "short"),
     Kind("members", FALSE, "speech"), Kind("private", FALSE, "speech"),
     Kind("upcoming", TRUE, "speech")}
=============================================================================
