--------------------------- MODULE MCProtocolParser ---------------------------
(* Instances of ProtocolParser for TLC.                                      *)
EXTENDS ProtocolParser, SequencesExt

\* A body may look like a header.
Bodies == BoundedSeq({Magic, 0}, MaxBody)

\* A message, a frame with another magic number, and one that announces more
\* than MAX_BODY_LENGTH and of which only the beginning comes.
AllKinds ==
    UNION {{[magic |-> Magic, length |-> Len(b), body |-> b],
            [magic |-> Magic - 2, length |-> Len(b), body |-> b],
            [magic |-> Magic, length |-> MaxBody + 1, body |-> b]} : b \in Bodies}
===============================================================================
