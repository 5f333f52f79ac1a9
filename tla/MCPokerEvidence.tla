---------------------------- MODULE MCPokerEvidence ----------------------------
EXTENDS PokerEvidence
Hand(i, h, v, s, ok) == [id |-> i, hand |-> h, version |-> v, checksum |-> s,
                         readable |-> TRUE, valid |-> ok, queue |-> "hands"]
\* A version 1, two payloads of version 2, a message without a version, one that
\* does not validate, a stand-up message, and a hand and a topic the projector
\* cannot read.
MCMessages == {Hand(1, "h1", 1, "a", TRUE), Hand(2, "h1", 2, "a", TRUE),
               Hand(3, "h1", 2, "b", TRUE), Hand(4, "h1", NoVersion, "a", TRUE),
               Hand(5, "h1", 1, "b", FALSE),
               Hand(6, None, NoVersion, "a", TRUE),
               [Hand(7, "h1", NoVersion, "b", TRUE) EXCEPT !.readable = FALSE],
               [Hand(8, None, NoVersion, "b", TRUE) EXCEPT !.readable = FALSE]}
=============================================================================
