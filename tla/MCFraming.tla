------------------------------ MODULE MCFraming ------------------------------
\* Payloads for TLC: none, a tag, a tag and a half, and one too large for the
\* receiver that ends like a frame.
EXTENDS Framing

MCPayloads == {<<>>, <<83, 85>>, <<83, 85, 83>>, <<7, 7, 7, 83, 85>>}
==============================================================================
