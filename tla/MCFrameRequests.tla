--------------------------- MODULE MCFrameRequests ---------------------------
(* Sizes, offsets and data with the bytes that need escaping, and each byte on its
   own, which makes the CRC use every entry of its table. *)
EXTENDS FrameRequests

MCWords == {<<a, b, 0, 0>> : a \in {0, \h7d, \h7e, \hff}, b \in {0, \h5e, \h7e}}
             \cup {<<0, 0, 0, \h7d>>, MaxSize}

MCChunks == BoundedSeq({0, \h5d, \h7d, \h7e, \hff}, 3) \cup {<<b>> : b \in 0..255}

=============================================================================
