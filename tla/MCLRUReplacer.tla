--------------------------- MODULE MCLRUReplacer ---------------------------
\* TLC instance of LRUReplacer: one frame more than the capacity, so that
\* unpin() also meets a full list.
EXTENDS LRUReplacer
=============================================================================
