--------------------------- MODULE MCSlidingWindow ---------------------------
EXTENDS SlidingWindow, TLC
==============================================================================
