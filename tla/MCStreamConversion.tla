------------------------- MODULE MCStreamConversion --------------------------
\* StreamConversion for TLC: its behaviours are finite, so there is nothing to
\* add.
EXTENDS StreamConversion
=============================================================================
