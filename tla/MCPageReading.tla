--------------------------- MODULE MCPageReading ---------------------------
EXTENDS PageReading

=============================================================================
