------------------------------ MODULE MCFrameLedger ------------------------------
EXTENDS FrameLedger

MCSpans == 1..2
=============================================================================
