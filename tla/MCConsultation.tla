--------------------------- MODULE MCConsultation ---------------------------
EXTENDS Consultation
CONSTANTS p1, p2
MCTwo == <<p1, p2>>
=============================================================================
