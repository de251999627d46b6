--------------------------- MODULE MCDocumentScan ---------------------------
EXTENDS DocumentScan
=============================================================================
