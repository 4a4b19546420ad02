---------------------------- MODULE MCMainFrame ------------------------------
\* Two vehicles, one failed transaction and one failed request.
EXTENDS MainFrame
=============================================================================
