------------------------- MODULE MCBackgroundTask -------------------------
EXTENDS BackgroundTask
=============================================================================
