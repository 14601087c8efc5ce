--------------------------- MODULE MCScanLifecycle ---------------------------
EXTENDS ScanLifecycle
=============================================================================
