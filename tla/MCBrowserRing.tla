--------------------------- MODULE MCBrowserRing ---------------------------
\* The instances of MCBrowser, with the history of the ring.
EXTENDS MCBrowser, BrowserRing
=============================================================================
