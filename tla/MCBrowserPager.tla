--------------------------- MODULE MCBrowserPager ---------------------------
\* The instances of MCBrowser, seen through the abstract pager.
EXTENDS MCBrowser, BrowserPager
=============================================================================
