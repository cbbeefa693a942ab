--------------------------- MODULE MCBrowserLink ---------------------------
\* Constants: MCBrowserLink*.cfg.
EXTENDS BrowserLink
=============================================================================
