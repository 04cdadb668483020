----------------------------- MODULE MCCiWatcher -----------------------------
EXTENDS CiWatcher

CONSTANTS lint, build, earlier

MCRun == {lint, build, earlier}
MCForeign == {earlier}
=============================================================================
