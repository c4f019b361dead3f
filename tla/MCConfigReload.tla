--------------------------- MODULE MCConfigReload ---------------------------
EXTENDS ConfigReload

\* The order in which Context adds its sources: those of
\* Application.ConfigPaths, then the primary one, then the secondary one.
MCSources == <<"path", "primary">>
MCSourcesWithSecondary == <<"primary", "secondary">>
=============================================================================
