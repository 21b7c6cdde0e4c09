------------------------- MODULE MCProfileCommands -------------------------
\* One preset and one custom profile, model values of their own, and the kinds
\* of command a run sends.
EXTENDS ProfileCommands
CONSTANTS party, garden
MCPresets == {party}
MCCustoms == {garden}
MCAllKinds == {"preset", "custom", "test"}
MCTest == {"test"}
MCRecordedKinds == {"preset", "custom"}
=============================================================================
