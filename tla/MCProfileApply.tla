--------------------------- MODULE MCProfileApply ---------------------------
\* A profile with both parts, one with the animation only and one with the sound
\* only.
EXTENDS ProfileApply
CONSTANTS both, picture, chime
MCProfiles == {both, picture, chime}
MCWelcome == {both, picture}
MCRing == {both, chime}
=============================================================================
