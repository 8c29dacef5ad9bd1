---------------------------- MODULE MCToolEpisode ----------------------------
EXTENDS ToolEpisode
=============================================================================
