------------------------- MODULE MC_DisplaySession -------------------------
EXTENDS DisplaySession

\* Room for one StartGraphicApplication more than a run should ever make.
MC_MaxGraphicStarts == 2
=============================================================================
