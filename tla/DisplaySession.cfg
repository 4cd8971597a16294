CONSTANT MaxGraphicStarts <- MC_MaxGraphicStarts
SPECIFICATION Spec
INVARIANT AtMostOneGraphicStartPerRun
