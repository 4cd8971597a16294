CONSTANT MaxGraphicStarts <- MC_MaxGraphicStarts
SPECIFICATION Spec
PROPERTY ShowGUIForegroundsLiveWindow
