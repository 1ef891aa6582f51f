SPECIFICATION Spec
PROPERTIES ReportsKept UpdaterSound
CHECK_DEADLOCK FALSE
