SPECIFICATION RestartSpec
CONSTANT Incidents = {i1, i2}
PROPERTY RestartRestores
CHECK_DEADLOCK FALSE
