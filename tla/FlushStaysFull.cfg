SPECIFICATION Spec
CONSTANTS
    NPorts = 2
    MaxStops = 1
PROPERTY
    FlushStaysFull
