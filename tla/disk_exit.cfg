\* A daemon that ends while its machine is off.
SPECIFICATION Spec
CONSTANTS
    f1 = f1  f2 = f2  x = x  y = y
    File = {f1, f2}
    NoFile = NoFile
    Bytes = {x, y}
    None = None
    MaxFailures = 1
INVARIANT ExitKeepsWrites
CHECK_DEADLOCK FALSE
