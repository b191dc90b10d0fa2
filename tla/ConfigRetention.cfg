SPECIFICATION ConfigSpec
CONSTANTS
    ConfigRun = {r1}
    MaxExports = 3
    RetentionCount = 2
    MaxMishaps = 1
INVARIANT ConfigRetention
CHECK_DEADLOCK FALSE
