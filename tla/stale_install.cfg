CONSTANTS
    tool = tool
    lib = lib
    packageJson = packageJson
    index = index
    Ids = {1, 2, 3}
    NameOf <- MCNameOf
    Deps <- MCDeps
    Differing = {1}
    Files = {packageJson, index}
    PackageJson = packageJson
    MaxRuns = 3
    MaxStops = 1
    None = None
    Torn = Torn
SPECIFICATION Spec
INVARIANT ReusedIsCurrent
CHECK_DEADLOCK FALSE
