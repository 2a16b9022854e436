\* One command, two restarts allowed, four launches.
SPECIFICATION McpSpec
CONSTANTS
    u = u
    User = {u}
    MaxRestarts = 2
    MaxCommands = 1
    MaxLaunches = 4
INVARIANTS
    RestartsCapped
