SPECIFICATION Spec
SYMMETRY Perms
CONSTANTS
    Pids = {p1, p2, p3}
    Ports = {a, b}
    Apps = {"todo", "notes"}
    Ids = {"bin/todo"}
    Exact <- MCExact
    Basename <- MCBasename
    Clis = {c1, c2}
    MaxCommands = 3
    MaxSlow = 2
INVARIANTS LiveRecordKept NoSilentPick
