SPECIFICATION Spec
CONSTANTS
    Procs = {p1, p2}
    Programs = {"select", "select_urandom", "select_simple", "sysfs_led"}
    Echoes = 2
    Typed = 1
    Files = {f1, f2}
INVARIANTS ReadsFindData PrintedOnce LedOffAtEnd
PROPERTIES MessagesPrinted EndsWhenAsked
