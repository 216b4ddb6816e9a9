SPECIFICATION Spec
CONSTANTS
    CanFail = {"chardev", "sysfs", "irqnet", "virt-int", "gpio-sim-int"}
    MaxIrqs = 3
INVARIANTS CallsFindTheirs NothingLeft StampNotStale RunsCounted
PROPERTIES UnloadEnds EveryIrqServed
