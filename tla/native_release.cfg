\* One session is enough: its plan is not replaced, the kernel does not stop, and the
\* second attempt to disconnect takes it down under the running plan.
CONSTANTS
    Ids = {a}
    None = None
    MaxOps = 3
    MaxFaults = 0
SPECIFICATION Spec
PROPERTY ReleaseIsWithdrawn
CHECK_DEADLOCK FALSE
