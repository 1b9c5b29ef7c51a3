\* One save killed between two renames, no damage.
CONSTANTS
    Legacy = {0}
    MaxRev = 2
    MaxDamage = 0
SPECIFICATION Spec
INVARIANT AlwaysRecoverable
CHECK_DEADLOCK FALSE
