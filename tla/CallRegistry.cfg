SPECIFICATION Spec
CONSTANTS
    CallIds = {c1, c2}
    Tasks = {t1, t2}
INVARIANTS NoOrphanTask
PROPERTIES EventuallyCancelled
