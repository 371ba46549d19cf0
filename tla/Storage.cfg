SPECIFICATION Spec
CONSTANTS
    Units = {u1, u2, u3}
    Files = {f1, f2}
    Tags = {loader, t1, t2}
    Loader = loader
    Generations = 3
    None = None
SYMMETRY Symmetry
INVARIANTS HandleIsCurrent BusIsAccountedFor InUseStays
PROPERTIES WritesAreGranted
