SPECIFICATION Spec
CONSTANTS
    Requests = {"r1", "r2"}
    Connections = {"c1", "c2", "c3"}
    Scripts <- AllScripts
    Queries <- AllQueries
    None = None
INVARIANT QueriesAreSingle
INVARIANT AtomicBatches
INVARIANT TimelySuccessIsFinished
PROPERTY LocksAreReleased
