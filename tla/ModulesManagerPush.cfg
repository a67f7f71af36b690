CONSTANTS
    Workers = {t1, t2}
    Total = 2
    ListBound = 4
SPECIFICATION ManagerSpec
INVARIANT BusyIsListed
