\* One job of two checks, or two jobs beside a closed one that must make room;
\* two calls in flight.
SPECIFICATION SpecEither
CONSTANTS
    j1 = j1  j2 = j2  j3 = j3  j4 = j4  c1 = c1  c2 = c2
    Jobs = {j1, j2, j3, j4}
    Calls = {c1, c2}
    PlanOf <- Plans
    Budgets <- Shifting
    MaxJobs = 2
    MaxAttempts = 2
    MaxRevision = 9
    NoJob = NoJob
INVARIANTS RestartsOnceAlone StepsInOrder
PROPERTIES ClosedForGood LeaseResolves
