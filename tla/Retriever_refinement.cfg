\* retrieve against the atomic retrieve of spec 4.5, with events that all
\* fit the decode buffer, a callback that succeeds or fails, and the
\* producer pushing during the call.
CONSTANTS
    Events <- MCEvents
    Statuses = {0, 7}
    MaxQueue = 2
    MaxTime = 2
SPECIFICATION Spec
PROPERTY RetrieverRefinement
PROPERTY RetrieveReturnsFirstFailure
