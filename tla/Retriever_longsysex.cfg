\* As Retriever_refinement.cfg, with a system-exclusive message longer
\* than MAX_MIDI_EVENT_SIZE among the events.
CONSTANTS
    Events <- MCEventsWithLongSysex
    Statuses = {0, 7}
    MaxQueue = 2
    MaxTime = 2
SPECIFICATION Spec
PROPERTY RetrieverRefinement
