CONSTANTS
    Pids = {101, 102, 103}
    MaxJobs = 3

SPECIFICATION FairSpec

INVARIANT ListExact

PROPERTIES
    JobsAnnouncedOnce
    TerminationsAnnounced
