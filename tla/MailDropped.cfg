\* Two mails, one worker, breakers that open on the first failure, one restart.
SPECIFICATION MailSpec
CONSTANTS
    Mails = {u1, u2}
    MaxPerHour = 1
    MailThreshold = 1
    MaxStalls = 1
    MaxStops = 1
INVARIANTS UndeliveredJobsKept
CHECK_DEADLOCK FALSE
